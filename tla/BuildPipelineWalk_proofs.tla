---------------------- MODULE BuildPipelineWalk_proofs ----------------------
(***************************************************************************)
(* The walk of a pipeline over its stages: position is where the current   *)
(* stage and those chained to it end, every stage that had to run before   *)
(* has run, none runs twice, a build that succeeds has left out none, and  *)
(* what was cleaned runs again.                                            *)
(***************************************************************************)
EXTENDS BuildPipeline_proofs

(* A stage of the operation executes, and those in chained with it. *)
Walking == activity \in {"paused", "executing", "answered"}

-----------------------------------------------------------------------------
(* The index of an entry. *)

(* The entries are sorted: pipeline_entry_compare and the index agree. *)
LEMMA IndexOrders ==
  ASSUME TypeOK, NEW a \in connected, NEW b \in connected
  PROVE  Before(a, b) <=> IndexOf(a) < IndexOf(b)
<1> DEFINE Below(s) == {x \in connected : Before(x, s)}
<1>1. ASSUME NEW c \in connected, NEW d \in connected, Before(c, d)
      PROVE  IndexOf(c) < IndexOf(d)
  <2>1. c \in Stages /\ d \in Stages /\ connected \subseteq Stages
    BY DEF TypeOK
  <2>2. Below(c) \in SUBSET Below(d)
    BY <1>1, <2>1, BeforeIsTransitive
  <2>3. c \in Below(d) /\ c \notin Below(c)
    BY <1>1, <2>1, BeforeIsAsymmetric
  <2>4. IsFiniteSet(Below(d))
    BY <2>1, StagesAssumption, FS_Subset
  <2>5. Cardinality(Below(c)) <= Cardinality(Below(d)) /\ Cardinality(Below(c)) # Cardinality(Below(d))
    <3> HIDE DEF Below
    <3> QED
      BY <2>2, <2>3, <2>4, FS_Subset
  <2>6. IndexOf(c) = Cardinality(Below(c)) /\ IndexOf(d) = Cardinality(Below(d))
    BY DEF IndexOf
  <2>7. IndexOf(c) \in Nat /\ IndexOf(d) \in Nat
    BY IndexOfType
  <2> QED
    BY <2>5, <2>6, <2>7
<1>2. IndexOf(a) \in Nat /\ IndexOf(b) \in Nat
  BY IndexOfType
<1>3. a = b \/ Before(a, b) \/ Before(b, a)
  BY KeysAssumption DEF TypeOK
<1> QED
  BY <1>1, <1>2, <1>3

(* The work of a stage h: itself and those of todo chained to it. *)
LEMMA ChainFollows ==
  ASSUME NEW h \in Stages, NEW todo \in SUBSET Stages
  PROVE  /\ ChainedTo(h, todo) \subseteq todo
         /\ \A c \in ChainedTo(h, todo) :
              /\ Before(h, c) /\ <<h, c>> \in Chains
              /\ \A s \in todo : Before(h, s) /\ Before(s, c) => s \in ChainedTo(h, todo)
<1> SUFFICES ASSUME NEW c \in ChainedTo(h, todo)
             PROVE  /\ Before(h, c) /\ <<h, c>> \in Chains
                    /\ \A s \in todo : Before(h, s) /\ Before(s, c) => s \in ChainedTo(h, todo)
  BY DEF ChainedTo
<1>1. c \in todo /\ Before(h, c)
      /\ \A x \in todo : Before(h, x) /\ ~Before(c, x) => <<h, x>> \in Chains
  BY DEF ChainedTo
<1>2. <<h, c>> \in Chains
  BY <1>1, BeforeIsAsymmetric
<1>3. ASSUME NEW s \in todo, Before(h, s), Before(s, c)
      PROVE  s \in ChainedTo(h, todo)
  <2>1. \A x \in todo : Before(h, x) /\ ~Before(s, x) => ~Before(c, x)
    BY <1>1, <1>3, BeforeIsTransitive
  <2> QED
    BY <1>1, <1>3, <2>1 DEF ChainedTo
<1> QED
  BY <1>1, <1>2, <1>3

-----------------------------------------------------------------------------
(* The order in which stages run. *)

(* The entries the walk has passed have run, unless they are disabled, and *)
(* what ran comes before those it has not passed.                          *)
Swept(pos, r) ==
  \A s \in connected :
    /\ IndexOf(s) <= pos /\ s \notin Disabled => r[s] = "now"
    /\ IndexOf(s) > pos => \A x \in Stages : r[x] = "now" => Before(x, s)

(* Between a stage and the last one chained to it there is no other that   *)
(* would have had to run.                                                  *)
ChainHasNoGaps ==
  Walking /\ ~reshaped =>
    \A c \in chained :
      /\ Before(current, c)
      /\ \A s \in connected \ Disabled : Before(current, s) /\ Before(s, c) => s \in chained

(* The reaper works before the stages of a rebuild. *)
ReapsFirst ==
  activity = "reaping" => position = -1 /\ \A s \in Stages : ran[s] # "now"

OrderInv ==
  PositionMatchesCurrent /\ StagesRunInOrder /\ ChainHasNoGaps /\ ReapsFirst

LEMMA IdleKeepsOrder ==
  ASSUME activity' \notin {"paused", "executing", "answered", "reaping"}
  PROVE  OrderInv'
BY DEF OrderInv, PositionMatchesCurrent, StagesRunInOrder, ChainHasNoGaps, ReapsFirst, Walking

(* The stage that is started next, and those chained to it, continue the walk. *)
LEMMA StartKeepsOrder ==
  ASSUME TypeOK, NEW t \in Tasks, NEW comp, NEW binds, NEW pos \in Int, NEW pending,
         NEW goal \in 0..NPhases, requested' = goal,
         NEW todo, todo = Remaining(goal, pos), todo # {},
         StartStage(t, First(todo), ChainedTo(First(todo), todo), comp, binds, pending),
         ~reshaped' => Swept(pos, ran')
  PROVE  OrderInv' /\ current' \in Stages /\ Walking'
<1> DEFINE h == First(todo)
           rest == ChainedTo(h, todo)
<1>1. connected \subseteq Stages /\ todo \subseteq connected \ Disabled /\ todo \in SUBSET Stages
  BY DEF TypeOK, Remaining
<1>2. h \in todo /\ \A x \in todo \ {h} : Before(h, x)
  BY <1>1, FirstExists
<1>3. /\ rest \subseteq todo
      /\ \A c \in rest : /\ Before(h, c)
                         /\ \A s \in todo : Before(h, s) /\ Before(s, c) => s \in rest
  BY <1>1, <1>2, ChainFollows
<1>4. /\ current' = h /\ chained' = rest
      /\ position' = IndexOf(Last({h} \cup rest))
      /\ activity' \in {"paused", "executing", "answered"}
      /\ connected' = connected
  BY DEF StartStage, PositionAfter, TaskContinues, WaitsFor, arrayVars
<1>5. \A s \in todo : PhaseOf[s] <= goal /\ IndexOf(s) > pos
  BY DEF Remaining
<1>6. \A s \in connected : IndexOf(s) \in Nat
  BY IndexOfType
<1>7. ASSUME NEW s \in connected \ Disabled, NEW c \in todo, Before(s, c), IndexOf(s) > pos
      PROVE  s \in todo
  <2>1. PhaseOf[s] <= PhaseOf[c]
    BY <1>1, <1>7, StagesAssumption DEF Before
  <2>2. PhaseOf[s] \in Int /\ PhaseOf[c] \in Int /\ goal \in Int
    BY <1>1, StagesAssumption
  <2> QED
    BY <1>5, <1>7, <2>1, <2>2 DEF Remaining
<1>8. PositionMatchesCurrent'
  <2> SUFFICES ASSUME ~reshaped'
               PROVE  /\ {h} \cup rest \subseteq connected
                      /\ position' = IndexOf(Last({h} \cup rest))
                      /\ PhaseOf[h] <= goal
                      /\ \A s \in connected \ Disabled : Before(s, h) => ran'[s] = "now"
    BY <1>4 DEF PositionMatchesCurrent, IndexOf
  <2>1. ASSUME NEW s \in connected \ Disabled, Before(s, h)
        PROVE  ran'[s] = "now"
    <3>1. s \notin todo
      BY <1>1, <1>2, <2>1, BeforeIsAsymmetric
    <3>2. ~(IndexOf(s) > pos)
      BY <1>2, <1>7, <2>1, <3>1
    <3> QED
      BY <1>6, <2>1, <3>2 DEF Swept
  <2> QED
    BY <1>1, <1>2, <1>3, <1>4, <1>5, <2>1
<1>9. StagesRunInOrder'
  <2> SUFFICES ASSUME ~reshaped', NEW s \in {h} \cup rest, NEW x \in Stages, ran'[x] = "now"
               PROVE  Before(x, s)
    BY <1>4 DEF StagesRunInOrder
  <2>1. s \in todo
    BY <1>2, <1>3
  <2> QED
    BY <1>1, <1>5, <2>1 DEF Swept
<1>10. ChainHasNoGaps'
  <2> SUFFICES ASSUME NEW c \in rest
               PROVE  /\ Before(h, c)
                      /\ \A s \in connected \ Disabled : Before(h, s) /\ Before(s, c) => s \in rest
    BY <1>4 DEF ChainHasNoGaps
  <2>1. ASSUME NEW s \in connected \ Disabled, Before(h, s), Before(s, c)
        PROVE  s \in rest
    <3>1. IndexOf(h) < IndexOf(s)
      BY <1>1, <1>2, <2>1, IndexOrders
    <3>2. IndexOf(s) > pos
      BY <1>1, <1>2, <1>5, <1>6, <3>1
    <3>3. s \in todo
      BY <1>3, <1>7, <2>1, <3>2
    <3> QED
      BY <1>3, <2>1, <3>3
  <2> QED
    BY <1>3, <2>1
<1>11. ReapsFirst'
  BY <1>4 DEF ReapsFirst
<1> QED
  BY <1>1, <1>2, <1>4, <1>8, <1>9, <1>10, <1>11 DEF OrderInv, Walking

LEMMA TickExecuteKeepsOrder ==
  ASSUME TypeOK, NEW t \in Tasks, NEW comp, NEW binds, NEW pos \in Int, NEW pending,
         TickExecute(t, comp, binds, pos, pending), ~reshaped' => Swept(pos, ran')
  PROVE  OrderInv'
<1> DEFINE goal == Later(requested, phase[t])
           todo == Remaining(goal, pos)
<1>1. CASE \E answer, end : WalkEnds(t, answer, comp, binds, end, pending)
  BY <1>1, IdleKeepsOrder DEF WalkEnds, TaskCompleted
<1>2. CASE /\ todo # {} /\ requested' = goal
           /\ StartStage(t, First(todo), ChainedTo(First(todo), todo), comp, binds, pending)
  <2>1. goal \in 0..NPhases
    BY DEF TypeOK, Later
  <2> HIDE DEF goal
  <2> QED
    BY <1>2, <2>1, StartKeepsOrder
<1> QED
  BY <1>1, <1>2 DEF TickExecute

(* The stage that answers, and those chained to it, have been swept. *)
LEMMA AnswerSweeps ==
  ASSUME TypeOK, OrderInv, Walking, current # None, ~reshaped,
         ran' = [s \in Stages |-> IF s \in {current} \cup chained THEN "now" ELSE ran[s]]
  PROVE  Swept(position, ran')
<1> DEFINE work == {current} \cup chained
           end == Last(work)
<1>1. work \subseteq connected /\ connected \subseteq Stages /\ current \in Stages
  BY DEF TypeOK, OrderInv, PositionMatchesCurrent, Walking
<1>2. end \in work /\ \A x \in work \ {end} : Before(x, end)
  BY <1>1, LastExists
<1>3. position = IndexOf(end)
  BY DEF OrderInv, PositionMatchesCurrent, Walking
<1>4. \A s \in connected : IndexOf(s) \in Nat
  BY IndexOfType
<1>5. ASSUME NEW s \in connected \ Disabled, IndexOf(s) <= position
      PROVE  ran'[s] = "now"
  <2>1. s = end \/ Before(s, end)
    <3>1. ~(IndexOf(end) < IndexOf(s))
      BY <1>1, <1>2, <1>3, <1>4, <1>5
    <3>2. ~Before(end, s)
      BY <1>1, <1>2, <3>1, IndexOrders
    <3> QED
      BY <1>1, <1>2, <3>2, KeysAssumption
  <2>2. CASE s \in work
    BY <1>1, <2>2
  <2>3. CASE Before(s, current)
    BY <1>1, <2>3 DEF OrderInv, PositionMatchesCurrent, Walking
  <2>4. CASE s \notin work /\ Before(current, s)
    <3>1. Before(s, end) /\ end # s
      BY <1>2, <2>1, <2>4
    <3>2. end \in chained
      BY <1>1, <1>2, <2>4, <3>1, BeforeIsAsymmetric
    <3> QED
      BY <2>4, <3>1, <3>2 DEF OrderInv, ChainHasNoGaps
  <2> QED
    BY <1>1, <2>2, <2>3, <2>4, KeysAssumption
<1>6. ASSUME NEW s \in connected, IndexOf(s) > position, NEW x \in Stages, ran'[x] = "now"
      PROVE  Before(x, s)
  <2>1. Before(end, s)
    BY <1>1, <1>2, <1>3, <1>4, <1>6, IndexOrders
  <2>2. x = end \/ Before(x, end)
    <3>1. CASE x \in work
      BY <1>2, <3>1
    <3>2. CASE x \notin work
      BY <1>2, <1>6, <3>2 DEF OrderInv, StagesRunInOrder, Walking
    <3> QED
      BY <3>1, <3>2
  <2> QED
    BY <1>1, <1>2, <2>1, <2>2, BeforeIsTransitive
<1> QED
  BY <1>5, <1>6 DEF Swept

LEMMA StageExecutedKeepsOrder ==
  ASSUME TypeOK, OrderInv, Walking, current # None, NEW t \in Tasks, NEW comp,
         NEW ok \in BOOLEAN, StageExecuted(t, comp, ok), UNCHANGED reshaped
  PROVE  OrderInv'
<1>1. CASE ok
  <2>1. ~reshaped' => Swept(position, ran')
    BY <1>1, AnswerSweeps DEF StageExecuted
  <2>2. position \in Int
    BY DEF TypeOK
  <2> QED
    BY <1>1, <2>1, <2>2, TickExecuteKeepsOrder DEF StageExecuted
<1>2. CASE ~ok
  BY <1>2, IdleKeepsOrder DEF StageExecuted, TaskCompleted
<1> QED
  BY <1>1, <1>2

(* Before the first stage starts nothing has run, and nothing is passed. *)
LEMMA NothingSwept ==
  ASSUME TypeOK, NEW r, \A s \in Stages : r[s] # "now"
  PROVE  Swept(-1, r)
BY IndexOfType DEF Swept

(* A step that goes on with the same work keeps the order: more may be     *)
(* requested meanwhile.                                                    *)
LEMMA SameWorkKeepsOrder ==
  ASSUME TypeOK, OrderInv, UNCHANGED <<connected, current, chained, position, ran, reshaped>>,
         TypeOK', requested' >= requested,
         activity' = activity \/ (Walking /\ Walking')
  PROVE  OrderInv'
<1>1. \A s : IndexOf(s)' = IndexOf(s)
  BY DEF IndexOf
<1>2. Walking' => Walking
  BY DEF Walking
<1>3. ~reshaped' => ~reshaped
  OBVIOUS
<1>4. PositionMatchesCurrent'
  <2> SUFFICES ASSUME Walking', ~reshaped'
               PROVE  PositionMatchesCurrent'
    BY DEF PositionMatchesCurrent, Walking
  <2>1. Walking /\ ~reshaped /\ PositionMatchesCurrent
    BY <1>2, <1>3 DEF OrderInv
  <2>2. current \in Stages
    BY <2>1 DEF PositionMatchesCurrent, Walking, TypeOK
  <2>3. PhaseOf[current] <= requested'
    BY <2>1, <2>2, StagesAssumption DEF PositionMatchesCurrent, Walking, TypeOK
  <2> QED
    BY <2>1, <2>3 DEF PositionMatchesCurrent, Walking, IndexOf
<1>5. StagesRunInOrder' /\ ChainHasNoGaps'
  BY <1>2, <1>3 DEF OrderInv, StagesRunInOrder, ChainHasNoGaps, Walking
<1>6. ReapsFirst'
  BY DEF OrderInv, ReapsFirst, Walking
<1> QED
  BY <1>4, <1>5, <1>6 DEF OrderInv

LEMMA OrderNext ==
  TypeOK /\ QueueInv /\ CallbackInv /\ OrderInv /\ [Next]_vars => OrderInv'
<1> SUFFICES ASSUME TypeOK, QueueInv, CallbackInv, OrderInv, [Next]_vars PROVE OrderInv'
  OBVIOUS
<1>0. TypeOK' /\ requested \in Int
  <2>1. TypeOK'
    BY NextType
  <2>2. requested \in Int
    BY StagesAssumption DEF TypeOK
  <2> QED
    BY <2>1, <2>2
<1> USE DEF arrayVars, workVars, taskVars, ghostVars
<1>1. ASSUME NEW t \in Tasks, NEW p \in 1..NPhases, RequestPhase(t, p)
      PROVE  OrderInv'
  <2>1. requested' >= requested
    BY <1>0, <1>1 DEF RequestPhase, Later
  <2> QED
    BY <1>0, <1>1, <2>1, SameWorkKeepsOrder DEF RequestPhase
<1>2. ASSUME NEW t \in Tasks, NEW p, CleanAsync(t, p) \/ RebuildAsync(t, p)
      PROVE  OrderInv'
  BY <1>0, <1>2, SameWorkKeepsOrder DEF CleanAsync, RebuildAsync
<1>3. ASSUME NEW t \in Tasks, ExecuteAsync(t) \/ Cancel(t)
      PROVE  OrderInv'
  BY <1>0, <1>3, SameWorkKeepsOrder DEF ExecuteAsync, Cancel
<1>4. ASSUME NEW t \in Tasks, Unpause(t)
      PROVE  OrderInv'
  <2>1. Walking /\ current # None
    BY <1>4 DEF Unpause, Walking, CallbackInv, CallbackFindsItsTask
  <2>2. PICK comp : \/ StageExecuted(t, comp, t \notin cancelled)
                    \/ /\ TaskContinues(t, "executing", flushes)
                       /\ UNCHANGED <<position, requested, current, chained, ran>>
    BY <1>4, Zenon DEF Unpause
  <2>3. (t \notin cancelled) \in BOOLEAN /\ UNCHANGED reshaped
    BY <1>4 DEF Unpause
  <2>4. CASE StageExecuted(t, comp, t \notin cancelled)
    BY <2>1, <2>3, <2>4, StageExecutedKeepsOrder
  <2>5. CASE /\ TaskContinues(t, "executing", flushes)
             /\ UNCHANGED <<position, requested, current, chained, ran>>
    BY <1>0, <2>1, <2>3, <2>5, SameWorkKeepsOrder DEF TaskContinues, Walking
  <2> QED
    BY <2>2, <2>4, <2>5
<1>5. ASSUME NEW t \in Tasks, StageReturns(t)
      PROVE  OrderInv'
  <2>1. Walking /\ current # None /\ UNCHANGED reshaped
    BY <1>5 DEF StageReturns, Walking, CallbackInv, CallbackFindsItsTask
  <2> QED
    BY <1>5, <2>1, StageExecutedKeepsOrder DEF StageReturns
<1>6. ASSUME NEW t \in Tasks, CleanReturns(t)
      PROVE  OrderInv'
  <2>1. activity' \in {"idle", "cleaning"}
    BY <1>6 DEF CleanReturns, TickClean, TaskCompleted, TaskContinues
  <2> QED
    BY <2>1, IdleKeepsOrder
<1>7. ASSUME NEW t \in Tasks, ReapReturns(t)
      PROVE  OrderInv'
  <2>1. CASE \E answer : TaskCompleted(t, answer, FALSE, flushes)
    BY <2>1, IdleKeepsOrder DEF TaskCompleted
  <2>2. CASE TickExecute(t, completed, bindings, position, flushes)
    <3>1. position = -1 /\ Swept(-1, ran')
      BY <1>7, NothingSwept DEF ReapReturns, OrderInv, ReapsFirst
    <3> QED
      BY <2>2, <3>1, TickExecuteKeepsOrder
  <2> QED
    BY <1>7, <2>1, <2>2 DEF ReapReturns
<1>8. ASSUME NEW ps, InvalidatePhase(ps)
      PROVE  OrderInv'
  BY <1>0, <1>8, SameWorkKeepsOrder DEF InvalidatePhase
<1>9. ASSUME NEW now, Reshape(now)
      PROVE  OrderInv'
  <2>1. CASE now = connected
    <3>1. reshaped' = reshaped
      BY <1>9, <2>1, Zenon DEF Reshape, TypeOK
    <3> QED
      BY <1>0, <1>9, <2>1, <3>1, SameWorkKeepsOrder DEF Reshape
  <2>2. CASE now # connected /\ busy
    <3>1. reshaped' /\ activity' = activity /\ position' = position /\ ran' = ran
      BY <1>9, <2>2 DEF Reshape
    <3> QED
      BY <3>1 DEF OrderInv, PositionMatchesCurrent, StagesRunInOrder, ChainHasNoGaps, ReapsFirst
  <2>3. CASE ~busy
    <3>1. activity' = "idle"
      BY <1>9, <2>3 DEF Reshape, QueueInv, SingleFlight
    <3> QED
      BY <3>1, IdleKeepsOrder
  <2> QED
    BY <2>1, <2>2, <2>3
<1>10. ASSUME FlushNothing \/ FlushFails
       PROVE  OrderInv'
  BY <1>0, <1>10, SameWorkKeepsOrder DEF FlushNothing, FlushFails
<1>11. ASSUME FlushStarts
       PROVE  OrderInv'
  <2>1. Head(queue) \in Tasks
    BY <1>11 DEF FlushStarts, TypeOK
  <2>2. \A s \in Stages : ran'[s] # "now"
    BY <1>11 DEF FlushStarts
  <2>3. CASE TickExecute(Head(queue), completed, bindings, -1, flushes - 1)
    BY <2>1, <2>2, <2>3, NothingSwept, TickExecuteKeepsOrder
  <2>4. CASE TickClean(Head(queue), toClean[Head(queue)], flushes - 1)
    <3>1. activity' \in {"idle", "cleaning"}
      BY <2>4 DEF TickClean, TaskCompleted, TaskContinues
    <3> QED
      BY <3>1, IdleKeepsOrder
  <2>5. CASE TickRebuild(Head(queue), flushes - 1) /\ position' = -1
    <3>1. activity' = "reaping"
      BY <2>5 DEF TickRebuild, TaskContinues
    <3> QED
      BY <2>2, <2>5, <3>1
      DEF OrderInv, PositionMatchesCurrent, StagesRunInOrder, ChainHasNoGaps, ReapsFirst, Walking
  <2> QED
    BY <1>11, <2>3, <2>4, <2>5 DEF FlushStarts
<1>12. CASE UNCHANGED vars
  BY <1>0, <1>12, SameWorkKeepsOrder DEF vars
<1> QED
  BY <1>1, <1>2, <1>3, <1>4, <1>5, <1>6, <1>7, <1>8, <1>9, <1>10, <1>11, <1>12
  DEF Next, Callback, DoFlush, Connect, Disconnect, Load, Unload

LEMMA OrderCorrect == Spec => []OrderInv
<1>1. Init => OrderInv
  BY DEF Init, OrderInv, PositionMatchesCurrent, StagesRunInOrder, ChainHasNoGaps, ReapsFirst, Walking
<1> QED
  BY <1>1, OrderNext, TypeCorrect, QueueInvCorrect, CallbackInvCorrect, PTL DEF Spec

(* While a stage executes in a pipeline that was not reshaped, position is  *)
(* the index of the last stage chained to it, and all before it that had to *)
(* run have run: tick_execute leaves out nothing and repeats nothing.       *)
THEOREM PositionCorrect == Spec => []PositionMatchesCurrent
<1>1. OrderInv => PositionMatchesCurrent
  BY DEF OrderInv
<1> QED
  BY <1>1, OrderCorrect, PTL

(* No stage runs twice in one execution, or after a later one. *)
THEOREM StagesAreOrdered == Spec => []StagesRunInOrder
<1>1. OrderInv => StagesRunInOrder
  BY DEF OrderInv
<1> QED
  BY <1>1, OrderCorrect, PTL
-----------------------------------------------------------------------------
(* What bindings lead to. *)

LEMMA BoundIsClosed ==
  ASSUME NEW binds, NEW S, NEW open
  PROVE  /\ Bound(binds, S, open) \subseteq open
         /\ S \cap open \subseteq Bound(binds, S, open)
         /\ \A x \in Bound(binds, S, open), y \in open :
              <<x, y>> \in binds => y \in Bound(binds, S, open)
<1>1. Bound(binds, S, open) \subseteq open /\ S \cap open \subseteq Bound(binds, S, open)
  BY DEF Bound
<1>2. ASSUME NEW x \in Bound(binds, S, open), NEW y \in open, <<x, y>> \in binds
      PROVE  y \in Bound(binds, S, open)
  <2> SUFFICES ASSUME NEW C \in SUBSET open, S \cap open \subseteq C,
                      \A a \in C, b \in open : <<a, b>> \in binds => b \in C
               PROVE  y \in C
    BY <1>2 DEF Bound
  <2>1. x \in C
    BY <1>2 DEF Bound
  <2> QED
    BY <1>2, <2>1
<1> QED
  BY <1>1, <1>2

(* Nothing else is bound than what is in every closed set. *)
LEMMA BoundIsLeast ==
  ASSUME NEW binds, NEW S, NEW open, NEW C \in SUBSET open, S \cap open \subseteq C,
         \A x \in C, y \in open : <<x, y>> \in binds => y \in C
  PROVE  Bound(binds, S, open) \subseteq C
BY DEF Bound

Forward(binds) == \A a, b \in Stages : <<a, b>> \in binds => Before(a, b)

(* Bindings go from earlier to later stages, so nothing before is bound. *)
LEMMA BoundIsLater ==
  ASSUME NEW binds, Forward(binds), NEW h \in Stages, NEW open \in SUBSET Stages,
         NEW s \in Bound(binds, {h}, open)
  PROVE  s = h \/ Before(h, s)
<1> DEFINE C == {x \in open : x = h \/ Before(h, x)}
<1>1. \A x \in C, y \in open : <<x, y>> \in binds => y \in C
  BY BeforeIsTransitive DEF Forward
<1>2. {h} \cap open \subseteq C /\ C \in SUBSET open
  OBVIOUS
<1>3. Bound(binds, {h}, open) \subseteq C
  <2> HIDE DEF C
  <2> QED
    BY <1>1, <1>2, BoundIsLeast
<1> QED
  BY <1>3

(* More to start from, and more room, lead further. *)
LEMMA BoundGrows ==
  ASSUME NEW binds, NEW S, NEW T, S \subseteq T, NEW open \in SUBSET Stages
  PROVE  Bound(binds, S, open) \subseteq Bound(binds, T, Stages)
<1> DEFINE C == open \cap Bound(binds, T, Stages)
<1>1. S \cap open \subseteq C /\ C \in SUBSET open
      /\ \A x \in C, y \in open : <<x, y>> \in binds => y \in C
  BY BoundIsClosed
<1>2. Bound(binds, S, open) \subseteq C
  <2> HIDE DEF C
  <2> QED
    BY <1>1, BoundIsLeast
<1> QED
  BY <1>2

(* Setting "completed" of the stages in S: they get the value, those that  *)
(* had it keep it, and the others that change are bound to S.              *)
LEMMA SetCompletedSets ==
  ASSUME NEW comp \in [Stages -> BOOLEAN], NEW binds, NEW S, NEW v \in BOOLEAN, NEW s \in Stages
  PROVE  /\ comp[s] = v => SetCompleted(comp, binds, S, v)[s] = v
         /\ s \in S => SetCompleted(comp, binds, S, v)[s] = v
         /\ s \in Bound(binds, S, {x \in Stages : comp[x] # v}) => SetCompleted(comp, binds, S, v)[s] = v
         /\ \/ SetCompleted(comp, binds, S, v)[s] = comp[s]
            \/ s \in Bound(binds, S, {x \in Stages : comp[x] # v})
<1> DEFINE open == {x \in Stages : comp[x] # v}
<1>1. SetCompleted(comp, binds, S, v)[s] = IF s \in Bound(binds, S, open) THEN v ELSE comp[s]
  BY DEF SetCompleted, Following
<1>2. s \in S /\ comp[s] # v => s \in Bound(binds, S, open)
  BY BoundIsClosed
<1> QED
  BY <1>1, <1>2

-----------------------------------------------------------------------------
(* What has run is complete. *)

(* A stage that took over others is going to run, and bound to pass on that *)
(* it has.                                                                  *)
HeadLeadsChain ==
  Walking /\ chained # {} =>
    activity = "executing" /\ ~completed[current] /\ {current} \X chained \subseteq bindings

(* What ran in this operation is complete, unless it was invalidated. *)
RanIsComplete ==
  Walking /\ ~reshaped =>
    \A s \in Stages : ran[s] = "now" => completed[s] \/ s \in Bound(bindings, stale, Stages)

BindInv == Forward(bindings) /\ HeadLeadsChain /\ RanIsComplete

(* The current stage answers: it and those chained to it are complete. *)
LEMMA AnswerCompletes ==
  ASSUME TypeOK, BindInv, Walking, current \in Stages, NEW comp \in [Stages -> BOOLEAN],
         chained # {} => ~comp[current],
         NEW after, after = SetCompleted(comp, bindings, {current}, TRUE)
  PROVE  /\ \A s \in Stages : comp[s] => after[s]
         /\ \A s \in {current} \cup chained : after[s]
<1> DEFINE open == {x \in Stages : comp[x] # TRUE}
<1>1. \A s \in Stages : comp[s] => after[s]
  BY SetCompletedSets
<1>2. after[current]
  BY SetCompletedSets
<1>3. ASSUME NEW s \in chained
      PROVE  after[s]
  <2>1. s \in Stages /\ <<current, s>> \in bindings
    BY <1>3 DEF TypeOK, BindInv, HeadLeadsChain
  <2>2. CASE comp[s]
    BY <1>1, <2>1, <2>2
  <2>3. CASE ~comp[s]
    <3>1. current \in open /\ s \in open
      BY <1>3, <2>1, <2>3
    <3>2. s \in Bound(bindings, {current}, open)
      <4> HIDE DEF open
      <4> QED
        BY <2>1, <3>1, BoundIsClosed
    <3> QED
      BY <2>1, <3>2, SetCompletedSets
  <2> QED
    BY <2>2, <2>3
<1> QED
  BY <1>1, <1>2, <1>3

(* Starting a stage disturbs nothing that ran before it. *)
LEMMA StartKeepsBinding ==
  ASSUME TypeOK, NEW t \in Tasks, NEW comp \in [Stages -> BOOLEAN],
         NEW binds, Forward(binds), NEW pending, NEW todo \in SUBSET Stages, todo # {},
         StartStage(t, First(todo), ChainedTo(First(todo), todo), comp, binds, pending),
         StagesRunInOrder',
         ~reshaped' => \A s \in Stages : ran'[s] = "now" =>
                         comp[s] \/ s \in Bound(bindings', stale', Stages)
  PROVE  BindInv'
<1> DEFINE h == First(todo)
           rest == ChainedTo(h, todo)
<1>1. h \in Stages
  BY FirstExists
<1>2. rest \subseteq Stages /\ \A c \in rest : Before(h, c) /\ <<h, c>> \in Chains
  BY <1>1, ChainFollows
<1>3. PICK q \in IF HasQuery(h) THEN Query[h] ELSE {"keep"} :
        /\ completed' = AfterQuery(q, h, comp, Linked(binds, h, rest))
        /\ TaskContinues(t, WaitsFor(q, completed'[h]), pending)
  BY DEF StartStage
<1>4. /\ current' = h /\ chained' = rest /\ bindings' = binds \cup ({h} \X rest)
      /\ activity' = WaitsFor(q, completed'[h])
  BY <1>3 DEF StartStage, Linked, TaskContinues
<1>5. Forward(bindings')
  BY <1>2, <1>4 DEF Forward
<1>6. completed' = comp \/ \E v \in BOOLEAN : completed' = SetCompleted(comp, bindings', {h}, v)
  BY <1>3, <1>4 DEF AfterQuery, Linked
<1>7. HeadLeadsChain'
  <2> SUFFICES ASSUME rest # {}
               PROVE  /\ activity' = "executing" /\ ~completed'[h]
                      /\ {h} \X rest \subseteq bindings'
    BY <1>4 DEF HeadLeadsChain
  <2>1. Query[h] = {"stale"}
    <3>1. PICK c : c \in rest
      OBVIOUS
    <3>2. <<h, c>>[1] = h /\ <<h, c>> \in Chains
      BY <1>2, <3>1
    <3> QED
      BY <3>2, ChainsAssumption
  <2>2. q = "stale"
    BY <1>3, <2>1 DEF HasQuery
  <2>3. completed' = SetCompleted(comp, Linked(binds, h, rest), {h}, FALSE)
    BY <1>3, <2>2 DEF AfterQuery
  <2>4. completed'[h] = FALSE
    BY <1>1, <2>3, SetCompletedSets
  <2>5. activity' = "executing"
    BY <1>4, <2>2, <2>4 DEF WaitsFor
  <2> QED
    BY <1>4, <2>4, <2>5
<1>8. RanIsComplete'
  <2> SUFFICES ASSUME ~reshaped', Walking', NEW s \in Stages, ran'[s] = "now"
               PROVE  completed'[s] \/ s \in Bound(bindings', stale', Stages)
    BY DEF RanIsComplete
  <2>1. comp[s] \/ s \in Bound(bindings', stale', Stages)
    OBVIOUS
  <2>2. Before(s, h)
    BY <1>4 DEF StagesRunInOrder, Walking
  <2>3. ASSUME comp[s], NEW v \in BOOLEAN, completed' = SetCompleted(comp, bindings', {h}, v)
        PROVE  completed'[s]
    <3>1. s \notin Bound(bindings', {h}, {x \in Stages : comp[x] # v})
      BY <1>1, <1>5, <2>2, BoundIsLater, BeforeIsAsymmetric
    <3> QED
      BY <2>3, <3>1, SetCompletedSets
  <2> QED
    BY <1>6, <2>1, <2>3
<1> QED
  BY <1>5, <1>7, <1>8, <1>4 DEF BindInv

LEMMA IdleKeepsBinding ==
  ASSUME activity' \notin {"paused", "executing", "answered"}, Forward(bindings')
  PROVE  BindInv'
BY DEF BindInv, HeadLeadsChain, RanIsComplete, Walking, Forward
LEMMA TickExecuteKeepsBinding ==
  ASSUME TypeOK, NEW t \in Tasks, NEW comp \in [Stages -> BOOLEAN],
         NEW binds, Forward(binds), NEW pos \in Int, NEW pending,
         TickExecute(t, comp, binds, pos, pending), OrderInv',
         Walking' /\ ~reshaped' => \A s \in Stages : ran'[s] = "now" =>
                         comp[s] \/ s \in Bound(bindings', stale', Stages)
  PROVE  BindInv'
<1> DEFINE goal == Later(requested, phase[t])
           todo == Remaining(goal, pos)
<1>1. CASE \E answer, end : WalkEnds(t, answer, comp, binds, end, pending)
  BY <1>1, IdleKeepsBinding DEF WalkEnds, TaskCompleted
<1>2. CASE /\ todo # {}
           /\ StartStage(t, First(todo), ChainedTo(First(todo), todo), comp, binds, pending)
  <2>1. todo \in SUBSET Stages
    BY DEF TypeOK, Remaining
  <2>2. Walking'
    BY <1>2 DEF StartStage, TaskContinues, WaitsFor, Walking
  <2>3. StagesRunInOrder'
    BY DEF OrderInv
  <2> HIDE DEF todo
  <2> QED
    BY <1>2, <2>1, <2>2, <2>3, StartKeepsBinding
<1> QED
  BY <1>1, <1>2 DEF TickExecute

(* The stage that answers: what ran before it stays bound to the same      *)
(* invalidated stages, for these come before it too.                       *)
LEMMA AnswerKeepsBound ==
  ASSUME TypeOK, BindInv, current \in Stages, NEW h \in Stages, Before(current, h),
         NEW rest \in SUBSET Stages, \A c \in rest : Before(h, c),
         NEW binds, bindings \ ({current} \X chained) \subseteq binds,
         NEW s \in Bound(bindings, stale, Stages), Before(s, current)
  PROVE  s \in Bound(binds, stale \ ({h} \cup rest), Stages)
<1> DEFINE kept == Bound(binds, stale \ ({h} \cup rest), Stages)
           C == kept \cup {x \in Stages : ~Before(x, current)}
<1>1. kept \subseteq Stages /\ (stale \ ({h} \cup rest)) \subseteq kept
      /\ \A x \in kept, y \in Stages : <<x, y>> \in binds => y \in kept
  <2>1. stale \subseteq Stages
    BY DEF TypeOK
  <2> QED
    BY <2>1, BoundIsClosed
<1>2. stale \cap Stages \subseteq C
  <2>1. \A x \in {h} \cup rest : Before(current, x)
    BY BeforeIsTransitive
  <2>2. \A x \in {h} \cup rest : x \in Stages /\ ~Before(x, current)
    BY <2>1, BeforeIsAsymmetric
  <2> QED
    BY <1>1, <2>2
<1>3. ASSUME NEW x \in C, NEW y \in Stages, <<x, y>> \in bindings
      PROVE  y \in C
  <2>1. x \in Stages /\ Before(x, y)
    BY <1>1, <1>3 DEF BindInv, Forward
  <2>2. CASE x \in kept /\ x # current
    <3>1. <<x, y>> \in binds
      BY <1>3, <2>2
    <3> QED
      BY <1>1, <2>2, <3>1
  <2>3. CASE x = current \/ ~Before(x, current)
    <3>1. ~Before(y, current)
      BY <2>1, <2>3, BeforeIsAsymmetric, BeforeIsTransitive
    <3> QED
      BY <3>1
  <2> QED
    BY <2>2, <2>3
<1>4. Bound(bindings, stale, Stages) \subseteq C
  <2>1. C \in SUBSET Stages
    BY <1>1
  <2> HIDE DEF C
  <2> QED
    BY <1>2, <1>3, <2>1, BoundIsLeast
<1> QED
  BY <1>4

LEMMA StageExecutedKeepsBinding ==
  ASSUME TypeOK, OrderInv, BindInv, Walking, current \in Stages, NEW t \in Tasks,
         NEW comp \in [Stages -> BOOLEAN], \A s \in Stages : completed[s] => comp[s],
         chained # {} => ~comp[current],
         NEW ok \in BOOLEAN, StageExecuted(t, comp, ok), UNCHANGED reshaped, OrderInv'
  PROVE  BindInv'
<1> DEFINE after == SetCompleted(comp, bindings, {current}, ok)
           binds == IF unbinds THEN bindings \ ({current} \X chained) ELSE bindings
<1>1. Forward(binds) /\ binds \subseteq bindings
  BY DEF BindInv, Forward
<1>2. CASE ok
  <2>1. TickExecute(t, after, binds, position, flushes)
        /\ ran' = [s \in Stages |-> IF s \in {current} \cup chained THEN "now" ELSE ran[s]]
    BY <1>2 DEF StageExecuted
  <2>2. after \in [Stages -> BOOLEAN]
    BY SetCompletedType
  <2>3. /\ \A s \in Stages : comp[s] => after[s]
        /\ \A s \in {current} \cup chained : after[s]
    <3>1. after = SetCompleted(comp, bindings, {current}, TRUE)
      BY <1>2
    <3> HIDE DEF after
    <3> QED
      BY <3>1, AnswerCompletes
  <2>4. ASSUME Walking', ~reshaped', NEW s \in Stages, ran'[s] = "now"
        PROVE  after[s] \/ s \in Bound(bindings', stale', Stages)
    <3>1. CASE s \in {current} \cup chained
      BY <2>3, <3>1
    <3>2. CASE completed[s]
      BY <2>3, <3>2
    <3>3. CASE s \notin {current} \cup chained /\ ~completed[s]
      <4>1. ran[s] = "now" /\ s \in Bound(bindings, stale, Stages)
        BY <2>1, <2>4, <3>3 DEF BindInv, RanIsComplete
      <4>2. Before(s, current)
        BY <2>4, <4>1 DEF OrderInv, StagesRunInOrder, Walking
      <4>3. PICK h \in Stages, rest \in SUBSET Stages :
              /\ current' = h /\ chained' = rest
              /\ stale' = stale \ ({h} \cup rest)
              /\ bindings' = binds \cup ({h} \X rest)
        <5> DEFINE goal == Later(requested, phase[t])
                   todo == Remaining(goal, position)
        <5>1. todo # {} /\ StartStage(t, First(todo), ChainedTo(First(todo), todo), after, binds, flushes)
          BY <2>1, <2>4 DEF TickExecute, WalkEnds, TaskCompleted, Walking
        <5>2. todo \in SUBSET Stages
          BY DEF TypeOK, Remaining
        <5>3. First(todo) \in Stages
          BY <5>1, <5>2, FirstExists
        <5>4. ChainedTo(First(todo), todo) \in SUBSET Stages
          BY <5>2 DEF ChainedTo
        <5> HIDE DEF todo, after, binds
        <5> QED
          BY <5>1, <5>3, <5>4 DEF StartStage, Linked
      <4>4. Before(current, h)
        <5>1. ran'[current] = "now"
          BY <2>1
        <5> QED
          BY <2>4, <4>3, <5>1 DEF OrderInv, StagesRunInOrder, Walking
      <4>5. \A c \in rest : Before(h, c)
        BY <2>4, <4>3 DEF OrderInv, ChainHasNoGaps
      <4>6. bindings \ ({current} \X chained) \subseteq bindings'
        BY <4>3
      <4> QED
        BY <4>1, <4>2, <4>3, <4>4, <4>5, <4>6, AnswerKeepsBound
    <3> QED
      BY <3>1, <3>2, <3>3
  <2>5. position \in Int
    BY DEF TypeOK
  <2> HIDE DEF after, binds
  <2> QED
    BY <1>1, <2>1, <2>2, <2>4, <2>5, TickExecuteKeepsBinding
<1>3. CASE ~ok
  <2>1. activity' = "idle" /\ bindings' = binds
    BY <1>3 DEF StageExecuted, TaskCompleted
  <2> QED
    BY <1>1, <2>1, IdleKeepsBinding
<1> QED
  BY <1>2, <1>3
LEMMA ElsewhereKeepsBinding ==
  ASSUME BindInv, UNCHANGED <<completed, bindings, stale, ran, current, chained, activity>>,
         reshaped => reshaped'
  PROVE  BindInv'
BY DEF BindInv, HeadLeadsChain, RanIsComplete, Walking, Forward

(* A stage is invalidated, or found stale by its query: what ran before is  *)
(* complete still, or known to be invalidated.                              *)
LEMMA ResetKeepsBinding ==
  ASSUME TypeOK, BindInv, UNCHANGED <<bindings, ran, current, chained, reshaped>>, current \in Stages,
         NEW S, completed' = SetCompleted(completed, bindings, S, FALSE),
         activity' = activity \/ (Walking /\ activity' = "executing"),
         \/ stale' = stale \cup S
         \/ stale' = stale /\ S = {current} /\ OrderInv
  PROVE  BindInv'
<1>1. completed \in [Stages -> BOOLEAN]
  BY DEF TypeOK
<1>2. Walking' => Walking
  BY DEF Walking
<1>3. HeadLeadsChain'
  <2> SUFFICES ASSUME Walking', chained # {}
               PROVE  activity' = "executing" /\ ~completed'[current]
    BY <1>2 DEF HeadLeadsChain, BindInv
  <2>1. activity = "executing" /\ ~completed[current]
    BY <1>2 DEF BindInv, HeadLeadsChain
  <2>2. completed'[current] = FALSE
    BY <1>1, <2>1, SetCompletedSets
  <2> QED
    BY <2>1, <2>2
<1>4. RanIsComplete'
  <2> SUFFICES ASSUME Walking', ~reshaped, NEW s \in Stages, ran[s] = "now"
               PROVE  completed'[s] \/ s \in Bound(bindings, stale', Stages)
    BY DEF RanIsComplete
  <2>1. completed[s] \/ s \in Bound(bindings, stale, Stages)
    BY <1>2 DEF BindInv, RanIsComplete
  <2> DEFINE open == {x \in Stages : completed[x] # FALSE}
  <2>2. completed'[s] = completed[s] \/ s \in Bound(bindings, S, open)
    BY <1>1, SetCompletedSets
  <2>3. CASE stale' = stale \cup S
    <3>1. Bound(bindings, stale, Stages) \subseteq Bound(bindings, stale', Stages)
      BY <2>3, BoundGrows
    <3>2. Bound(bindings, S, open) \subseteq Bound(bindings, stale', Stages)
      <4>1. open \in SUBSET Stages /\ S \subseteq stale'
        BY <2>3
      <4> HIDE DEF open
      <4> QED
        BY <4>1, BoundGrows
    <3> QED
      BY <2>1, <2>2, <3>1, <3>2
  <2>4. CASE stale' = stale /\ S = {current} /\ OrderInv
    <3>1. Before(s, current)
      BY <1>2, <2>4 DEF OrderInv, StagesRunInOrder, Walking
    <3>2. s \notin Bound(bindings, {current}, open)
      <4>1. open \in SUBSET Stages /\ Forward(bindings)
        BY DEF BindInv
      <4> HIDE DEF open
      <4> QED
        BY <3>1, <4>1, BoundIsLater, BeforeIsAsymmetric
    <3> QED
      BY <2>1, <2>2, <2>4, <3>2
  <2> QED
    BY <2>3, <2>4
<1>5. Forward(bindings')
  BY DEF BindInv, Forward
<1> QED
  BY <1>3, <1>4, <1>5 DEF BindInv

(* A stage that was paused is alone; its handler has decided whether it is *)
(* complete, and if it is not it executes.                                 *)
LEMMA UnpauseChooses ==
  ASSUME TypeOK, BindInv, current \in Stages, NEW t \in Tasks, Unpause(t)
  PROVE  /\ chained = {}
         /\ \/ \E comp \in [Stages -> BOOLEAN] :
                 /\ StageExecuted(t, comp, t \notin cancelled)
                 /\ \A s \in Stages : completed[s] => comp[s]
            \/ /\ completed' \in {completed, SetCompleted(completed, bindings, {current}, FALSE)}
               /\ activity' = "executing"
               /\ state' = [state EXCEPT ![t] = "running"]
               /\ UNCHANGED <<bindings, current, chained, ran, stale>>
<1>1. chained = {}
  BY DEF Unpause, BindInv, HeadLeadsChain, Walking
<1>2. completed \in [Stages -> BOOLEAN]
  BY DEF TypeOK
<1>3. PICK comp \in {completed} \cup {SetCompleted(completed, bindings, {current}, v) : v \in BOOLEAN} :
        \/ comp[current] /\ StageExecuted(t, comp, t \notin cancelled)
        \/ /\ ~comp[current] /\ completed' = comp
           /\ TaskContinues(t, "executing", flushes)
           /\ UNCHANGED <<bindings, position, requested, current, chained, unbinds,
                          toClean, ran, stale>>
  BY DEF Unpause
<1>4. ASSUME NEW v \in BOOLEAN
      PROVE  /\ SetCompleted(completed, bindings, {current}, v) \in [Stages -> BOOLEAN]
             /\ SetCompleted(completed, bindings, {current}, v)[current] = v
  <2>1. SetCompleted(completed, bindings, {current}, v) \in [Stages -> BOOLEAN]
    BY <1>2, SetCompletedType
  <2>2. SetCompleted(completed, bindings, {current}, v)[current] = v
    <3>1. SetCompleted(completed, bindings, {current}, TRUE)[current] = TRUE
      BY <1>2, SetCompletedSets
    <3>2. SetCompleted(completed, bindings, {current}, FALSE)[current] = FALSE
      BY <1>2, SetCompletedSets
    <3>3. v = TRUE \/ v = FALSE
      OBVIOUS
    <3> QED
      BY <3>1, <3>2, <3>3
  <2> QED
    BY <2>1, <2>2
<1>5. comp \in [Stages -> BOOLEAN]
  BY <1>2, <1>3, <1>4
<1>6. CASE comp[current] /\ StageExecuted(t, comp, t \notin cancelled)
  <2>1. comp = completed \/ comp = SetCompleted(completed, bindings, {current}, TRUE)
    BY <1>3, <1>4, <1>6
  <2>2. ASSUME NEW s \in Stages, completed[s]
        PROVE  comp[s]
    <3>1. completed[s] = TRUE
      BY <1>2, <2>2
    <3>2. SetCompleted(completed, bindings, {current}, TRUE)[s] = TRUE
      BY <1>2, <3>1, SetCompletedSets
    <3> QED
      BY <2>1, <3>1, <3>2
  <2> QED
    BY <1>1, <1>5, <1>6, <2>2
<1>7. CASE /\ ~comp[current] /\ completed' = comp
           /\ TaskContinues(t, "executing", flushes)
           /\ UNCHANGED <<bindings, position, requested, current, chained, unbinds,
                          toClean, ran, stale>>
  <2>1. comp = completed \/ comp = SetCompleted(completed, bindings, {current}, FALSE)
    BY <1>3, <1>4, <1>7
  <2> QED
    BY <1>1, <1>7, <2>1 DEF TaskContinues
<1> QED
  BY <1>3, <1>6, <1>7

LEMMA BindNext ==
  TypeOK /\ QueueInv /\ CallbackInv /\ OrderInv /\ BindInv /\ [Next]_vars => BindInv'
<1> SUFFICES ASSUME TypeOK, QueueInv, CallbackInv, OrderInv, BindInv, [Next]_vars PROVE BindInv'
  OBVIOUS
<1>0. /\ completed \in [Stages -> BOOLEAN] /\ position \in Int /\ Forward(bindings)
      /\ OrderInv'
      /\ Walking => (\A t \in Tasks : Running(t) => current \in Stages)
  <2>1. Walking => (\A t \in Tasks : Running(t) => current # None)
    BY DEF CallbackInv, CallbackFindsItsTask, Walking
  <2> QED
    BY <2>1, OrderNext DEF TypeOK, BindInv
<1> USE DEF arrayVars, stageVars, workVars, taskVars, ghostVars
<1>1. ASSUME NEW t \in Tasks, NEW p, RequestPhase(t, p) \/ CleanAsync(t, p) \/ RebuildAsync(t, p)
      PROVE  BindInv'
  BY <1>1, ElsewhereKeepsBinding DEF RequestPhase, CleanAsync, RebuildAsync
<1>2. ASSUME NEW t \in Tasks, ExecuteAsync(t) \/ Cancel(t)
      PROVE  BindInv'
  BY <1>2, ElsewhereKeepsBinding DEF ExecuteAsync, Cancel
<1>3. ASSUME NEW t \in Tasks, Unpause(t)
      PROVE  BindInv'
  <2>1. Walking /\ current \in Stages /\ UNCHANGED reshaped
    BY <1>0, <1>3 DEF Unpause, Walking
  <2>2. CASE \E comp \in [Stages -> BOOLEAN] :
               /\ StageExecuted(t, comp, t \notin cancelled)
               /\ \A s \in Stages : completed[s] => comp[s]
    <3>1. (t \notin cancelled) \in BOOLEAN /\ chained = {}
      BY <1>3, <2>1, UnpauseChooses
    <3> QED
      BY <1>0, <2>1, <2>2, <3>1, StageExecutedKeepsBinding
  <2>3. CASE /\ completed' \in {completed, SetCompleted(completed, bindings, {current}, FALSE)}
             /\ activity' = "executing"
             /\ UNCHANGED <<bindings, current, chained, ran, stale>>
    <3>1. CASE completed' = completed
      <4>1. chained = {}
        BY <1>3, <2>1, UnpauseChooses
      <4> QED
        BY <2>1, <2>3, <3>1, <4>1 DEF BindInv, HeadLeadsChain, RanIsComplete, Walking, Forward
    <3>2. CASE completed' = SetCompleted(completed, bindings, {current}, FALSE)
      BY <2>1, <2>3, <3>2, ResetKeepsBinding
    <3> QED
      BY <2>3, <3>1, <3>2
  <2> QED
    BY <1>3, <2>1, <2>2, <2>3, UnpauseChooses
<1>4. ASSUME NEW t \in Tasks, StageReturns(t)
      PROVE  BindInv'
  <2>1. Walking /\ current \in Stages /\ UNCHANGED reshaped
    BY <1>0, <1>4 DEF StageReturns, Walking
  <2>2. PICK ok \in BOOLEAN : StageExecuted(t, completed, ok)
    BY <1>4 DEF StageReturns
  <2>3. chained # {} => ~completed[current]
    BY <2>1 DEF BindInv, HeadLeadsChain
  <2> QED
    BY <1>0, <2>1, <2>2, <2>3, StageExecutedKeepsBinding
<1>5. ASSUME NEW t \in Tasks, CleanReturns(t)
      PROVE  BindInv'
  <2>1. activity' \in {"idle", "cleaning"} /\ Forward(bindings')
    BY <1>0, <1>5 DEF CleanReturns, TickClean, TaskCompleted, TaskContinues
  <2> QED
    BY <2>1, IdleKeepsBinding
<1>6. ASSUME NEW t \in Tasks, ReapReturns(t)
      PROVE  BindInv'
  <2>1. CASE (\E answer : TaskCompleted(t, answer, FALSE, flushes)) /\ UNCHANGED bindings
    BY <1>0, <2>1, IdleKeepsBinding DEF TaskCompleted
  <2>2. CASE TickExecute(t, completed, bindings, position, flushes)
    <3>1. \A s \in Stages : ran'[s] # "now"
      BY <1>6 DEF ReapReturns, OrderInv, ReapsFirst
    <3> QED
      BY <1>0, <2>2, <3>1, TickExecuteKeepsBinding
  <2> QED
    BY <1>6, <2>1, <2>2 DEF ReapReturns
<1>7. ASSUME NEW ps, InvalidatePhase(ps)
      PROVE  BindInv'
  <2>1. CASE Walking
    <3>1. current \in Stages
      <4>1. PICK t \in Tasks : Running(t)
        BY <2>1 DEF QueueInv, SingleFlight, Walking
      <4> QED
        BY <1>0, <2>1, <4>1
    <3> QED
      BY <1>7, <3>1, ResetKeepsBinding DEF InvalidatePhase
  <2>2. CASE ~Walking
    BY <1>0, <1>7, <2>2, IdleKeepsBinding DEF InvalidatePhase, Walking
  <2> QED
    BY <2>1, <2>2
<1>8. ASSUME NEW now, Reshape(now)
      PROVE  BindInv'
  <2>1. reshaped => reshaped'
    BY <1>8 DEF Reshape
  <2> QED
    BY <1>8, <2>1, ElsewhereKeepsBinding DEF Reshape
<1>9. ASSUME FlushNothing \/ FlushFails
      PROVE  BindInv'
  BY <1>9, ElsewhereKeepsBinding DEF FlushNothing, FlushFails
<1>10. ASSUME FlushStarts
       PROVE  BindInv'
  <2>1. Head(queue) \in Tasks /\ \A s \in Stages : ran'[s] # "now"
    BY <1>10 DEF FlushStarts, TypeOK
  <2>2. CASE TickExecute(Head(queue), completed, bindings, -1, flushes - 1)
    BY <1>0, <2>1, <2>2, TickExecuteKeepsBinding
  <2>3. CASE /\ TickClean(Head(queue), toClean[Head(queue)], flushes - 1) \/ TickRebuild(Head(queue), flushes - 1)
             /\ UNCHANGED bindings
    <3>1. activity' \in {"idle", "cleaning", "reaping"}
      BY <2>3 DEF TickClean, TickRebuild, TaskCompleted, TaskContinues
    <3> QED
      BY <1>0, <2>3, <3>1, IdleKeepsBinding
  <2> QED
    BY <1>10, <2>2, <2>3 DEF FlushStarts
<1>11. CASE UNCHANGED vars
  BY <1>11, ElsewhereKeepsBinding DEF vars
<1> QED
  BY <1>1, <1>2, <1>3, <1>4, <1>5, <1>6, <1>7, <1>8, <1>9, <1>10, <1>11
  DEF Next, Callback, DoFlush, Connect, Disconnect, Load, Unload

LEMMA BindCorrect == Spec => []BindInv
<1>1. Init => BindInv
  BY DEF Init, BindInv, Forward, HeadLeadsChain, RanIsComplete, Walking
<1> QED
  BY <1>1, BindNext, OrderCorrect, TypeCorrect, QueueInvCorrect, CallbackInvCorrect, PTL DEF Spec
-----------------------------------------------------------------------------
(* What success means. *)

(* When tick_execute ends the walk with success, it has passed every entry  *)
(* up to the phase of the task, or none of them needs to be executed.       *)
LEMMA WalkReaches ==
  ASSUME TypeOK, NEW t \in Tasks, NEW comp, NEW binds, NEW pos \in Int, NEW pending,
         TickExecute(t, comp, binds, pos, pending), state'[t] = "ok",
         ~reshaped' => Swept(pos, ran'), ~reshaped',
         NEW s \in connected \ Disabled, PhaseOf[s] <= phase[t]
  PROVE  completed' = comp /\ (ran'[s] = "now" \/ (comp[s] /\ ~HasQuery(s)))
<1> DEFINE goal == Later(requested, phase[t])
           todo == Remaining(goal, pos)
<1>1. PhaseOf[s] <= goal
  <2>1. s \in Stages /\ requested \in Int /\ phase[t] \in Int
    BY DEF TypeOK
  <2>2. PhaseOf[s] \in Int
    BY <2>1, StagesAssumption
  <2> QED
    BY <2>1, <2>2 DEF Later
<1>2. ASSUME NEW answer, NEW end, WalkEnds(t, answer, comp, binds, end, pending)
      PROVE  completed' = comp /\ answer = "ok"
  BY <1>2 DEF WalkEnds, TaskCompleted, TypeOK
<1>3. CASE ~NeedsExecution(goal, comp) /\ WalkEnds(t, "ok", comp, binds, pos, pending)
  BY <1>1, <1>2, <1>3 DEF NeedsExecution
<1>4. CASE todo = {} /\ \E end : WalkEnds(t, "ok", comp, binds, end, pending)
  <2>1. ~(IndexOf(s) > pos)
    BY <1>1, <1>4 DEF Remaining
  <2>2. IndexOf(s) \in Nat
    BY IndexOfType
  <2>3. ran'[s] = "now"
    BY <2>1, <2>2 DEF Swept
  <2> QED
    BY <1>2, <1>4, <2>3
<1>5. CASE \E end : WalkEnds(t, "error", comp, binds, end, pending)
  BY <1>2, <1>5
<1>6. CASE StartStage(t, First(todo), ChainedTo(First(todo), todo), comp, binds, pending)
  BY <1>6 DEF StartStage, TaskContinues, TypeOK
<1> QED
  BY <1>3, <1>4, <1>5, <1>6 DEF TickExecute

(* What a build that has reached its phase says of a stage of that phase. *)
Reached(s) ==
  \/ ran'[s] = "now" /\ (completed'[s] \/ s \in Bound(bindings, stale, Stages))
  \/ completed'[s] /\ ~HasQuery(s)

LEMMA AnswerReaches ==
  ASSUME TypeOK, OrderInv, BindInv, Walking, current \in Stages, NEW t \in Tasks,
         NEW comp \in [Stages -> BOOLEAN], \A x \in Stages : completed[x] => comp[x],
         chained # {} => ~comp[current],
         NEW ok \in BOOLEAN, StageExecuted(t, comp, ok), UNCHANGED reshaped,
         state'[t] = "ok", ~reshaped',
         NEW s \in connected \ Disabled, PhaseOf[s] <= phase[t]
  PROVE  Reached(s)
<1> DEFINE after == SetCompleted(comp, bindings, {current}, ok)
           binds == IF unbinds THEN bindings \ ({current} \X chained) ELSE bindings
<1>1. ok
  BY DEF StageExecuted, TaskCompleted, TypeOK
<1>2. TickExecute(t, after, binds, position, flushes)
      /\ ran' = [x \in Stages |-> IF x \in {current} \cup chained THEN "now" ELSE ran[x]]
  BY <1>1 DEF StageExecuted
<1>3. Swept(position, ran')
  BY <1>2, AnswerSweeps, StagesAssumption
<1>4. completed' = after /\ (ran'[s] = "now" \/ (after[s] /\ ~HasQuery(s)))
  <2>1. position \in Int
    BY DEF TypeOK
  <2> HIDE DEF after, binds
  <2> QED
    BY <1>2, <1>3, <2>1, WalkReaches
<1>5. /\ \A x \in Stages : comp[x] => after[x]
      /\ \A x \in {current} \cup chained : after[x]
  <2>1. after = SetCompleted(comp, bindings, {current}, TRUE)
    BY <1>1
  <2> HIDE DEF after
  <2> QED
    BY <2>1, AnswerCompletes
<1>6. CASE ran'[s] = "now"
  <2>1. s \in Stages
    BY DEF TypeOK
  <2>2. CASE s \in {current} \cup chained
    BY <1>4, <1>5, <1>6, <2>2 DEF Reached
  <2>3. CASE s \notin {current} \cup chained
    <3>1. ran[s] = "now"
      BY <1>2, <1>6, <2>1, <2>3
    <3>2. completed[s] \/ s \in Bound(bindings, stale, Stages)
      BY <2>1, <3>1 DEF BindInv, RanIsComplete
    <3> HIDE DEF after
    <3> QED
      BY <1>4, <1>5, <1>6, <2>1, <3>2 DEF Reached
  <2> QED
    BY <2>2, <2>3
<1> QED
  BY <1>4, <1>6 DEF Reached
LEMMA BuildReaches ==
  ASSUME TypeOK, QueueInv, CallbackInv, OrderInv, BindInv, [Next]_vars,
         NEW t \in Tasks, Answered(t), state'[t] = "ok", Kind[t] # "clean", ~reshaped',
         NEW s \in connected \ Disabled, PhaseOf[s] <= phase[t]
  PROVE  Reached(s)
<1>0. /\ completed \in [Stages -> BOOLEAN] /\ s \in Stages /\ state \in [Tasks -> {"new", "queued", "running", "ok", "error"}]
      /\ state[t] \in {"queued", "running"}
      /\ Walking => (\A u \in Tasks : Running(u) => current \in Stages)
  <2>1. Walking => (\A u \in Tasks : Running(u) => current # None)
    BY DEF CallbackInv, CallbackFindsItsTask, Walking
  <2> QED
    BY <2>1 DEF TypeOK, Answered
<1> USE DEF taskVars, ghostVars
(* The task that is answered is the one the callback belongs to. *)
<1>1. ASSUME NEW u, NEW what, state' = [state EXCEPT ![u] = what]
      PROVE  u = t
  BY <1>0, <1>1
<1>2. ASSUME UNCHANGED state \/ (\E u \in Tasks : Accepts(u))
      PROVE  FALSE
  BY <1>0, <1>2 DEF Accepts, Enqueue, AnswerAtOnce
<1>3. ASSUME NEW u \in Tasks, Unpause(u)
      PROVE  Reached(s)
  <2>1. Walking /\ current \in Stages /\ UNCHANGED reshaped
    BY <1>0, <1>3 DEF Unpause, Walking
  <2>2. chained = {}
    BY <1>3, <2>1, UnpauseChooses
  <2>3. PICK comp \in [Stages -> BOOLEAN] :
          /\ StageExecuted(u, comp, u \notin cancelled)
          /\ \A x \in Stages : completed[x] => comp[x]
    <3>1. state' # [state EXCEPT ![u] = "running"]
      BY <1>0
    <3> QED
      BY <1>3, <2>1, <3>1, UnpauseChooses
  <2>4. (u \notin cancelled) \in BOOLEAN /\ UNCHANGED phase
    BY <1>3 DEF Unpause
  <2>5. u = t
    <3>1. EndsOrWalks(u)
      BY <2>3, <2>4, StageExecutedEndsOrWalks
    <3> QED
      BY <1>1, <3>1 DEF EndsOrWalks
  <2> QED
    BY <2>1, <2>2, <2>3, <2>4, <2>5, AnswerReaches
<1>4. ASSUME NEW u \in Tasks, StageReturns(u)
      PROVE  Reached(s)
  <2>1. Walking /\ current \in Stages /\ UNCHANGED <<phase, reshaped>>
    BY <1>0, <1>4 DEF StageReturns, Walking
  <2>2. PICK ok \in BOOLEAN : StageExecuted(u, completed, ok)
    BY <1>4 DEF StageReturns
  <2>3. u = t
    <3>1. EndsOrWalks(u)
      BY <2>1, <2>2, StageExecutedEndsOrWalks
    <3> QED
      BY <1>1, <3>1 DEF EndsOrWalks
  <2>4. chained # {} => ~completed[current]
    BY <2>1 DEF BindInv, HeadLeadsChain
  <2> QED
    BY <1>0, <2>1, <2>2, <2>3, <2>4, AnswerReaches
<1>5. ASSUME NEW u \in Tasks, CleanReturns(u)
      PROVE  FALSE
  <2>1. Kind[u] = "clean"
    BY <1>5 DEF CleanReturns, CallbackInv, CallbackFindsItsTask
  <2>2. \E what : state' = [state EXCEPT ![u] = what]
    BY <1>5 DEF CleanReturns, TickClean, TaskCompleted, TaskContinues
  <2> QED
    BY <1>1, <2>1, <2>2
<1>6. ASSUME NEW u \in Tasks, ReapReturns(u)
      PROVE  Reached(s)
  <2>1. CASE \E answer : TaskCompleted(u, answer, FALSE, flushes) /\ (answer = "error" \/ phase[u] = 0)
    <3>1. u = t
      BY <1>1, <2>1 DEF TaskCompleted
    <3>2. phase[t] = 0
      BY <1>0, <2>1, <3>1 DEF TaskCompleted
    <3>3. PhaseOf[s] \in 1..NPhases
      BY <1>0, StagesAssumption
    <3> QED
      BY <3>2, <3>3
  <2>2. CASE TickExecute(u, completed, bindings, position, flushes) /\ UNCHANGED phase
    <3>1. u = t
      BY <1>1, <2>2, TickExecuteEndsOrWalks DEF EndsOrWalks
    <3>2. position = -1 /\ Swept(-1, ran') /\ ran'[s] # "now"
      BY <1>0, <1>6, NothingSwept DEF ReapReturns, OrderInv, ReapsFirst
    <3> QED
      BY <1>0, <2>2, <3>1, <3>2, WalkReaches DEF Reached
  <2> QED
    BY <1>6, <2>1, <2>2 DEF ReapReturns
<1>7. ASSUME FlushFails
      PROVE  FALSE
  BY <1>0, <1>7 DEF FlushFails
<1>8. ASSUME FlushStarts
      PROVE  Reached(s)
  <2> DEFINE u == Head(queue)
  <2>1. u \in Tasks /\ (\A x \in Stages : ran'[x] # "now") /\ UNCHANGED phase
    BY <1>8 DEF FlushStarts, TypeOK
  <2>2. CASE TickExecute(u, completed, bindings, -1, flushes - 1)
    <3>1. u = t
      BY <1>1, <2>1, <2>2, TickExecuteEndsOrWalks DEF EndsOrWalks
    <3>2. Swept(-1, ran')
      BY <2>1, NothingSwept
    <3> QED
      BY <1>0, <2>1, <2>2, <3>1, <3>2, WalkReaches DEF Reached
  <2>3. CASE Kind[u] = "clean" /\ TickClean(u, toClean[u], flushes - 1)
    BY <1>1, <2>3 DEF TickClean, TaskCompleted, TaskContinues
  <2>4. CASE TickRebuild(u, flushes - 1)
    BY <1>0, <2>4 DEF TickRebuild, TaskContinues
  <2> QED
    BY <1>8, <2>2, <2>3, <2>4 DEF FlushStarts
<1>9. ASSUME NEW u \in Tasks, NEW p, CleanAsync(u, p) \/ RebuildAsync(u, p) \/ ExecuteAsync(u)
      PROVE  FALSE
  <2>1. Accepts(u)
    BY <1>9 DEF CleanAsync, RebuildAsync, ExecuteAsync, Accepts, workVars
  <2> QED
    BY <1>2, <2>1
<1>10. ASSUME NEW u \in Tasks, NEW p, RequestPhase(u, p) \/ Cancel(u)
       PROVE  FALSE
  BY <1>2, <1>10 DEF RequestPhase, Cancel
<1>11. ASSUME NEW now, Reshape(now) \/ InvalidatePhase(now)
       PROVE  FALSE
  BY <1>2, <1>11 DEF Reshape, InvalidatePhase
<1>12. ASSUME FlushNothing \/ UNCHANGED vars
       PROVE  FALSE
  BY <1>2, <1>12 DEF FlushNothing, vars
<1> QED
  BY <1>3, <1>4, <1>5, <1>6, <1>7, <1>8, <1>9, <1>10, <1>11, <1>12
  DEF Next, Callback, DoFlush, Connect, Disconnect, Load, Unload

(* When a build or rebuild succeeds in a pipeline that was not reshaped,    *)
(* every enabled stage up to its phase has run or had not to, and is        *)
(* complete unless it, or one it is bound to, was invalidated meanwhile.    *)
THEOREM BuildsReachTheirPhase == Spec => BuildReachesPhase
<1>1. TypeOK /\ QueueInv /\ CallbackInv /\ OrderInv /\ BindInv /\ [Next]_vars
        => [\A t \in Tasks :
              Answered(t) /\ state'[t] = "ok" /\ Kind[t] # "clean" /\ ~reshaped' =>
                \A s \in connected \ Disabled : PhaseOf[s] <= phase[t] =>
                  \/ /\ ran'[s] = "now"
                     /\ completed'[s] \/ s \in Bound(bindings, stale, Stages)
                  \/ completed'[s] /\ ~HasQuery(s)]_vars
  BY BuildReaches DEF Reached
<1> QED
  BY <1>1, BindCorrect, OrderCorrect, TypeCorrect, QueueInvCorrect, CallbackInvCorrect, PTL
  DEF Spec, BuildReachesPhase

-----------------------------------------------------------------------------
(* Cleaning. *)

(* The plain stages a clean promises to reset. *)
Promised(t) == {s \in present[t] \ Launchers : PhaseOf[s] >= phase[t]}

(* While a clean waits, they are on its list; while it is worked on, each   *)
(* of them is either still to come or not complete.                         *)
CleanInv ==
  \A t \in Tasks : Kind[t] = "clean" =>
    /\ state[t] = "queued" => Promised(t) \subseteq toClean[t]
    /\ Running(t) => \A s \in Promised(t) : s \in toClean[t] \ {current} \/ ~completed[s]

(* What is worked on for u does not touch what is remembered for others. *)
Spares(u) ==
  /\ \E what : state' = [state EXCEPT ![u] = what]
  /\ \A t \in Tasks \ {u} : toClean'[t] = toClean[t] /\ present'[t] = present[t]

LEMMA TaskCompletedSpares ==
  ASSUME TypeOK, NEW u \in Tasks, NEW answer, NEW fail, NEW pending,
         TaskCompleted(u, answer, fail, pending)
  PROVE  Spares(u)
BY DEF TaskCompleted, TypeOK, Spares

LEMMA TickExecuteSpares ==
  ASSUME TypeOK, NEW u \in Tasks, NEW comp, NEW binds, NEW pos, NEW pending,
         TickExecute(u, comp, binds, pos, pending)
  PROVE  Spares(u)
<1> DEFINE goal == Later(requested, phase[u])
           todo == Remaining(goal, pos)
<1>1. CASE \E answer, end : WalkEnds(u, answer, comp, binds, end, pending)
  BY <1>1, TaskCompletedSpares DEF WalkEnds
<1>2. CASE StartStage(u, First(todo), ChainedTo(First(todo), todo), comp, binds, pending) /\ UNCHANGED toClean
  BY <1>2 DEF StartStage, TaskContinues, Spares
<1> QED
  BY <1>1, <1>2 DEF TickExecute

LEMMA StageExecutedSpares ==
  ASSUME TypeOK, NEW u \in Tasks, NEW comp, NEW ok \in BOOLEAN, StageExecuted(u, comp, ok)
  PROVE  Spares(u)
<1>1. CASE ok
  BY <1>1, TickExecuteSpares DEF StageExecuted
<1>2. CASE ~ok
  BY <1>2, TaskCompletedSpares DEF StageExecuted
<1> QED
  BY <1>1, <1>2

(* A step for the one task that is worked on, unless that is a clean which  *)
(* goes on.                                                                 *)
LEMMA SparingKeepsClean ==
  ASSUME TypeOK, CleanInv, NEW u \in Tasks, Spares(u), UNCHANGED phase,
         \A t \in Tasks : Running(t) => t = u,
         Kind[u] # "clean" \/ state'[u] \in Answers
  PROVE  CleanInv'
<1> SUFFICES ASSUME NEW t \in Tasks, Kind[t] = "clean", state'[t] \in {"queued", "running"}
             PROVE  state'[t] = "queued" /\ Promised(t)' \subseteq toClean'[t]
  BY DEF CleanInv, Running
<1>1. t # u
  BY DEF Answers
<1>2. state'[t] = state[t] /\ toClean'[t] = toClean[t] /\ present'[t] = present[t]
  BY <1>1 DEF Spares, TypeOK
<1>3. state[t] = "queued" /\ Promised(t)' = Promised(t)
  BY <1>1, <1>2 DEF Running, Promised
<1> QED
  BY <1>2, <1>3 DEF CleanInv

(* A step that leaves the tasks alone may reset stages. *)
LEMMA ElsewhereKeepsClean ==
  ASSUME CleanInv, UNCHANGED <<state, phase, toClean, present, current>>,
         \A s \in Stages : completed'[s] => completed[s], TypeOK
  PROVE  CleanInv'
BY DEF CleanInv, Promised, Running, TypeOK

LEMMA ResetClears ==
  ASSUME TypeOK, NEW S, NEW s \in Stages,
         SetCompleted(completed, bindings, S, FALSE)[s]
  PROVE  completed[s] /\ s \notin S
<1>1. completed \in [Stages -> BOOLEAN]
  BY DEF TypeOK
<1>2. s \in S => SetCompleted(completed, bindings, S, FALSE)[s] = FALSE
  BY <1>1, SetCompletedSets
<1>3. completed[s] = FALSE => SetCompleted(completed, bindings, S, FALSE)[s] = FALSE
  BY <1>1, SetCompletedSets
<1>4. completed[s] \in BOOLEAN
  BY <1>1
<1> QED
  BY <1>2, <1>3, <1>4

(* tick_clean: what was on the list is still to come, or reset now. *)
LEMMA TickCleanClears ==
  ASSUME TypeOK, NEW u \in Tasks, NEW left \in SUBSET Stages, NEW pending,
         TickClean(u, left, pending),
         NEW s \in Stages \ Launchers, s \in left \/ ~completed[s]
  PROVE  \/ left = {} /\ state'[u] \in Answers /\ ~completed'[s]
         \/ /\ state'[u] = "running" /\ UNCHANGED present
            /\ s \in toClean'[u] \ {current'} \/ ~completed'[s]
<1>1. CASE left = {}
  BY <1>1 DEF TickClean, TaskCompleted, TypeOK, Answers
<1>2. CASE left # {}
  <2>1. /\ state'[u] = "running" /\ UNCHANGED present /\ toClean'[u] = left
        /\ current' = Last(left)
        /\ completed' = IF Last(left) \in Launchers THEN completed
                        ELSE SetCompleted(completed, bindings, {Last(left)}, FALSE)
    BY <1>2 DEF TickClean, TaskContinues, TypeOK
  <2>2. ASSUME completed'[s]
        PROVE  completed[s] /\ s # Last(left)
    BY <2>1, <2>2, ResetClears
  <2> QED
    BY <2>1, <2>2
<1> QED
  BY <1>1, <1>2

LEMMA TickCleanKeepsClean ==
  ASSUME TypeOK, CleanInv, NEW u \in Tasks, Kind[u] = "clean", UNCHANGED phase,
         \A t \in Tasks : Running(t) => t = u,
         NEW left \in SUBSET Stages, NEW pending, TickClean(u, left, pending),
         \A s \in Promised(u) : s \in left \/ ~completed[s]
  PROVE  CleanInv'
<1>1. CASE left = {}
  <2>1. Spares(u)
    BY <1>1, TaskCompletedSpares DEF TickClean
  <2>2. state'[u] \in Answers
    BY <1>1 DEF TickClean, TaskCompleted, TypeOK, Answers
  <2> QED
    BY <2>1, <2>2, SparingKeepsClean
<1>2. CASE left # {}
  <2>1. /\ state' = [state EXCEPT ![u] = "running"] /\ UNCHANGED present
        /\ toClean' = [toClean EXCEPT ![u] = left]
    BY <1>2 DEF TickClean, TaskContinues
  <2>2. ASSUME NEW t \in Tasks, Kind[t] = "clean", state'[t] = "queued"
        PROVE  Promised(t)' \subseteq toClean'[t]
    <3>1. t # u /\ state[t] = "queued" /\ toClean'[t] = toClean[t]
      BY <2>1, <2>2 DEF TypeOK
    <3> QED
      BY <2>1, <2>2, <3>1 DEF CleanInv, Promised
  <2>3. ASSUME NEW t \in Tasks, Running(t)', NEW s \in Promised(t)'
        PROVE  s \in toClean'[t] \ {current'} \/ ~completed'[s]
    <3>1. t = u
      BY <2>1, <2>3 DEF TypeOK, Running
    <3>2. s \in Promised(u) /\ s \in Stages \ Launchers
      BY <2>1, <2>3, <3>1 DEF TypeOK, Promised
    <3> QED
      BY <1>2, <3>1, <3>2, TickCleanClears
  <2> QED
    BY <2>2, <2>3 DEF CleanInv
<1> QED
  BY <1>1, <1>2

(* A task that is accepted: a clean has just made its list. *)
LEMMA AcceptedKeepsClean ==
  ASSUME TypeOK, CleanInv, NEW u \in Tasks, Accepts(u),
         UNCHANGED <<completed, current>>,
         Kind[u] = "clean" => Promised(u)' \subseteq toClean'[u],
         \A t \in Tasks \ {u} : /\ phase'[t] = phase[t] /\ toClean'[t] = toClean[t]
                                /\ present'[t] = present[t]
  PROVE  CleanInv'
<1>1. PICK what \in {"queued", "ok", "error"} : state' = [state EXCEPT ![u] = what]
  BY DEF Accepts, Enqueue, AnswerAtOnce
<1>2. state'[u] # "running" /\ \A t \in Tasks \ {u} : state'[t] = state[t]
  BY <1>1 DEF TypeOK
<1>3. \A t \in Tasks \ {u} : Promised(t)' = Promised(t)
  BY DEF Promised
<1> QED
  BY <1>2, <1>3 DEF CleanInv, Running

LEMMA CleanNext ==
  TypeOK /\ QueueInv /\ CallbackInv /\ CleanInv /\ [Next]_vars => CleanInv'
<1> SUFFICES ASSUME TypeOK, QueueInv, CallbackInv, CleanInv, [Next]_vars PROVE CleanInv'
  OBVIOUS
<1>0. /\ \A t \in Tasks : Running(t) => (\A u \in Tasks : Running(u) => u = t) /\ busy
      /\ toClean \in [Tasks -> SUBSET Stages]
  BY DEF QueueInv, SingleFlight, TypeOK
<1> USE DEF arrayVars, stageVars, workVars, taskVars, ghostVars
<1>1. ASSUME NEW t \in Tasks, NEW p, RequestPhase(t, p)
      PROVE  CleanInv'
  BY <1>1, ElsewhereKeepsClean DEF RequestPhase
<1>2. ASSUME NEW t \in Tasks, Cancel(t)
      PROVE  CleanInv'
  BY <1>2, ElsewhereKeepsClean DEF Cancel
<1>3. ASSUME NEW t \in Tasks, NEW p, CleanAsync(t, p)
      PROVE  CleanInv'
  <2>1. Accepts(t) /\ UNCHANGED <<completed, current>>
    BY <1>3 DEF CleanAsync, Accepts
  <2>2. /\ toClean' = [toClean EXCEPT ![t] = Affected(p)]
        /\ phase' = [phase EXCEPT ![t] = p]
        /\ present' = [present EXCEPT ![t] = connected]
    BY <1>3 DEF CleanAsync
  <2>3. toClean'[t] = Affected(p) /\ phase'[t] = p /\ present'[t] = connected
    BY <2>2 DEF TypeOK
  <2>4. Promised(t)' \subseteq toClean'[t]
    BY <2>3 DEF Promised, Affected
  <2>5. \A u \in Tasks \ {t} : /\ phase'[u] = phase[u] /\ toClean'[u] = toClean[u]
                               /\ present'[u] = present[u]
    BY <2>2 DEF TypeOK
  <2> QED
    BY <2>1, <2>4, <2>5, AcceptedKeepsClean
<1>4. ASSUME NEW t \in Tasks, NEW p, RebuildAsync(t, p) \/ ExecuteAsync(t)
      PROVE  CleanInv'
  <2>1. Accepts(t) /\ UNCHANGED <<completed, current, toClean, present>> /\ Kind[t] # "clean"
    BY <1>4 DEF RebuildAsync, ExecuteAsync, Accepts
  <2>2. \A u \in Tasks \ {t} : phase'[u] = phase[u]
    BY <1>4 DEF RebuildAsync, ExecuteAsync, TypeOK
  <2> QED
    BY <2>1, <2>2, AcceptedKeepsClean
<1>5. ASSUME NEW t \in Tasks, Unpause(t)
      PROVE  CleanInv'
  <2>1. Running(t) /\ activity = "paused" /\ UNCHANGED phase
    BY <1>5 DEF Unpause
  <2>2. Kind[t] # "clean"
    BY <2>1 DEF CallbackInv, CallbackFindsItsTask
  <2>3. Spares(t)
    <3>1. CASE \E comp : StageExecuted(t, comp, t \notin cancelled)
      <4>1. (t \notin cancelled) \in BOOLEAN
        OBVIOUS
      <4> QED
        BY <3>1, <4>1, StageExecutedSpares
    <3>2. CASE TaskContinues(t, "executing", flushes) /\ UNCHANGED toClean
      BY <3>2 DEF TaskContinues, Spares
    <3> QED
      BY <1>5, <3>1, <3>2, Zenon DEF Unpause
  <2> QED
    BY <1>0, <2>1, <2>2, <2>3, SparingKeepsClean
<1>6. ASSUME NEW t \in Tasks, StageReturns(t)
      PROVE  CleanInv'
  <2>1. Running(t) /\ activity \in {"executing", "answered"} /\ UNCHANGED phase
    BY <1>6 DEF StageReturns
  <2>2. Kind[t] # "clean"
    BY <2>1 DEF CallbackInv, CallbackFindsItsTask
  <2>3. Spares(t)
    BY <1>6, StageExecutedSpares DEF StageReturns
  <2> QED
    BY <1>0, <2>1, <2>2, <2>3, SparingKeepsClean
<1>7. ASSUME NEW t \in Tasks, CleanReturns(t)
      PROVE  CleanInv'
  <2>1. Running(t) /\ Kind[t] = "clean" /\ UNCHANGED phase
    BY <1>7 DEF CleanReturns, CallbackInv, CallbackFindsItsTask
  <2>2. CASE TaskCompleted(t, "error", FALSE, flushes)
    <3>1. state'[t] \in Answers
      BY <2>2 DEF TaskCompleted, TypeOK, Answers
    <3> QED
      BY <1>0, <2>1, <2>2, <3>1, TaskCompletedSpares, SparingKeepsClean
  <2>3. CASE TickClean(t, toClean[t] \ {current}, flushes)
    <3>1. \A s \in Promised(t) : s \in toClean[t] \ {current} \/ ~completed[s]
      BY <2>1 DEF CleanInv
    <3>2. toClean[t] \ {current} \in SUBSET Stages
      BY <1>0
    <3> QED
      BY <1>0, <2>1, <2>3, <3>1, <3>2, TickCleanKeepsClean
  <2> QED
    BY <1>7, <2>2, <2>3 DEF CleanReturns
<1>8. ASSUME NEW t \in Tasks, ReapReturns(t)
      PROVE  CleanInv'
  <2>1. Running(t) /\ Kind[t] # "clean" /\ UNCHANGED phase
    BY <1>8 DEF ReapReturns, CallbackInv, CallbackFindsItsTask
  <2>2. Spares(t)
    BY <1>8, TaskCompletedSpares, TickExecuteSpares DEF ReapReturns
  <2> QED
    BY <1>0, <2>1, <2>2, SparingKeepsClean
<1>9. ASSUME NEW ps, InvalidatePhase(ps)
      PROVE  CleanInv'
  <2>1. \A s \in Stages : completed'[s] => completed[s]
    BY <1>9, ResetClears DEF InvalidatePhase
  <2> QED
    BY <1>9, <2>1, ElsewhereKeepsClean DEF InvalidatePhase
<1>10. ASSUME NEW now, Reshape(now)
       PROVE  CleanInv'
  BY <1>10, ElsewhereKeepsClean DEF Reshape
<1>11. ASSUME FlushNothing
       PROVE  CleanInv'
  BY <1>11, ElsewhereKeepsClean DEF FlushNothing
<1>12. ASSUME FlushFails
       PROVE  CleanInv'
  <2>1. \A t \in Tasks : state'[t] # "queued" /\ ~Running(t)'
    <3>1. \A t \in Tasks : ~Running(t)
      BY <1>0, <1>12 DEF FlushFails
    <3> QED
      BY <1>12, <3>1 DEF FlushFails, Running
  <2> QED
    BY <2>1 DEF CleanInv
<1>13. ASSUME FlushStarts
       PROVE  CleanInv'
  <2> DEFINE u == Head(queue)
  <2>1. /\ u \in Tasks /\ state[u] = "queued" /\ UNCHANGED phase
        /\ \A t \in Tasks : Running(t) => t = u
    BY <1>0, <1>13, HeadOfQueue DEF FlushStarts, QueueInv
  <2>2. CASE Kind[u] = "build" /\ TickExecute(u, completed, bindings, -1, flushes - 1)
    BY <2>1, <2>2, TickExecuteSpares, SparingKeepsClean
  <2>3. CASE Kind[u] = "clean" /\ TickClean(u, toClean[u], flushes - 1)
    <3>1. \A s \in Promised(u) : s \in toClean[u]
      BY <2>1, <2>3 DEF CleanInv
    <3>2. toClean[u] \in SUBSET Stages
      BY <1>0, <2>1
    <3> QED
      BY <2>1, <2>3, <3>1, <3>2, TickCleanKeepsClean
  <2>4. CASE Kind[u] = "rebuild" /\ TickRebuild(u, flushes - 1)
    <3>1. Spares(u)
      BY <2>4 DEF TickRebuild, TaskContinues, Spares
    <3> QED
      BY <2>1, <2>4, <3>1, SparingKeepsClean
  <2> QED
    BY <1>13, <2>2, <2>3, <2>4 DEF FlushStarts
<1>14. CASE UNCHANGED vars
  BY <1>14, ElsewhereKeepsClean DEF vars
<1> QED
  BY <1>1, <1>2, <1>3, <1>4, <1>5, <1>6, <1>7, <1>8, <1>9, <1>10, <1>11, <1>12, <1>13, <1>14
  DEF Next, Callback, DoFlush, Connect, Disconnect, Load, Unload

LEMMA CleanCorrect == Spec => []CleanInv
<1>1. Init => CleanInv
  BY DEF Init, CleanInv, Running
<1> QED
  BY <1>1, CleanNext, TypeCorrect, QueueInvCorrect, CallbackInvCorrect, PTL DEF Spec

LEMMA CleanAnswers ==
  ASSUME TypeOK, QueueInv, CallbackInv, CleanInv, [Next]_vars,
         NEW t \in Tasks, Answered(t), state'[t] = "ok", Kind[t] = "clean",
         NEW s \in present[t] \ Launchers, PhaseOf[s] >= phase[t]
  PROVE  ~completed'[s]
<1>0. /\ s \in Promised(t) /\ s \in Stages \ Launchers
      /\ toClean \in [Tasks -> SUBSET Stages]
      /\ state[t] \in {"queued", "running"} /\ state \in [Tasks -> {"new", "queued", "running", "ok", "error"}]
  BY DEF Promised, TypeOK, Answered
<1>1. ASSUME NEW u \in Tasks, Spares(u)
      PROVE  u = t
  BY <1>0, <1>1 DEF Spares
<1>2. ASSUME UNCHANGED state \/ (\E u \in Tasks : Accepts(u))
      PROVE  FALSE
  BY <1>0, <1>2 DEF Accepts, Enqueue, AnswerAtOnce
<1> USE DEF arrayVars, stageVars, workVars, taskVars, ghostVars
<1>3. ASSUME NEW u \in Tasks, Unpause(u) \/ StageReturns(u)
      PROVE  FALSE
  <2>1. \E comp : \E ok \in BOOLEAN : StageExecuted(u, comp, ok)
    <3>1. CASE \E comp : StageExecuted(u, comp, u \notin cancelled)
      <4>1. (u \notin cancelled) \in BOOLEAN
        OBVIOUS
      <4> QED
        BY <3>1, <4>1
    <3>2. CASE TaskContinues(u, "executing", flushes) /\ UNCHANGED toClean
      <4>1. Spares(u) /\ state'[u] = "running"
        BY <3>2 DEF TaskContinues, Spares, TypeOK
      <4> QED
        BY <1>1, <4>1
    <3>3. CASE StageReturns(u)
      BY <3>3 DEF StageReturns
    <3> QED
      BY <1>3, <3>1, <3>2, <3>3, Zenon DEF Unpause
  <2>2. u = t
    BY <1>1, <2>1, StageExecutedSpares
  <2>3. Running(u) /\ activity \in {"paused", "executing", "answered"}
    BY <1>3 DEF Unpause, StageReturns
  <2> QED
    BY <2>2, <2>3 DEF CallbackInv, CallbackFindsItsTask
<1>4. ASSUME NEW u \in Tasks, CleanReturns(u)
      PROVE  ~completed'[s]
  <2>1. CASE TaskCompleted(u, "error", FALSE, flushes)
    <3>1. u = t
      BY <1>1, <2>1, TaskCompletedSpares
    <3>2. state'[u] = "error"
      BY <1>0, <2>1 DEF TaskCompleted
    <3> QED
      BY <3>1, <3>2
  <2>2. CASE TickClean(u, toClean[u] \ {current}, flushes)
    <3>1. u = t
      <4>1. \E what : state' = [state EXCEPT ![u] = what]
        BY <2>2 DEF TickClean, TaskCompleted, TaskContinues
      <4> QED
        BY <1>0, <4>1
    <3>2. s \in toClean[t] \ {current} \/ ~completed[s]
      BY <1>0, <1>4, <3>1 DEF CleanReturns, CleanInv
    <3>3. toClean[t] \ {current} \in SUBSET Stages
      BY <1>0
    <3> QED
      BY <1>0, <2>2, <3>1, <3>2, <3>3, TickCleanClears
  <2> QED
    BY <1>4, <2>1, <2>2 DEF CleanReturns
<1>5. ASSUME NEW u \in Tasks, ReapReturns(u)
      PROVE  FALSE
  <2>1. u = t
    BY <1>1, <1>5, TaskCompletedSpares, TickExecuteSpares DEF ReapReturns
  <2> QED
    BY <1>5, <2>1 DEF ReapReturns, CallbackInv, CallbackFindsItsTask
<1>6. ASSUME FlushFails
      PROVE  FALSE
  BY <1>0, <1>6 DEF FlushFails
<1>7. ASSUME FlushStarts
      PROVE  ~completed'[s]
  <2> DEFINE u == Head(queue)
  <2>1. u \in Tasks /\ state[u] = "queued"
    BY <1>7, HeadOfQueue DEF FlushStarts, QueueInv
  <2>2. CASE Kind[u] = "build" /\ TickExecute(u, completed, bindings, -1, flushes - 1)
    BY <1>1, <2>1, <2>2, TickExecuteSpares
  <2>3. CASE Kind[u] = "clean" /\ TickClean(u, toClean[u], flushes - 1)
    <3>1. u = t
      <4>1. \E what : state' = [state EXCEPT ![u] = what]
        BY <2>3 DEF TickClean, TaskCompleted, TaskContinues
      <4> QED
        BY <1>0, <4>1
    <3>2. s \in toClean[t]
      BY <1>0, <2>1, <3>1 DEF CleanInv
    <3> QED
      BY <1>0, <2>3, <3>1, <3>2, TickCleanClears
  <2>4. CASE TickRebuild(u, flushes - 1)
    BY <1>0, <2>4 DEF TickRebuild, TaskContinues
  <2> QED
    BY <1>7, <2>2, <2>3, <2>4 DEF FlushStarts
<1>8. ASSUME NEW u \in Tasks, NEW p, CleanAsync(u, p) \/ RebuildAsync(u, p) \/ ExecuteAsync(u)
      PROVE  FALSE
  <2>1. Accepts(u)
    BY <1>8 DEF CleanAsync, RebuildAsync, ExecuteAsync, Accepts
  <2> QED
    BY <1>2, <2>1
<1>9. ASSUME NEW u \in Tasks, NEW p, RequestPhase(u, p) \/ Cancel(u)
      PROVE  FALSE
  BY <1>2, <1>9 DEF RequestPhase, Cancel
<1>10. ASSUME NEW now, Reshape(now) \/ InvalidatePhase(now)
       PROVE  FALSE
  BY <1>2, <1>10 DEF Reshape, InvalidatePhase
<1>11. ASSUME FlushNothing \/ UNCHANGED vars
       PROVE  FALSE
  BY <1>2, <1>11 DEF FlushNothing, vars
<1> QED
  BY <1>3, <1>4, <1>5, <1>6, <1>7, <1>8, <1>9, <1>10, <1>11
  DEF Next, Callback, DoFlush, Connect, Disconnect, Load, Unload

(* When a clean that was worked on succeeds, no plain stage of its phase or *)
(* of a later one that was connected when it was requested is complete,     *)
(* whatever was connected, invalidated or built between request and turn.   *)
THEOREM CleanedStagesRunAgain == Spec => CleanedMustRunAgain
<1>1. TypeOK /\ QueueInv /\ CallbackInv /\ CleanInv /\ [Next]_vars
        => [\A t \in Tasks :
              Answered(t) /\ state'[t] = "ok" /\ Kind[t] = "clean" =>
                \A s \in present[t] \ Launchers : PhaseOf[s] >= phase[t] => ~completed'[s]]_vars
  BY CleanAnswers
<1> QED
  BY <1>1, CleanCorrect, TypeCorrect, QueueInvCorrect, CallbackInvCorrect, PTL
  DEF Spec, CleanedMustRunAgain
-----------------------------------------------------------------------------
(* What is taken up comes to an end. *)

(* The walk stays inside the array, also of a pipeline that was reshaped.   *)
WalkInv == Walking => position \in 0..(Cardinality(Stages) - 1)

(* The task is answered, or fewer of its callbacks are to come: the walk is *)
(* further on, the stage that was paused executes, one stage less is to be  *)
(* cleaned, or the reaper has made way for the walk.                        *)
Nearer(t) ==
  \/ state'[t] \in Answers /\ activity' = "idle"
  \/ /\ Running(t)'
     /\ \/ /\ Walking \/ activity = "reaping"
           /\ Walking' /\ position' \in 0..(Cardinality(Stages) - 1)
           /\ Walking => position' > position
        \/ activity = "paused" /\ activity' = "executing" /\ position' = position
        \/ /\ activity = "cleaning" /\ activity' = "cleaning"
           /\ current \in toClean[t] /\ toClean'[t] = toClean[t] \ {current}

LEMMA IndexBelow ==
  ASSUME TypeOK, NEW s \in Stages
  PROVE  IndexOf(s) \in 0..(Cardinality(Stages) - 1) /\ Cardinality(Stages) \in Nat
<1>1. IsFiniteSet(Stages) /\ connected \subseteq Stages
  BY StagesAssumption DEF TypeOK
<1>2. {x \in connected : Before(x, s)} \subseteq Stages \ {s}
  BY <1>1, BeforeIsAsymmetric
<1>3. /\ IsFiniteSet(Stages \ {s}) /\ Cardinality(Stages \ {s}) = Cardinality(Stages) - 1
  BY <1>1, FS_RemoveElement
<1>4. IndexOf(s) <= Cardinality(Stages \ {s})
  BY <1>2, <1>3, FS_Subset DEF IndexOf
<1> QED
  BY <1>1, <1>3, <1>4, IndexOfType, FS_CardinalityType

LEMMA TickExecuteAdvances ==
  ASSUME TypeOK, NEW t \in Tasks, NEW comp, NEW binds, NEW pos \in Int, NEW pending,
         TickExecute(t, comp, binds, pos, pending)
  PROVE  \/ state'[t] \in Answers /\ activity' = "idle"
         \/ /\ Running(t)' /\ Walking'
            /\ position' \in 0..(Cardinality(Stages) - 1) /\ position' > pos
<1>0. state \in [Tasks -> {"new", "queued", "running", "ok", "error"}] /\ connected \subseteq Stages
  BY DEF TypeOK
<1> DEFINE goal == Later(requested, phase[t])
           todo == Remaining(goal, pos)
           h    == First(todo)
           rest == ChainedTo(h, todo)
<1>1. ASSUME NEW answer \in Answers, NEW p, WalkEnds(t, answer, comp, binds, p, pending)
      PROVE  state'[t] \in Answers /\ activity' = "idle"
  BY <1>0, <1>1 DEF WalkEnds, TaskCompleted
<1>2. ASSUME todo # {}, StartStage(t, h, rest, comp, binds, pending)
      PROVE  /\ Running(t)' /\ Walking'
             /\ position' \in 0..(Cardinality(Stages) - 1) /\ position' > pos
  <2>1. /\ todo \subseteq connected /\ todo \subseteq Stages
        /\ \A s \in todo : IndexOf(s) > pos
    BY <1>0 DEF Remaining
  <2>2. h \in todo
    BY <1>2, <2>1, FirstExists
  <2>3. rest \subseteq todo
    BY <2>1, <2>2, ChainFollows
  <2>4. position' = IndexOf(Last({h} \cup rest))
    BY <1>2 DEF StartStage, PositionAfter
  <2>5. Last({h} \cup rest) \in todo
    <3>1. {h} \cup rest \in SUBSET Stages /\ {h} \cup rest # {}
      BY <2>1, <2>2, <2>3
    <3> QED
      BY <2>2, <2>3, <3>1, LastExists
  <2>6. position' \in 0..(Cardinality(Stages) - 1) /\ position' > pos
    BY <2>1, <2>4, <2>5, IndexBelow
  <2>7. \E q : TaskContinues(t, WaitsFor(q, completed'[h]), pending)
    BY <1>2 DEF StartStage
  <2>8. \A q, done : WaitsFor(q, done) \in {"paused", "executing", "answered"}
    BY DEF WaitsFor
  <2>9. Running(t)' /\ Walking'
    BY <1>0, <2>7, <2>8 DEF TaskContinues, Running, Walking
  <2> QED
    BY <2>6, <2>9
<1>3. "ok" \in Answers /\ "error" \in Answers
  BY DEF Answers
<1> QED
  BY <1>1, <1>2, <1>3 DEF TickExecute

LEMMA StageExecutedAdvances ==
  ASSUME TypeOK, NEW t \in Tasks, NEW comp, NEW ok \in BOOLEAN, StageExecuted(t, comp, ok), Walking
  PROVE  Nearer(t)
<1>1. state \in [Tasks -> {"new", "queued", "running", "ok", "error"}] /\ position \in Int
  BY DEF TypeOK
<1>2. CASE TaskCompleted(t, "error", TRUE, flushes)
  BY <1>1, <1>2 DEF TaskCompleted, Nearer, Answers
<1>3. CASE \E after, binds : TickExecute(t, after, binds, position, flushes)
  BY <1>1, <1>3, TickExecuteAdvances DEF Nearer
<1> QED
  BY <1>2, <1>3 DEF StageExecuted

(* Every callback of a task brings it nearer to its answer.                 *)
LEMMA CallbackAdvances ==
  ASSUME TypeOK, QueueInv, CallbackInv, NEW t \in Tasks, Callback(t)
  PROVE  Nearer(t)
<1>0. /\ state \in [Tasks -> {"new", "queued", "running", "ok", "error"}] /\ position \in Int
      /\ toClean \in [Tasks -> SUBSET Stages]
  BY DEF TypeOK
<1>1. ASSUME NEW answer \in Answers, NEW fail, TaskCompleted(t, answer, fail, flushes)
      PROVE  Nearer(t)
  BY <1>0, <1>1 DEF TaskCompleted, Nearer
<1>2. "ok" \in Answers /\ "error" \in Answers
  BY DEF Answers
<1>3. CASE Unpause(t)
  <2>1. activity = "paused" /\ Walking
    BY <1>3 DEF Unpause, Walking
  <2>2. CASE \E comp : StageExecuted(t, comp, t \notin cancelled)
    <3>1. (t \notin cancelled) \in BOOLEAN
      OBVIOUS
    <3> QED
      BY <2>1, <2>2, <3>1, StageExecutedAdvances
  <2>3. CASE TaskContinues(t, "executing", flushes) /\ UNCHANGED position
    BY <1>0, <2>1, <2>3 DEF TaskContinues, Nearer, Running
  <2> QED
    BY <1>3, <2>2, <2>3, Zenon DEF Unpause
<1>4. CASE StageReturns(t)
  <2>1. Walking
    BY <1>4 DEF StageReturns, Walking
  <2>2. \E ok \in BOOLEAN : StageExecuted(t, completed, ok)
    BY <1>4 DEF StageReturns
  <2> QED
    BY <2>1, <2>2, StageExecutedAdvances
<1>5. CASE CleanReturns(t)
  <2>1. activity = "cleaning" /\ current = Last(toClean[t]) /\ toClean[t] # {}
    BY <1>5 DEF CleanReturns, CallbackInv, CallbackFindsItsTask
  <2>2. current \in toClean[t]
    BY <1>0, <2>1, LastExists
  <2>3. CASE TickClean(t, toClean[t] \ {current}, flushes)
    <3>1. CASE TaskCompleted(t, IF t \in cancelled THEN "error" ELSE "ok", FALSE, flushes)
      BY <1>1, <1>2, <3>1
    <3>2. CASE /\ toClean' = [toClean EXCEPT ![t] = toClean[t] \ {current}]
               /\ TaskContinues(t, "cleaning", flushes)
      BY <1>0, <2>1, <2>2, <3>2 DEF TaskContinues, Nearer, Running
    <3> QED
      BY <2>3, <3>1, <3>2 DEF TickClean
  <2> QED
    BY <1>1, <1>2, <1>5, <2>3 DEF CleanReturns
<1>6. CASE ReapReturns(t)
  <2>1. activity = "reaping" /\ ~Walking
    BY <1>6 DEF ReapReturns, Walking
  <2>2. CASE TickExecute(t, completed, bindings, position, flushes)
    BY <1>0, <2>1, <2>2, TickExecuteAdvances DEF Nearer
  <2> QED
    BY <1>1, <1>2, <1>6, <2>2 DEF ReapReturns
<1> QED
  BY <1>3, <1>4, <1>5, <1>6 DEF Callback

(* A task that is worked on is not touched by what is not its callback.     *)
LEMMA OthersLeaveIt ==
  ASSUME TypeOK, QueueInv, [Next]_vars, NEW t \in Tasks, Running(t), ~Callback(t)
  PROVE  Running(t)' /\ UNCHANGED <<activity, position>> /\ toClean'[t] = toClean[t]
<1>0. /\ state \in [Tasks -> {"new", "queued", "running", "ok", "error"}]
      /\ toClean \in [Tasks -> SUBSET Stages]
      /\ busy /\ \A u \in Tasks : Running(u) => u = t
  BY DEF TypeOK, QueueInv, SingleFlight
<1> USE DEF arrayVars, stageVars, workVars, taskVars, ghostVars, Running
<1>1. ASSUME NEW u \in Tasks, Callback(u)
      PROVE  FALSE
  <2>1. Running(u)
    BY <1>1 DEF Callback, Unpause, StageReturns, CleanReturns, ReapReturns
  <2> QED
    BY <1>0, <1>1, <2>1
<1>2. ASSUME FlushFails \/ FlushStarts
      PROVE  FALSE
  BY <1>0, <1>2 DEF FlushFails, FlushStarts
<1>3. ASSUME NEW u \in Tasks, NEW p, CleanAsync(u, p) \/ RebuildAsync(u, p) \/ ExecuteAsync(u)
      PROVE  Running(t)' /\ UNCHANGED <<activity, position>> /\ toClean'[t] = toClean[t]
  <2>1. u # t
    BY <1>3 DEF CleanAsync, RebuildAsync, ExecuteAsync
  <2> QED
    BY <1>0, <1>3, <2>1 DEF CleanAsync, RebuildAsync, ExecuteAsync, Enqueue, AnswerAtOnce
<1>4. ASSUME NEW u \in Tasks, NEW p, RequestPhase(u, p) \/ Cancel(u)
      PROVE  Running(t)' /\ UNCHANGED <<activity, position>> /\ toClean'[t] = toClean[t]
  BY <1>4 DEF RequestPhase, Cancel
<1>5. ASSUME NEW now, Reshape(now) \/ InvalidatePhase(now)
      PROVE  Running(t)' /\ UNCHANGED <<activity, position>> /\ toClean'[t] = toClean[t]
  BY <1>5 DEF Reshape, InvalidatePhase
<1>6. ASSUME FlushNothing \/ UNCHANGED vars
      PROVE  Running(t)' /\ UNCHANGED <<activity, position>> /\ toClean'[t] = toClean[t]
  BY <1>6 DEF FlushNothing, vars
<1> QED
  BY <1>1, <1>2, <1>3, <1>4, <1>5, <1>6
  DEF Next, DoFlush, Connect, Disconnect, Load, Unload

LEMMA WalkInvNext == TypeOK /\ QueueInv /\ CallbackInv /\ WalkInv /\ [Next]_vars => WalkInv'
<1> SUFFICES ASSUME TypeOK, QueueInv, CallbackInv, WalkInv, [Next]_vars
             PROVE  WalkInv'
  OBVIOUS
<1>1. CASE \E t \in Tasks : Callback(t)
  <2>1. PICK t \in Tasks : Nearer(t)
    BY <1>1, CallbackAdvances
  <2>2. CASE activity = "paused" /\ position' = position
    BY <2>2 DEF WalkInv, Walking
  <2>3. CASE activity' \in {"idle", "cleaning"}
    BY <2>3 DEF WalkInv, Walking
  <2> QED
    BY <2>1, <2>2, <2>3 DEF Nearer, WalkInv
<1>2. CASE FlushStarts
  <2>1. Head(queue) \in Tasks
    BY <1>2, HeadOfQueue DEF FlushStarts, QueueInv
  <2>2. CASE TickExecute(Head(queue), completed, bindings, -1, flushes - 1)
    BY <2>1, <2>2, TickExecuteAdvances DEF WalkInv, Walking
  <2>3. CASE TickClean(Head(queue), toClean[Head(queue)], flushes - 1)
    BY <2>3 DEF TickClean, TaskCompleted, TaskContinues, WalkInv, Walking
  <2>4. CASE TickRebuild(Head(queue), flushes - 1)
    BY <2>4 DEF TickRebuild, TaskContinues, WalkInv, Walking
  <2> QED
    BY <1>2, <2>2, <2>3, <2>4 DEF FlushStarts
<1>3. ASSUME UNCHANGED <<activity, position>>
      PROVE  WalkInv'
  BY <1>3 DEF WalkInv, Walking
<1> USE DEF arrayVars, stageVars, workVars, taskVars, ghostVars
<1>4. ASSUME NEW t \in Tasks, NEW p, CleanAsync(t, p) \/ RebuildAsync(t, p) \/ ExecuteAsync(t)
      PROVE  UNCHANGED <<activity, position>>
  BY <1>4 DEF CleanAsync, RebuildAsync, ExecuteAsync
<1>5. ASSUME NEW t \in Tasks, NEW p, RequestPhase(t, p) \/ Cancel(t)
      PROVE  UNCHANGED <<activity, position>>
  BY <1>5 DEF RequestPhase, Cancel
<1>6. ASSUME NEW now, Reshape(now) \/ InvalidatePhase(now)
      PROVE  UNCHANGED <<activity, position>>
  BY <1>6 DEF Reshape, InvalidatePhase
<1>7. ASSUME FlushNothing \/ FlushFails \/ UNCHANGED vars
      PROVE  UNCHANGED <<activity, position>>
  BY <1>7 DEF FlushNothing, FlushFails, vars
<1> QED
  BY <1>1, <1>2, <1>3, <1>4, <1>5, <1>6, <1>7
  DEF Next, DoFlush, Connect, Disconnect, Load, Unload

LEMMA WalkInvCorrect == Spec => []WalkInv
<1>1. Init => WalkInv
  BY DEF Init, WalkInv, Walking
<1> QED
  BY <1>1, WalkInvNext, TypeCorrect, QueueInvCorrect, CallbackInvCorrect, PTL DEF Spec

(* How many callbacks may still come before the task is answered.           *)
CallbacksLeft(t) ==
  CASE Walking               -> 2 * (Cardinality(Stages) - position)
                                + (IF activity = "paused" THEN 1 ELSE 0)
    [] activity = "reaping"  -> 2 * Cardinality(Stages) + 2
    [] activity = "cleaning" -> Cardinality(toClean[t])
    [] OTHER                 -> 0

LEMMA LeftIsFinite ==
  ASSUME TypeOK, WalkInv, NEW t \in Tasks
  PROVE  CallbacksLeft(t) \in Nat
<1>1. Cardinality(Stages) \in Nat
  BY StagesAssumption, FS_CardinalityType
<1>2. Cardinality(toClean[t]) \in Nat
  <2>1. toClean[t] \subseteq Stages
    BY DEF TypeOK
  <2> QED
    BY <2>1, StagesAssumption, FS_Subset, FS_CardinalityType
<1>3. CASE Walking
  BY <1>1, <1>3 DEF CallbacksLeft, WalkInv, Walking
<1>4. CASE ~Walking
  BY <1>1, <1>2, <1>4 DEF CallbacksLeft, Walking
<1> QED
  BY <1>3, <1>4

LEMMA NearerIsLess ==
  ASSUME TypeOK, WalkInv, NEW t \in Tasks, Nearer(t)
  PROVE  \/ state'[t] \in Answers
         \/ Running(t)' /\ CallbacksLeft(t)' < CallbacksLeft(t)
<1>1. Cardinality(Stages) \in Nat /\ position \in Int
  BY StagesAssumption, FS_CardinalityType DEF TypeOK
<1>2. ASSUME Walking \/ activity = "reaping",
             Walking', position' \in 0..(Cardinality(Stages) - 1),
             Walking => position' > position
      PROVE  CallbacksLeft(t)' < CallbacksLeft(t)
  <2> DEFINE n == Cardinality(Stages)
             late == IF activity' = "paused" THEN 1 ELSE 0
  <2>1. CallbacksLeft(t)' = 2 * (n - position') + late
    BY <1>2 DEF CallbacksLeft, Walking
  <2>2. late \in {0, 1} /\ n \in Nat /\ position' \in 0..(n - 1)
    BY <1>1, <1>2
  <2>3. CASE Walking
    <3>1. /\ CallbacksLeft(t) = 2 * (n - position) + (IF activity = "paused" THEN 1 ELSE 0)
          /\ position' > position
      BY <1>2, <2>3 DEF CallbacksLeft, Walking
    <3>2. CallbacksLeft(t) >= 2 * (n - position)
      BY <1>1, <3>1
    <3> HIDE DEF n, late
    <3> QED
      BY <1>1, <2>1, <2>2, <3>1, <3>2 DEF n
  <2>4. CASE ~Walking /\ activity = "reaping"
    <3>1. CallbacksLeft(t) = 2 * n + 2
      BY <2>4 DEF CallbacksLeft, Walking
    <3> HIDE DEF late
    <3> QED
      BY <1>1, <2>1, <2>2, <3>1 DEF n
  <2> QED
    BY <1>2, <2>3, <2>4
<1>3. ASSUME activity = "paused", activity' = "executing", position' = position
      PROVE  CallbacksLeft(t)' < CallbacksLeft(t)
  <2>1. /\ CallbacksLeft(t) = 2 * (Cardinality(Stages) - position) + 1
        /\ CallbacksLeft(t)' = 2 * (Cardinality(Stages) - position) + 0
    BY <1>3 DEF CallbacksLeft, Walking
  <2> QED
    BY <1>1, <2>1
<1>4. ASSUME activity = "cleaning", activity' = "cleaning",
             current \in toClean[t], toClean'[t] = toClean[t] \ {current}
      PROVE  CallbacksLeft(t)' < CallbacksLeft(t)
  <2>1. toClean[t] \subseteq Stages
    BY DEF TypeOK
  <2>2. IsFiniteSet(toClean[t])
    BY <2>1, StagesAssumption, FS_Subset
  <2>3. /\ Cardinality(toClean[t] \ {current}) = Cardinality(toClean[t]) - 1
        /\ Cardinality(toClean[t]) \in Nat
    BY <1>4, <2>2, FS_RemoveElement, FS_CardinalityType
  <2>4. /\ CallbacksLeft(t) = Cardinality(toClean[t])
        /\ CallbacksLeft(t)' = Cardinality(toClean[t] \ {current})
    BY <1>4 DEF CallbacksLeft, Walking
  <2> QED
    BY <2>3, <2>4
<1> QED
  BY <1>2, <1>3, <1>4 DEF Nearer

(* A task that is worked on waits for one of its callbacks, and there is a  *)
(* bound on how many are still to come: each one answers it or lowers the   *)
(* bound, whether stages fail, pause or are invalidated; and nothing else,  *)
(* a reshaped pipeline included, raises it.                                 *)
THEOREM TasksGoOn ==
  /\ Spec => [](\A t \in Tasks : Running(t) => activity # "idle" /\ CallbacksLeft(t) \in Nat)
  /\ Spec => [][\A t \in Tasks : Callback(t) =>
                   \/ state'[t] \in Answers
                   \/ Running(t)' /\ CallbacksLeft(t)' < CallbacksLeft(t)]_vars
  /\ Spec => [][\A t \in Tasks : Running(t) =>
                   \/ Callback(t)
                   \/ Running(t)' /\ CallbacksLeft(t)' = CallbacksLeft(t)]_vars
<1>1. TypeOK /\ QueueInv /\ WalkInv
        => \A t \in Tasks : Running(t) => activity # "idle" /\ CallbacksLeft(t) \in Nat
  BY LeftIsFinite DEF QueueInv, SingleFlight
<1>2. TypeOK /\ QueueInv /\ CallbackInv /\ WalkInv /\ [Next]_vars
        => [\A t \in Tasks : Callback(t) =>
              \/ state'[t] \in Answers
              \/ Running(t)' /\ CallbacksLeft(t)' < CallbacksLeft(t)]_vars
  BY CallbackAdvances, NearerIsLess
<1>3. TypeOK /\ QueueInv /\ [Next]_vars
        => [\A t \in Tasks : Running(t) =>
              \/ Callback(t)
              \/ Running(t)' /\ CallbacksLeft(t)' = CallbacksLeft(t)]_vars
  <2> SUFFICES ASSUME TypeOK, QueueInv, [Next]_vars, NEW t \in Tasks, Running(t), ~Callback(t)
               PROVE  Running(t)' /\ CallbacksLeft(t)' = CallbacksLeft(t)
    OBVIOUS
  <2>1. Running(t)' /\ UNCHANGED <<activity, position>> /\ toClean'[t] = toClean[t]
    BY OthersLeaveIt
  <2> QED
    BY <2>1 DEF CallbacksLeft, Walking
<1> QED
  BY <1>1, <1>2, <1>3, WalkInvCorrect, TypeCorrect, QueueInvCorrect, CallbackInvCorrect, PTL DEF Spec
=============================================================================
