-------------------------- MODULE Services_proofs --------------------------
(***************************************************************************)
(* Theorems about SubprocessSupervisor, Workers, RunManager and            *)
(* LanguageClient, for any number of subprocesses, restarts, plugins,      *)
(* requests, run handlers, documents and edits.                            *)
(***************************************************************************)
EXTENDS SubprocessSupervisor, Workers, RunManager, LanguageClient, TLAPS

-----------------------------------------------------------------------------
(* SubprocessSupervisor: the inductive invariant. *)

(* A subprocess whose exit is to be reported has exited. *)
ReportedExited == alive \cap exited = {}

SupervisorInv == SupervisorTypeOK /\ ReportedExited /\ NoOrphan /\ UpWhileSupervised

LEMMA SupervisorInitInv == SupervisorInit => SupervisorInv
<1>1. 0 \in 0..MaxSpawns /\ 0 \in 0..MaxRestarts /\ 0 \in 0..0
  BY SupervisorAssumption
<1> QED
  BY <1>1
  DEF SupervisorInit, SupervisorInv, SupervisorTypeOK, ReportedExited, NoOrphan, UpWhileSupervised

(* Another subprocess is spawned, or not, in the place of the current one,  *)
(* which is forced to exit or has done so.                                  *)
LEMMA SuperviseFacts ==
  ASSUME SupervisorInv, NEW c \in {subprocess, 0}, Supervise(c),
         c = 0 => subprocess \notin alive
  PROVE  /\ supervising' = TRUE /\ spawnFailed' \in BOOLEAN
         /\ spawned' \in 0..MaxSpawns /\ subprocess' \in 0..spawned'
         /\ 1..spawned \subseteq 1..spawned' /\ spawned + 1 \notin 1..spawned
         /\ alive' \subseteq 1..spawned' /\ killed' \subseteq 1..spawned'
         /\ alive' \subseteq alive \cup {spawned + 1}
         /\ NoOrphan' /\ (subprocess' = 0 => spawnFailed')
<1> USE SupervisorAssumption DEF SupervisorInv
<1>1. killed' = killed \cup ({c} \ {0}) /\ supervising' = TRUE
  BY DEF Supervise, Killed
<1>2. alive \subseteq 1..spawned /\ killed' \subseteq 1..spawned /\ spawned \in Nat
  BY <1>1 DEF SupervisorTypeOK
<1>3. \A p \in alive \ killed' : FALSE
  BY <1>1, <1>2 DEF NoOrphan
<1>4. CASE /\ spawned < MaxSpawns /\ spawned' = spawned + 1 /\ subprocess' = spawned + 1
           /\ alive' = alive \cup {spawned + 1} /\ spawnFailed' = FALSE
  <2>1. /\ spawned + 1 \in 0..MaxSpawns /\ spawned + 1 \in 1..(spawned + 1)
        /\ 1..spawned \subseteq 1..(spawned + 1) /\ spawned + 1 # 0
        /\ spawned + 1 \notin 1..spawned /\ spawned + 1 \in 0..(spawned + 1)
    BY <1>2, <1>4
  <2>2. NoOrphan'
    BY <1>3, <1>4 DEF NoOrphan
  <2> QED
    BY <1>1, <1>2, <1>4, <2>1, <2>2
<1>5. CASE subprocess' = 0 /\ spawnFailed' = TRUE /\ UNCHANGED <<spawned, alive>>
  BY <1>1, <1>2, <1>3, <1>5 DEF SupervisorTypeOK, NoOrphan
<1> QED
  BY <1>4, <1>5 DEF Supervise

LEMMA SupervisorStepInv == SupervisorInv /\ [SupervisorNext]_supervisorVars => SupervisorInv'
<1> SUFFICES ASSUME SupervisorInv, [SupervisorNext]_supervisorVars
             PROVE  SupervisorInv'
  OBVIOUS
<1> USE SupervisorAssumption DEF SupervisorInv
<1>1. ASSUME Start \/ RestartFires
      PROVE  SupervisorInv'
  <2>1. Supervise(subprocess) /\ UNCHANGED exited /\ restarts' \in 0..MaxRestarts
    BY <1>1 DEF Start, RestartFires, SupervisorTypeOK
  <2>2. 0 \notin alive
    BY DEF SupervisorTypeOK
  <2>9. exited \subseteq 1..spawned
    BY DEF SupervisorTypeOK
  <2>3. SupervisorTypeOK'
    <3>1. exited' \subseteq 1..spawned' /\ supervising' \in BOOLEAN
      BY <2>1, <2>2, <2>9, SuperviseFacts
    <3> QED
      BY <2>1, <2>2, <3>1, SuperviseFacts DEF SupervisorTypeOK
  <2>4. ReportedExited'
    BY <2>1, <2>2, <2>9, SuperviseFacts DEF ReportedExited
  <2>5. NoOrphan' /\ UpWhileSupervised'
    BY <2>1, <2>2, SuperviseFacts DEF UpWhileSupervised
  <2> QED
    BY <2>3, <2>4, <2>5
<1>2. ASSUME Stop
      PROVE  SupervisorInv'
  <2>1. SupervisorTypeOK'
    <3>1. {subprocess} \ {0} \subseteq 1..spawned /\ 0 \in 0..spawned
      BY DEF SupervisorTypeOK
    <3> QED
      BY <1>2, <3>1 DEF Stop, Unsupervised, Killed, SupervisorTypeOK
  <2>2. ReportedExited' /\ NoOrphan' /\ UpWhileSupervised'
    BY <1>2 DEF Stop, Unsupervised, Killed, SupervisorTypeOK, ReportedExited, NoOrphan, UpWhileSupervised
  <2> QED
    BY <2>1, <2>2
<1>3. ASSUME NEW p \in 1..MaxSpawns, Exits(p)
      PROVE  SupervisorInv'
  BY <1>3 DEF Exits, SupervisorTypeOK, ReportedExited, NoOrphan, UpWhileSupervised
<1>4. ASSUME NEW p \in 1..MaxSpawns, NEW limited \in BOOLEAN, WaitCb(p, limited)
      PROVE  SupervisorInv'
  <2>1. p \in exited /\ exited' = exited \ {p} /\ p \notin alive
    BY <1>4 DEF WaitCb, ReportedExited
  <2>2. CASE p # subprocess
    BY <1>4, <2>1, <2>2
    DEF WaitCb, SupervisorTypeOK, ReportedExited, NoOrphan, UpWhileSupervised
  <2>3. CASE p = subprocess /\ supervising /\ ~limited
    <3>1. Supervise(0) /\ UNCHANGED restarts /\ subprocess \notin alive
      BY <1>4, <2>1, <2>3 DEF WaitCb
    <3>9. exited \subseteq 1..spawned
      BY DEF SupervisorTypeOK
    <3>2. SupervisorTypeOK'
      <4>1. exited' \subseteq 1..spawned' /\ supervising' \in BOOLEAN
        BY <2>1, <3>1, <3>9, SuperviseFacts
      <4> QED
        BY <3>1, <4>1, SuperviseFacts DEF SupervisorTypeOK
    <3>3. ReportedExited'
      BY <2>1, <3>1, <3>9, SuperviseFacts DEF ReportedExited
    <3>4. NoOrphan' /\ UpWhileSupervised'
      BY <3>1, SuperviseFacts DEF UpWhileSupervised
    <3> QED
      BY <3>2, <3>3, <3>4
  <2>4. CASE p = subprocess /\ ~(supervising /\ ~limited)
    <3>1. /\ subprocess' = 0 /\ UNCHANGED <<supervising, spawned, alive, killed, spawnFailed>>
          /\ restarts' = IF supervising THEN restarts + 1 ELSE restarts
          /\ limited => restarts < MaxRestarts
      BY <1>4, <2>4 DEF WaitCb
    <3>2. SupervisorTypeOK'
      BY <2>1, <2>4, <3>1 DEF SupervisorTypeOK
    <3>3. ReportedExited' /\ NoOrphan' /\ UpWhileSupervised'
      BY <2>1, <2>4, <3>1 DEF SupervisorTypeOK, ReportedExited, NoOrphan, UpWhileSupervised
    <3> QED
      BY <3>2, <3>3
  <2> QED
    BY <2>2, <2>3, <2>4
<1>5. CASE UNCHANGED supervisorVars
  BY <1>5 DEF supervisorVars, SupervisorTypeOK, ReportedExited, NoOrphan, UpWhileSupervised
<1> QED
  BY <1>1, <1>2, <1>3, <1>4, <1>5 DEF SupervisorNext

(* Subprocesses and restarts are counted within their bounds, and what is   *)
(* alive, killed or exited was spawned.                                     *)
THEOREM SupervisorTypeCorrectness == SupervisorSpec => []SupervisorTypeOK
<1>1. SupervisorInv => SupervisorTypeOK
  BY DEF SupervisorInv
<1> QED
  BY SupervisorInitInv, SupervisorStepInv, <1>1, PTL DEF SupervisorSpec

(* A supervisor's subprocess is there only while it is supervised, and then *)
(* it is there, or a restart is on the way, or it could not be spawned:     *)
(* whatever the order of starts, stops, exits and delayed restarts.         *)
THEOREM SupervisedIsUp == SupervisorSpec => []UpWhileSupervised
<1>1. SupervisorInv => UpWhileSupervised
  BY DEF SupervisorInv
<1> QED
  BY SupervisorInitInv, SupervisorStepInv, <1>1, PTL DEF SupervisorSpec

(* Every subprocess but the current one was forced to exit or has exited.   *)
THEOREM NoSubprocessIsLost == SupervisorSpec => []NoOrphan
<1>1. SupervisorInv => NoOrphan
  BY DEF SupervisorInv
<1> QED
  BY SupervisorInitInv, SupervisorStepInv, <1>1, PTL DEF SupervisorSpec

-----------------------------------------------------------------------------
(* Workers: the inductive invariant. *)

(* A subprocess that runs, or whose exit is to be reported, is the one its  *)
(* process knows of, until the process is told to quit.                     *)
KnownUntilQuit ==
  \A pid \in living \cup unreaped :
    \/ plugin[pid] \in quit
    \/ serving /\ plugin[pid] \in workers /\ current[plugin[pid]] = pid

QuitAtShutdown == (serving => quit = {}) /\ (~serving => workers = {})

WaitingOfWorkers == \A p \in Plugins : tasks[p] # {} => p \in workers

WorkersInv ==
  /\ WorkersTypeOK /\ living \cap unreaped = {} /\ KnownUntilQuit /\ QuitAtShutdown
  /\ WaitingOfWorkers /\ NoOrphanWorker /\ WaitForConnection

LEMMA WorkersInitInv == WorkersInit => WorkersInv
<1> SUFFICES ASSUME WorkersInit
             PROVE  WorkersInv
  OBVIOUS
<1>1. (CHOOSE p \in Plugins : TRUE) \in Plugins
  BY WorkersAssumption
<1>2. plugin \in [Pids -> Plugins]
  BY <1>1 DEF WorkersInit
<1>3. WorkersTypeOK
  BY <1>2, WorkersAssumption DEF WorkersInit, WorkersTypeOK
<1> QED
  BY <1>3
  DEF WorkersInit, WorkersInv, KnownUntilQuit, QuitAtShutdown, WaitingOfWorkers, NoOrphanWorker,
      WaitForConnection

(* Where a process has no subprocess that runs or is to be reported, its    *)
(* respawn keeps the subprocesses known.                                    *)
LEMMA RespawnFacts ==
  ASSUME WorkersTypeOK, NEW p \in Plugins, Respawn(p)
  PROVE  /\ pids \in Nat /\ pids' \in 0..MaxWorkers /\ pids <= pids' /\ plugin' \in [Pids -> Plugins]
         /\ current' \in [Plugins -> 0..pids']
         /\ \A q \in Plugins : q # p => current'[q] = current[q]
         /\ \A pid \in 1..pids : plugin'[pid] = plugin[pid]
         /\ living \subseteq living' /\ living' \subseteq 1..pids'
         /\ \A pid \in living' \ living : pid = pids + 1 /\ plugin'[pid] = p /\ current'[p] = pid
<1> USE WorkersAssumption DEF WorkersTypeOK, Pids
<1>1. pids \in Nat /\ living \subseteq 1..pids
  OBVIOUS
<1>2. CASE /\ pids < MaxWorkers /\ pids' = pids + 1
           /\ plugin' = [plugin EXCEPT ![pids + 1] = p]
           /\ living' = living \cup {pids + 1} /\ current' = [current EXCEPT ![p] = pids + 1]
  <2>1. 0..pids \subseteq 0..pids' /\ pids + 1 \in 0..pids' /\ pids + 1 \in Pids
    BY <1>1, <1>2
  <2>2. current' \in [Plugins -> 0..pids'] /\ plugin' \in [Pids -> Plugins]
    BY <1>2, <2>1
  <2> QED
    BY <1>1, <1>2, <2>1, <2>2
<1>3. CASE current' = [current EXCEPT ![p] = 0] /\ UNCHANGED <<pids, plugin, living>>
  BY <1>1, <1>3
<1> QED
  BY <1>2, <1>3 DEF Respawn
LEMMA GetWorkerInv ==
  ASSUME WorkersInv, NEW p \in Plugins, GetWorker(p)
  PROVE  WorkersInv'
<1> USE WorkersAssumption DEF WorkersInv
<1>1. /\ requests' = requests + 1 /\ requests' \in 0..MaxRequests /\ requests \in Nat
      /\ 1..requests \subseteq 1..requests' /\ requests' \in 1..requests'
      /\ UNCHANGED <<serving, quit, connection, unreaped, forced>>
  BY DEF GetWorker, WorkersTypeOK
<1>2. CASE ~serving
  <2>1. UNCHANGED <<workers, tasks, pids, plugin, living, current>>
    BY <1>2 DEF GetWorker
  <2>2. neverAnswered' \subseteq 1..requests'
    BY <1>1, <1>2 DEF GetWorker, WorkersTypeOK
  <2>3. tasks' \in [Plugins -> SUBSET (1..requests')]
    BY <1>1, <2>1 DEF WorkersTypeOK
  <2>4. WorkersTypeOK'
    BY <1>1, <2>1, <2>2, <2>3 DEF WorkersTypeOK
  <2> QED
    BY <1>1, <2>1, <2>4
    DEF KnownUntilQuit, QuitAtShutdown, WaitingOfWorkers, NoOrphanWorker, WaitForConnection
<1>3. CASE serving
  <2>1. /\ workers' = workers \cup {p} /\ UNCHANGED neverAnswered /\ GetProxy(p)
        /\ IF p \notin workers THEN Respawn(p) ELSE UNCHANGED <<pids, plugin, living, current>>
    BY <1>3 DEF GetWorker
  <2>2. tasks' \in [Plugins -> SUBSET (1..requests')]
    BY <1>1, <2>1 DEF GetProxy, WorkersTypeOK
  <2>3. WaitingOfWorkers' /\ WaitForConnection'
    BY <1>1, <1>3, <2>1 DEF GetProxy, WaitingOfWorkers, WaitForConnection, WorkersTypeOK
  <2>4. QuitAtShutdown'
    BY <1>1, <1>3 DEF QuitAtShutdown
  <2>5. CASE p \in workers
    <3>1. WorkersTypeOK'
      BY <1>1, <2>1, <2>2, <2>5 DEF WorkersTypeOK
    <3> QED
      BY <1>1, <2>1, <2>3, <2>4, <2>5, <3>1 DEF KnownUntilQuit, NoOrphanWorker
  <2>6. CASE p \notin workers
    <3>1. Respawn(p) /\ WorkersTypeOK
      BY <2>1, <2>6
    <3>2. \A pid \in living \cup unreaped : plugin[pid] # p /\ pid \in 1..pids /\ plugin[pid] \in Plugins
      BY <1>3, <2>6 DEF KnownUntilQuit, QuitAtShutdown, WorkersTypeOK, Pids
    <3>3. \A pid \in living \cup unreaped :
            plugin'[pid] = plugin[pid] /\ current'[plugin[pid]] = current[plugin[pid]]
      BY <3>1, <3>2, RespawnFacts
    <3>4. WorkersTypeOK'
      <4>1. 0..pids \subseteq 0..pids' /\ 1..pids \subseteq 1..pids' /\ pids' \in 0..MaxWorkers
        BY <3>1, RespawnFacts DEF WorkersTypeOK
      <4>2. connection' \in [Plugins -> 0..pids'] /\ unreaped' \subseteq 1..pids' /\ forced' \subseteq 1..pids'
        BY <1>1, <4>1 DEF WorkersTypeOK
      <4>3. neverAnswered' \subseteq 1..requests' /\ workers' \subseteq Plugins
        BY <1>1, <2>1 DEF WorkersTypeOK
      <4> QED
        BY <1>1, <2>2, <3>1, <4>1, <4>2, <4>3, RespawnFacts DEF WorkersTypeOK
    <3>5. living' \cap unreaped' = {}
      <4>1. pids + 1 \notin unreaped
        BY <3>1, RespawnFacts DEF WorkersTypeOK
      <4> QED
        BY <1>1, <3>1, <4>1, RespawnFacts
    <3>6. KnownUntilQuit'
      BY <1>1, <1>3, <2>1, <3>1, <3>3, RespawnFacts DEF KnownUntilQuit
    <3>7. NoOrphanWorker'
      BY <1>1, <1>3, <2>1, <3>1, <3>3, RespawnFacts DEF NoOrphanWorker
    <3> QED
      BY <2>3, <2>4, <3>4, <3>5, <3>6, <3>7
  <2> QED
    BY <2>5, <2>6
<1> QED
  BY <1>2, <1>3

LEMMA WaitCheckInv ==
  ASSUME WorkersInv, NEW pid \in Pids, WaitCheck(pid)
  PROVE  WorkersInv'
<1> USE WorkersAssumption DEF WorkersInv
<1> DEFINE p == plugin[pid]
<1>1. /\ pid \in unreaped /\ unreaped' = unreaped \ {pid} /\ p \in Plugins
      /\ UNCHANGED <<serving, workers, quit, connection, tasks, requests, forced, neverAnswered>>
  BY DEF WaitCheck, WorkersTypeOK
<1>2. WaitingOfWorkers' /\ WaitForConnection' /\ QuitAtShutdown'
  BY <1>1 DEF WaitingOfWorkers, WaitForConnection, QuitAtShutdown
<1> HIDE DEF p
<1>3. CASE p \in quit
  <2>1. current' = [current EXCEPT ![p] = 0] /\ UNCHANGED <<pids, plugin, living>>
    BY <1>3 DEF WaitCheck, p
  <2>2. WorkersTypeOK'
    BY <1>1, <2>1 DEF WorkersTypeOK
  <2>3. ~serving
    BY <1>3 DEF QuitAtShutdown
  <2>4. KnownUntilQuit' /\ NoOrphanWorker'
    BY <1>1, <2>1, <2>3 DEF KnownUntilQuit, NoOrphanWorker
  <2> QED
    BY <1>1, <1>2, <2>1, <2>2, <2>4
<1>4. CASE p \notin quit
  <2>1. Respawn(p) /\ WorkersTypeOK
    BY <1>4 DEF WaitCheck, p
  <2>2. serving /\ p \in workers /\ current[p] = pid /\ quit = {}
    BY <1>1, <1>4 DEF KnownUntilQuit, QuitAtShutdown, p
  <2>3. \A q \in (living \cup unreaped) \ {pid} : plugin[q] # p /\ q \in 1..pids /\ plugin[q] \in Plugins
    BY <2>2 DEF KnownUntilQuit, WorkersTypeOK, Pids
  <2>4. \A q \in (living \cup unreaped) \ {pid} :
          plugin'[q] = plugin[q] /\ current'[plugin[q]] = current[plugin[q]]
    BY <1>1, <2>1, <2>3, RespawnFacts
  <2>5. WorkersTypeOK'
    <3>1. 0..pids \subseteq 0..pids' /\ 1..pids \subseteq 1..pids' /\ pids' \in 0..MaxWorkers
      BY <1>1, <2>1, RespawnFacts DEF WorkersTypeOK
    <3>2. connection' \in [Plugins -> 0..pids'] /\ unreaped' \subseteq 1..pids' /\ forced' \subseteq 1..pids'
      BY <1>1, <3>1 DEF WorkersTypeOK
    <3> QED
      BY <1>1, <2>1, <3>1, <3>2, RespawnFacts DEF WorkersTypeOK
  <2>6. pid \notin living /\ pids + 1 \notin unreaped
    BY <1>1, <2>1, RespawnFacts DEF WorkersTypeOK
  <2>7. living' \cap unreaped' = {}
    BY <1>1, <2>1, <2>6, RespawnFacts
  <2>8. KnownUntilQuit'
    BY <1>1, <2>1, <2>2, <2>4, <2>6, RespawnFacts DEF KnownUntilQuit
  <2>9. NoOrphanWorker'
    BY <1>1, <2>1, <2>2, <2>4, <2>6, RespawnFacts DEF NoOrphanWorker
  <2> QED
    BY <1>2, <2>5, <2>7, <2>8, <2>9
<1> QED
  BY <1>3, <1>4

LEMMA WorkersStepInv == WorkersInv /\ [WorkersNext]_workerVars => WorkersInv'
<1> SUFFICES ASSUME WorkersInv, [WorkersNext]_workerVars
             PROVE  WorkersInv'
  OBVIOUS
<1> USE WorkersAssumption DEF WorkersInv
<1>1. ASSUME NEW pid \in Pids, WorkerDies(pid)
      PROVE  WorkersInv'
  <2>1. WorkersTypeOK'
    BY <1>1 DEF WorkerDies, WorkersTypeOK
  <2> QED
    BY <1>1, <2>1
    DEF WorkerDies, KnownUntilQuit, QuitAtShutdown, WaitingOfWorkers, NoOrphanWorker, WaitForConnection
<1>2. ASSUME NEW pid \in Pids, Connect(pid)
      PROVE  WorkersInv'
  <2>1. plugin[pid] \in Plugins /\ pid \in 0..pids
    BY <1>2 DEF Connect, WorkersTypeOK
  <2>2. WorkersTypeOK'
    BY <1>2, <2>1 DEF Connect, Answering, WorkersTypeOK
  <2>3. WaitingOfWorkers' /\ WaitForConnection'
    BY <1>2, <2>1 DEF Connect, Answering, WaitingOfWorkers, WaitForConnection, WorkersTypeOK
  <2>4. KnownUntilQuit' /\ QuitAtShutdown' /\ NoOrphanWorker' /\ (living \cap unreaped = {})'
    BY <1>2 DEF Connect, KnownUntilQuit, QuitAtShutdown, NoOrphanWorker
  <2> QED
    BY <2>2, <2>3, <2>4
<1>3. ASSUME Shutdown
      PROVE  WorkersInv'
  <2>1. /\ serving' = FALSE /\ workers' = {} /\ quit' = quit \cup workers
        /\ forced' = forced \cup ({current[p] : p \in workers} \ {0})
        /\ neverAnswered' = neverAnswered \cup UNION {tasks[p] : p \in workers}
        /\ UNCHANGED <<connection, requests, pids, plugin, living, unreaped>>
    BY <1>3 DEF Shutdown, Quitting
  <2>2. WorkersTypeOK'
    <3>1. forced' \subseteq 1..pids /\ neverAnswered' \subseteq 1..requests
      <4>1. workers \subseteq Plugins
        BY DEF WorkersTypeOK
      <4>2. \A p \in workers : current[p] \in 0..pids /\ tasks[p] \subseteq 1..requests
        BY <4>1 DEF WorkersTypeOK
      <4>3. (0..pids) \ {0} \subseteq 1..pids
        BY DEF WorkersTypeOK
      <4>4. {current[p] : p \in workers} \ {0} \subseteq 1..pids
        BY <4>2, <4>3
      <4>5. UNION {tasks[p] : p \in workers} \subseteq 1..requests
        BY <4>2
      <4> QED
        BY <2>1, <4>4, <4>5 DEF WorkersTypeOK
    <3>2. current' \in [Plugins -> 0..pids] /\ tasks' \in [Plugins -> SUBSET (1..requests)]
      BY <1>3 DEF Shutdown, WorkersTypeOK
    <3> QED
      BY <2>1, <3>1, <3>2 DEF WorkersTypeOK
  <2>3. \A p \in Plugins : tasks'[p] = {}
    BY <1>3 DEF Shutdown, WaitingOfWorkers
  <2>4. KnownUntilQuit'
    BY <2>1 DEF KnownUntilQuit
  <2>5. NoOrphanWorker'
    <3> SUFFICES ASSUME NEW pid \in living \ forced'
                 PROVE  FALSE
      BY <2>1 DEF NoOrphanWorker
    <3>1. plugin[pid] \in workers /\ current[plugin[pid]] = pid /\ pid # 0
      BY <2>1 DEF NoOrphanWorker, WorkersTypeOK
    <3> QED
      BY <2>1, <3>1
  <2> QED
    BY <2>1, <2>2, <2>3, <2>4, <2>5 DEF QuitAtShutdown, WaitingOfWorkers, WaitForConnection
<1>4. CASE UNCHANGED workerVars
  BY <1>4
  DEF workerVars, WorkersTypeOK, KnownUntilQuit, QuitAtShutdown, WaitingOfWorkers, NoOrphanWorker,
      WaitForConnection
<1> QED
  BY <1>1, <1>2, <1>3, <1>4, GetWorkerInv, WaitCheckInv DEF WorkersNext

(* The manager's processes, workers and requests keep their types.          *)
THEOREM WorkersTypeCorrectness == WorkersSpec => []WorkersTypeOK
<1>1. WorkersInv => WorkersTypeOK
  BY DEF WorkersInv
<1> QED
  BY WorkersInitInv, WorkersStepInv, <1>1, PTL DEF WorkersSpec

(* Every worker that runs was forced to exit or is the one its process      *)
(* knows of, whatever the order of exits, their reports, respawns and the   *)
(* shutdown.                                                                *)
THEOREM NoWorkerIsLost == WorkersSpec => []NoOrphanWorker
<1>1. WorkersInv => NoOrphanWorker
  BY DEF WorkersInv
<1> QED
  BY WorkersInitInv, WorkersStepInv, <1>1, PTL DEF WorkersSpec

(* A request for a proxy waits only where there is no connection and the    *)
(* manager still serves: set_connection answers all that wait.              *)
THEOREM WaitingIsNeeded == WorkersSpec => []WaitForConnection
<1>1. WorkersInv => WaitForConnection
  BY DEF WorkersInv
<1> QED
  BY WorkersInitInv, WorkersStepInv, <1>1, PTL DEF WorkersSpec
-----------------------------------------------------------------------------
(* RunManager: the inductive invariant. *)

(* Requests that were not made have no stage. *)
NotAskedYet == \A r \in Runs : r > asked => stage[r] = "none"

RunInv == RunTypeOK /\ NotAskedYet /\ OneRunAtATime

LEMMA RunInitInv == RunInit => RunInv
<1> SUFFICES ASSUME RunInit
             PROVE  RunInv
  OBVIOUS
<1> USE RunManagerAssumption
<1>1. handlers = <<DefaultHandler>> /\ handlers \in Seq(RunHandlers) /\ handler = 1
  BY DEF RunInit
<1>3. handler \in 0..Len(handlers)
  BY <1>1
<1>4. 0 \in 0..MaxRuns /\ 0 \in 0..0
  OBVIOUS
<1>5. RunTypeOK
  BY <1>1, <1>3, <1>4 DEF RunInit, RunTypeOK, Stages
<1> QED
  BY <1>5 DEF RunInit, RunInv, NotAskedYet, OneRunAtATime, Accepted

(* What keeps the handlers does not disturb the rest, and what serves the   *)
(* requests does not disturb the handlers.                                  *)
HandlersOK == handlers \in Seq(RunHandlers) /\ handler \in 0..Len(handlers)

RequestsOK ==
  /\ asked \in 0..MaxRuns /\ stage \in [Runs -> Stages] /\ busy \in BOOLEAN
  /\ cancellable \in 0..asked /\ cancelTimers \subseteq 1..asked /\ cancelled \subseteq 1..asked
  /\ target \in BOOLEAN /\ dropped \subseteq 1..asked /\ asides \in BOOLEAN

LEMMA RunTypeParts == RunTypeOK <=> RequestsOK /\ HandlersOK
BY DEF RunTypeOK, RequestsOK, HandlersOK

LEMMA HandlersKept ==
  ASSUME HandlersOK, NEW id \in RunHandlers,
         SetHandler(id) \/ AddHandler(id) \/ RemoveHandler(id)
  PROVE  HandlersOK'
<1> USE DEF HandlersOK
<1>0. DOMAIN handlers = 1..Len(handlers) /\ Len(handlers) \in Nat
  OBVIOUS
<1>1. CASE SetHandler(id)
  <2>1. handler' \in DOMAIN handlers \cup {0} /\ handlers' = handlers
    BY <1>1 DEF SetHandler
  <2> QED
    BY <1>0, <2>1
<1>2. CASE AddHandler(id)
  <2>1. /\ handlers' = Append(handlers, id)
        /\ handler' = IF handler = 0 THEN Len(handlers) + 1 ELSE handler
    BY <1>2 DEF AddHandler
  <2>2. handlers' \in Seq(RunHandlers) /\ Len(handlers') = Len(handlers) + 1
    BY <2>1
  <2> QED
    BY <1>0, <2>1, <2>2
<1>3. CASE RemoveHandler(id)
  <2>1. PICK i \in DOMAIN handlers :
          LET left == SubSeq(handlers, 1, i - 1) \o SubSeq(handlers, i + 1, Len(handlers))
          IN  handlers' = left /\ handler' = Unchosen(i, left)
    BY <1>3 DEF RemoveHandler
  <2>2. /\ SubSeq(handlers, 1, i - 1) \in Seq(RunHandlers)
        /\ SubSeq(handlers, i + 1, Len(handlers)) \in Seq(RunHandlers)
    BY <1>0
  <2>3. handlers' \in Seq(RunHandlers)
    BY <2>1, <2>2
  <2>4. handlers' # <<>> => Len(handlers') >= 1
    BY <2>3
  <2>5. handler' = 0 \/ (handlers' # <<>> /\ handler' = 1)
    BY <2>1 DEF Unchosen
  <2> QED
    BY <2>3, <2>4, <2>5
<1> QED
  BY <1>1, <1>2, <1>3

(* A request goes on, or comes to its end.                                  *)
LEMMA MovedOn ==
  ASSUME RunInv, NEW r \in Accepted, UNCHANGED <<asked, cancellable, asides>>,
         \/ /\ \E s \in {"install", "discover", "run"} : stage' = [stage EXCEPT ![r] = s]
            /\ UNCHANGED busy
         \/ Completed(r)
  PROVE  /\ stage' \in [Runs -> Stages] /\ busy' \in BOOLEAN
         /\ NotAskedYet' /\ OneRunAtATime'
<1> USE DEF RunInv
<1>1. r \in Runs /\ stage \in [Runs -> Stages] /\ asked \in Nat /\ r <= asked /\ busy
  BY RunManagerAssumption DEF Accepted, RunTypeOK, NotAskedYet, OneRunAtATime, Runs
<1>2. Accepted = {r}
  BY DEF OneRunAtATime
<1>3. ASSUME NEW s \in {"install", "discover", "run"}, stage' = [stage EXCEPT ![r] = s], UNCHANGED busy
      PROVE  /\ stage' \in [Runs -> Stages] /\ busy' \in BOOLEAN
             /\ NotAskedYet' /\ OneRunAtATime'
  <2>1. Accepted' = {r}
    BY <1>1, <1>2, <1>3 DEF Accepted
  <2>2. OneRunAtATime'
    BY <1>1, <1>2, <1>3, <2>1 DEF OneRunAtATime
  <2>3. busy' \in BOOLEAN
    BY <1>3, Zenon DEF RunTypeOK
  <2> QED
    <3>1. stage' \in [Runs -> Stages]
      BY <1>1, <1>3 DEF Stages
    <3>2. NotAskedYet'
      BY <1>1, <1>3 DEF NotAskedYet, Runs
    <3> QED
      BY <2>2, <2>3, <3>1, <3>2
<1>4. CASE Completed(r)
  <2>1. Accepted' = {} /\ busy' = FALSE
    BY <1>1, <1>2, <1>4 DEF Accepted, Completed
  <2>2. OneRunAtATime'
    BY <2>1 DEF OneRunAtATime
  <2> QED
    <3>1. stage' = [stage EXCEPT ![r] = "done"]
      BY <1>4 DEF Completed
    <3>2. stage' \in [Runs -> Stages]
      BY <1>1, <3>1 DEF Stages
    <3>3. NotAskedYet'
      BY <1>1, <3>1 DEF NotAskedYet, Runs
    <3>4. busy' \in BOOLEAN
      BY <2>1
    <3> QED
      BY <2>2, <3>2, <3>3, <3>4
<1> QED
  BY <1>3, <1>4

LEMMA AnsweredInv ==
  ASSUME RunInv, NEW r \in Runs, Answered(r)
  PROVE  RunInv'
<1> USE DEF requestVars, cancelVars, handlerVars
<1>1. /\ r \in Accepted /\ UNCHANGED <<requestVars, cancelVars, handlerVars, dropped>>
      /\ target' \in {target, TRUE}
      /\ \/ /\ \E s \in {"install", "discover", "run"} : stage' = [stage EXCEPT ![r] = s]
            /\ UNCHANGED busy
         \/ Completed(r)
  BY DEF Answered, Installed, Discovered, RunEnds, DoRun, Fails, Accepted
<1>2. /\ stage' \in [Runs -> Stages] /\ busy' \in BOOLEAN
      /\ NotAskedYet' /\ OneRunAtATime'
  BY <1>1, MovedOn
<1>3. target' \in BOOLEAN
  BY <1>1 DEF RunInv, RunTypeOK
<1>4. RunTypeOK'
  BY <1>1, <1>2, <1>3 DEF RunInv, RunTypeOK
<1> QED
  BY <1>2, <1>4 DEF RunInv

LEMMA RunAsyncInv ==
  ASSUME RunInv, NEW with_target \in BOOLEAN, RunAsync(with_target)
  PROVE  RunInv'
<1> USE RunManagerAssumption DEF RunInv, cancelVars, handlerVars
<1> DEFINE n == asked + 1
<1>1. /\ asked \in Nat /\ n \in Runs /\ n \in 0..MaxRuns /\ stage[n] = "none"
      /\ asked' = n /\ cancellable' = n /\ 1..asked \subseteq 1..n /\ n \in 0..n
  BY DEF RunAsync, RunTypeOK, NotAskedYet, Runs
<1>2. UNCHANGED <<cancelVars, handlerVars, dropped>>
  BY DEF RunAsync
<1>3. asides' \in BOOLEAN /\ target' \in BOOLEAN /\ busy' \in BOOLEAN
  <2>1. busy' = TRUE \/ busy' = busy
    BY Zenon DEF RunAsync
  <2>2. asides' = TRUE \/ asides' = FALSE
    BY DEF RunAsync
  <2>3. target' = target \/ target' = (target \/ with_target)
    BY DEF RunAsync
  <2> QED
    BY <2>1, <2>2, <2>3, Zenon DEF RunTypeOK
<1>4. \/ /\ busy /\ stage' = [stage EXCEPT ![n] = "refused"] /\ asides' = TRUE /\ UNCHANGED busy
      \/ /\ ~busy /\ stage' = [stage EXCEPT ![n] = "install"] /\ busy' = TRUE
  BY DEF RunAsync, Refuses
<1> HIDE DEF n
<1>5. stage' \in [Runs -> Stages]
  BY <1>1, <1>4 DEF RunTypeOK, Stages
<1>6. RunTypeOK'
  <2>1. /\ cancelTimers' \subseteq 1..asked' /\ cancelled' \subseteq 1..asked' /\ dropped' \subseteq 1..asked'
    BY <1>1, <1>2 DEF RunTypeOK
  <2>2. HandlersOK'
    BY <1>2 DEF RunTypeOK, HandlersOK
  <2> QED
    BY <1>1, <1>3, <1>5, <2>1, <2>2 DEF RunTypeOK, HandlersOK
<1>7. NotAskedYet'
  BY <1>1, <1>4 DEF NotAskedYet, RunTypeOK, n, Runs
<1>8. OneRunAtATime'
  <2>1. CASE busy /\ stage' = [stage EXCEPT ![n] = "refused"] /\ asides' = TRUE /\ UNCHANGED busy
    <3>1. Accepted' = Accepted
      BY <1>1, <2>1 DEF Accepted, RunTypeOK
    <3> QED
      BY <2>1, <3>1 DEF OneRunAtATime
  <2>2. CASE ~busy /\ stage' = [stage EXCEPT ![n] = "install"] /\ busy' = TRUE
    <3>1. Accepted = {}
      BY <2>2 DEF OneRunAtATime
    <3>2. Accepted' = {n}
      BY <1>1, <2>2, <3>1 DEF Accepted, RunTypeOK
    <3> QED
      BY <1>1, <2>2, <3>2 DEF OneRunAtATime
  <2> QED
    BY <1>4, <2>1, <2>2
<1> QED
  BY <1>6, <1>7, <1>8

LEMMA RunStepInv == RunInv /\ [RunNext]_runVars => RunInv'
<1> SUFFICES ASSUME RunInv, [RunNext]_runVars
             PROVE  RunInv'
  OBVIOUS
<1> USE DEF requestVars, cancelVars, handlerVars
<1>1. ASSUME NEW r \in Runs, BuildDropped(r) \/ CancelFires(r) \/ CancelRun
      PROVE  RunInv'
  <2>1. /\ UNCHANGED <<requestVars, stage, busy, target, handlerVars>>
        /\ dropped' \in {dropped, dropped \cup {r}} /\ (dropped' # dropped => stage[r] = "install")
        /\ cancelTimers' \subseteq cancelTimers \cup ({cancellable} \ {0})
        /\ cancelled' \subseteq cancelled \cup cancelTimers
    BY <1>1 DEF BuildDropped, CancelFires, CancelRun
  <2>2. stage[r] = "install" => r \in 1..asked
    BY RunManagerAssumption DEF RunInv, NotAskedYet, RunTypeOK, Runs
  <2>3. {cancellable} \ {0} \subseteq 1..asked
    BY RunManagerAssumption DEF RunInv, RunTypeOK
  <2>4. /\ dropped' \subseteq 1..asked /\ cancelTimers' \subseteq 1..asked
        /\ cancelled' \subseteq 1..asked
    BY <2>1, <2>2, <2>3 DEF RunInv, RunTypeOK
  <2>5. RunTypeOK'
    BY <2>1, <2>4 DEF RunInv, RunTypeOK
  <2> QED
    BY <2>1, <2>5 DEF RunInv, NotAskedYet, OneRunAtATime, Accepted
<1>2. ASSUME NEW id \in RunHandlers, SetHandler(id) \/ AddHandler(id) \/ RemoveHandler(id)
      PROVE  RunInv'
  <2>1. UNCHANGED <<requestVars, stage, busy, target, cancelVars, dropped>>
    BY <1>2 DEF SetHandler, AddHandler, RemoveHandler
  <2>2. HandlersOK'
    BY <1>2, HandlersKept, RunTypeParts DEF RunInv
  <2>3. RequestsOK'
    BY <2>1 DEF RunInv, RunTypeOK, RequestsOK
  <2>4. RunTypeOK'
    BY <2>2, <2>3 DEF RunTypeOK, RequestsOK, HandlersOK
  <2> QED
    BY <2>1, <2>4 DEF RunInv, NotAskedYet, OneRunAtATime, Accepted
<1>3. CASE UNCHANGED runVars
  BY <1>3 DEF runVars, RunInv, RunTypeOK, NotAskedYet, OneRunAtATime, Accepted
<1>4. ASSUME CancelRun
      PROVE  \E r \in Runs : TRUE
  BY <1>4, RunManagerAssumption DEF CancelRun, RunInv, RunTypeOK, Runs
<1> QED
  BY <1>1, <1>2, <1>3, <1>4, AnsweredInv, RunAsyncInv DEF RunNext

(* The chosen run handler is none or one of those that were not removed.    *)
THEOREM RunTypeCorrectness == RunSpec => []RunTypeOK
<1>1. RunInv => RunTypeOK
  BY DEF RunInv
<1> QED
  BY RunInitInv, RunStepInv, <1>1, PTL DEF RunSpec

(* At most one request is served at a time, the run manager is busy exactly *)
(* then, and its cancellable is that of this request unless another one was *)
(* refused meanwhile.                                                       *)
THEOREM RunsAreExclusive == RunSpec => []OneRunAtATime
<1>1. RunInv => OneRunAtATime
  BY DEF RunInv
<1> QED
  BY RunInitInv, RunStepInv, <1>1, PTL DEF RunSpec

(* A build that was dropped leaves its request waiting for the installation. *)
DroppedWait == \A r \in dropped : r \in Runs /\ stage[r] = "install"

(* How many of its steps an accepted request has before it. *)
StepsOfRun(at) ==
  CASE at = "install" -> 3 [] at = "discover" -> 2 [] at = "run" -> 1 [] OTHER -> 0

(* What becomes of an accepted request in a step of the run manager.        *)
LEMMA AcceptedFate ==
  ASSUME RunInv, [RunNext]_runVars, NEW r \in Accepted
  PROVE  \/ stage'[r] = stage[r]
         \/ /\ Answered(r) /\ StepsOfRun(stage'[r]) < StepsOfRun(stage[r])
            /\ stage[r] = "install" => r \notin dropped
<1> USE DEF requestVars, cancelVars, handlerVars
<1>0. r \in Runs /\ stage \in [Runs -> Stages] /\ busy /\ Accepted = {r}
  BY DEF RunInv, RunTypeOK, OneRunAtATime, Accepted
<1>1. ASSUME NEW with_target \in BOOLEAN, RunAsync(with_target)
      PROVE  stage'[r] = stage[r]
  <2>1. asked + 1 # r
    BY <1>0, RunManagerAssumption DEF RunInv, RunTypeOK, NotAskedYet, Accepted
  <2> QED
    BY <1>0, <1>1, <2>1 DEF RunAsync, Refuses
<1>2. ASSUME NEW q \in Runs, Answered(q)
      PROVE  /\ q = r /\ StepsOfRun(stage'[r]) < StepsOfRun(stage[r])
             /\ stage[r] = "install" => r \notin dropped
  <2>1. q \in Accepted /\ (stage[q] = "install" => q \notin dropped)
    BY <1>2 DEF Answered, Installed, Discovered, RunEnds, Accepted
  <2>2. q = r
    BY <1>0, <2>1
  <2>3. \/ stage[r] = "install" /\ stage'[r] \in {"discover", "run", "done"}
        \/ stage[r] = "discover" /\ stage'[r] \in {"run", "done"}
        \/ stage[r] = "run" /\ stage'[r] = "done"
    BY <1>0, <1>2, <2>2 DEF Answered, Installed, Discovered, RunEnds, DoRun, Fails, Completed
  <2> QED
    BY <2>1, <2>2, <2>3 DEF StepsOfRun
<1>3. ASSUME NEW q, BuildDropped(q) \/ CancelFires(q) \/ CancelRun
      PROVE  stage'[r] = stage[r]
  BY <1>3 DEF BuildDropped, CancelFires, CancelRun
<1>4. ASSUME NEW id, SetHandler(id) \/ AddHandler(id) \/ RemoveHandler(id)
      PROVE  stage'[r] = stage[r]
  BY <1>4 DEF SetHandler, AddHandler, RemoveHandler
<1>5. CASE UNCHANGED runVars
  BY <1>5 DEF runVars
<1> QED
  BY <1>1, <1>2, <1>3, <1>4, <1>5 DEF RunNext

LEMMA DroppedStep == RunInv /\ DroppedWait /\ [RunNext]_runVars => DroppedWait'
<1> SUFFICES ASSUME RunInv, DroppedWait, [RunNext]_runVars
             PROVE  DroppedWait'
  OBVIOUS
<1> USE DEF requestVars, cancelVars, handlerVars
<1>1. \A r \in dropped : stage'[r] = "install"
  BY AcceptedFate DEF DroppedWait, Accepted
<1>2. ASSUME NEW r \in Runs, BuildDropped(r)
      PROVE  DroppedWait'
  BY <1>2 DEF BuildDropped, DroppedWait
<1>3. ASSUME UNCHANGED dropped
      PROVE  DroppedWait'
  BY <1>1, <1>3 DEF DroppedWait
<1>4. ASSUME NEW r, Answered(r) \/ CancelFires(r) \/ CancelRun
      PROVE  UNCHANGED dropped
  BY <1>4 DEF Answered, Installed, Discovered, RunEnds, CancelFires, CancelRun
<1>5. ASSUME NEW id, SetHandler(id) \/ AddHandler(id) \/ RemoveHandler(id) \/ RunAsync(id)
      PROVE  UNCHANGED dropped
  BY <1>5 DEF SetHandler, AddHandler, RemoveHandler, RunAsync
<1>6. CASE UNCHANGED runVars
  BY <1>3, <1>6 DEF runVars
<1> QED
  BY <1>2, <1>3, <1>4, <1>5, <1>6 DEF RunNext

(* Only the answer to its present step moves an accepted request, and always *)
(* towards its end. But when the build manager has dropped its build, there *)
(* will be no such answer, and the run manager is busy with it for ever.    *)
THEOREM RunsGoOn ==
  /\ RunSpec => [][\A r \in Accepted :
                     \/ stage'[r] = stage[r]
                     \/ Answered(r) /\ StepsOfRun(stage'[r]) < StepsOfRun(stage[r])]_runVars
  /\ RunSpec => [](dropped # {} => busy /\ Accepted = dropped)
<1>1. RunInit => DroppedWait
  BY DEF RunInit, DroppedWait
<1>2. RunInv /\ [RunNext]_runVars
        => [\A r \in Accepted :
              \/ stage'[r] = stage[r]
              \/ Answered(r) /\ StepsOfRun(stage'[r]) < StepsOfRun(stage[r])]_runVars
  BY AcceptedFate
<1>3. RunInv /\ DroppedWait => (dropped # {} => busy /\ Accepted = dropped)
  <2> SUFFICES ASSUME RunInv, DroppedWait, dropped # {}
               PROVE  busy /\ Accepted = dropped
    OBVIOUS
  <2>1. dropped \subseteq Accepted
    BY DEF DroppedWait, Accepted
  <2> QED
    BY <2>1 DEF RunInv, OneRunAtATime
<1> QED
  BY RunInitInv, RunStepInv, DroppedStep, <1>1, <1>2, <1>3, PTL DEF RunSpec

-----------------------------------------------------------------------------
(* LanguageClient: the inductive invariant. *)

(* Before it is initialized, the server was told of nothing. *)
UntoldUnbound ==
  /\ bound => ~initializing
  /\ ~bound => /\ astray = {}
               /\ \A f \in Documents : handlersOf[f] = 0 /\ copy[f] = Unopened

(* A document that is not open has no handlers. *)
Unhandled == \A f \in Documents \ open : handlersOf[f] = 0

(* The edits of a document the server has are passed on once. *)
ToldOnce ==
  bound /\ connected => \A f \in Documents \ astray :
    handlersOf[f] = IF f \in open \cap known THEN 1 ELSE 0

LanguageInv == LanguageTypeOK /\ Unhandled /\ UntoldUnbound /\ ToldOnce /\ ServerMirrors

LEMMA LanguageInitInv == LanguageInit => LanguageInv
<1> SUFFICES ASSUME LanguageInit
             PROVE  LanguageInv
  OBVIOUS
<1>1. 0 \in 0..MaxEdits /\ 0 \in 0..MaxClients /\ 0 \in Nat
  BY LanguageAssumption
<1>2. LanguageTypeOK
  BY <1>1 DEF LanguageInit, LanguageTypeOK
<1>3. Unhandled /\ UntoldUnbound /\ ToldOnce /\ ServerMirrors
  BY DEF LanguageInit, Unhandled, UntoldUnbound, ToldOnce, ServerMirrors
<1> QED
  BY <1>2, <1>3 DEF LanguageInv

(* Announcing documents keeps the types of the server's side. *)
LEMMA AnnounceFacts ==
  ASSUME LanguageInv, NEW fs \in SUBSET Documents, NEW now \in [Documents -> 0..MaxEdits],
         Announce(fs, now)
  PROVE  /\ handlersOf' \in [Documents -> Nat]
         /\ copy' \in [Documents -> 0..MaxEdits \cup {Unopened, Garbled}]
         /\ \A f \in Documents : handlersOf'[f] = handlersOf[f] + (IF f \in fs THEN 1 ELSE 0)
         /\ \A f \in Documents : copy'[f] = IF connected /\ f \in fs THEN now[f] ELSE copy[f]
  BY DEF LanguageInv, LanguageTypeOK, Announce

(* An edit of a document the server has, once more, is its new text; other  *)
(* documents are left alone.                                                *)
LEMMA ToldFacts ==
  ASSUME LanguageInv, NEW f \in Documents, textOf[f] < MaxEdits
  PROVE  /\ Told(f) \in [Documents -> 0..MaxEdits \cup {Unopened, Garbled}]
         /\ \A g \in Documents : g # f => Told(f)[g] = copy[g]
         /\ handlersOf[f] = 0 => Told(f) = copy
         /\ connected /\ handlersOf[f] = 1 /\ copy[f] = textOf[f] => Told(f)[f] = textOf[f] + 1
<1>1. textOf[f] \in Nat /\ textOf[f] + 1 \in 0..MaxEdits /\ textOf[f] # Unopened
  BY LanguageAssumption DEF LanguageInv, LanguageTypeOK
<1>2. copy \in [Documents -> 0..MaxEdits \cup {Unopened, Garbled}] /\ handlersOf[f] \in Nat
  BY DEF LanguageInv, LanguageTypeOK
<1> QED
  BY <1>1, <1>2 DEF Told

LEMMA SpawnedInv == LanguageInv /\ Spawned => LanguageInv'
<1> SUFFICES ASSUME LanguageInv, Spawned
             PROVE  LanguageInv'
  OBVIOUS
<1>1. clients + 1 \in 0..MaxClients
  BY LanguageAssumption DEF Spawned, LanguageInv, LanguageTypeOK
<1>2. LanguageTypeOK'
  BY <1>1 DEF Spawned, documentVars, LanguageInv, LanguageTypeOK
<1>3. Unhandled' /\ UntoldUnbound' /\ ToldOnce' /\ ServerMirrors'
  BY DEF Spawned, Unhandled, UntoldUnbound, ToldOnce, ServerMirrors
<1> QED
  BY <1>2, <1>3 DEF LanguageInv

LEMMA StopClientInv == LanguageInv /\ StopClient => LanguageInv'
<1> SUFFICES ASSUME LanguageInv, StopClient
             PROVE  LanguageInv'
  OBVIOUS
<1>1. connected' = FALSE /\ UNCHANGED <<documentVars, clients, initializing, bound, serverVars>>
  BY DEF StopClient
<1>2. LanguageTypeOK'
  BY <1>1 DEF documentVars, serverVars, LanguageInv, LanguageTypeOK
<1>3. Unhandled' /\ UntoldUnbound'
  BY <1>1 DEF documentVars, serverVars, LanguageInv, Unhandled, UntoldUnbound
<1>4. ToldOnce' /\ ServerMirrors'
  BY <1>1 DEF ToldOnce, ServerMirrors
<1> QED
  BY <1>2, <1>3, <1>4 DEF LanguageInv

LEMMA InitializeReturnsInv ==
  ASSUME LanguageInv, NEW ok \in BOOLEAN, InitializeReturns(ok)
  PROVE  LanguageInv'
<1>1. initializing /\ ~bound /\ initializing' = FALSE /\ astray = {}
  BY DEF InitializeReturns, LanguageInv, UntoldUnbound
<1>2. CASE ok
  <2>1. /\ bound' = TRUE /\ Announce(open \cap known, textOf)
        /\ UNCHANGED <<documentVars, clients, astray, connected>>
    BY <1>2 DEF InitializeReturns, OpenWhenBound
  <2>2. /\ handlersOf' \in [Documents -> Nat]
        /\ copy' \in [Documents -> 0..MaxEdits \cup {Unopened, Garbled}]
        /\ \A f \in Documents :
             handlersOf'[f] = handlersOf[f] + (IF f \in open \cap known THEN 1 ELSE 0)
        /\ \A f \in Documents :
             copy'[f] = IF connected /\ f \in open \cap known THEN textOf[f] ELSE copy[f]
    <3>1. open \cap known \in SUBSET Documents /\ textOf \in [Documents -> 0..MaxEdits]
      BY DEF LanguageInv, LanguageTypeOK
    <3> QED
      BY <2>1, <3>1, AnnounceFacts
  <2>3. \A f \in Documents : handlersOf[f] = 0 /\ copy[f] = Unopened
    BY <1>1 DEF LanguageInv, UntoldUnbound
  <2>4. LanguageTypeOK'
    BY <1>1, <2>1, <2>2 DEF documentVars, LanguageInv, LanguageTypeOK
  <2>5. Unhandled' /\ UntoldUnbound' /\ ToldOnce' /\ ServerMirrors'
    BY <1>1, <2>1, <2>2, <2>3 DEF documentVars, Unhandled, UntoldUnbound, ToldOnce, ServerMirrors
  <2> QED
    BY <2>4, <2>5 DEF LanguageInv
<1>3. CASE ~ok
  BY <1>1, <1>3
  DEF InitializeReturns, documentVars, LanguageInv, LanguageTypeOK, Unhandled, UntoldUnbound, ToldOnce,
      ServerMirrors
<1> QED
  BY <1>2, <1>3

LEMMA LoadDocumentInv ==
  ASSUME LanguageInv, NEW f \in Documents, NEW ok \in BOOLEAN, NEW supported \in BOOLEAN,
         LoadDocument(f, ok, supported)
  PROVE  LanguageInv'
<1>1. /\ f \notin open /\ f \notin known /\ open' = open \cup {f}
      /\ known' = IF supported THEN known \cup {f} ELSE known
      /\ textOf' = [textOf EXCEPT ![f] = 0]
      /\ UNCHANGED clientVars
  BY DEF LoadDocument, LanguageInv, LanguageTypeOK
<1>2. /\ textOf' \in [Documents -> 0..MaxEdits] /\ textOf'[f] = 0
      /\ \A g \in Documents : g # f => textOf'[g] = textOf[g]
  BY <1>1, LanguageAssumption DEF LanguageInv, LanguageTypeOK
<1>3. open' \subseteq Documents /\ known' \subseteq open'
  BY <1>1 DEF LanguageInv, LanguageTypeOK
<1>4. CASE bound /\ ok /\ supported
  <2>1. Announce({f}, textOf') /\ astray' = astray \ {f}
    BY <1>4 DEF LoadDocument
  <2>2. /\ handlersOf' \in [Documents -> Nat]
        /\ copy' \in [Documents -> 0..MaxEdits \cup {Unopened, Garbled}]
        /\ \A g \in Documents : handlersOf'[g] = handlersOf[g] + (IF g \in {f} THEN 1 ELSE 0)
        /\ \A g \in Documents : copy'[g] = IF connected /\ g \in {f} THEN textOf'[g] ELSE copy[g]
    <3>1. {f} \in SUBSET Documents
      OBVIOUS
    <3> QED
      BY <1>2, <2>1, <3>1, AnnounceFacts
  <2>3. LanguageTypeOK'
    BY <1>1, <1>2, <1>3, <2>1, <2>2 DEF clientVars, LanguageInv, LanguageTypeOK
  <2>4. handlersOf \in [Documents -> Nat]
    BY DEF LanguageInv, LanguageTypeOK
  <2>5. Unhandled' /\ UntoldUnbound'
    BY <1>1, <1>4, <2>2, <2>4 DEF clientVars, LanguageInv, Unhandled, UntoldUnbound
  <2>6. ASSUME bound, connected, NEW g \in Documents \ astray'
        PROVE  /\ handlersOf'[g] = IF g \in open' \cap known' THEN 1 ELSE 0
               /\ copy'[g] = IF g \in open' \cap known' THEN textOf'[g] ELSE Unopened
    <3>1. CASE g = f
      <4>1. handlersOf[f] = 0
        BY <1>1, <3>1, <1>4 DEF LanguageInv, Unhandled
      <4> QED
        BY <1>1, <1>2, <1>4, <2>2, <2>6, <3>1, <4>1
    <3>2. CASE g # f
      <4>1. /\ handlersOf[g] = IF g \in open \cap known THEN 1 ELSE 0
            /\ copy[g] = IF g \in open \cap known THEN textOf[g] ELSE Unopened
        BY <2>1, <2>6, <3>2 DEF LanguageInv, ToldOnce, ServerMirrors
      <4> QED
        BY <1>1, <1>2, <2>2, <2>4, <2>6, <3>2, <4>1
    <3> QED
      BY <3>1, <3>2
  <2>7. ToldOnce' /\ ServerMirrors'
    BY <1>1, <2>6 DEF clientVars, ToldOnce, ServerMirrors
  <2> QED
    BY <2>3, <2>5, <2>7 DEF LanguageInv
<1>5. CASE ~(bound /\ ok /\ supported)
  <2>1. /\ astray' = IF bound /\ supported THEN astray \cup {f} ELSE astray
        /\ UNCHANGED <<handlersOf, copy>>
    BY <1>5 DEF LoadDocument
  <2>2. LanguageTypeOK'
    BY <1>1, <1>2, <1>3, <2>1 DEF clientVars, LanguageInv, LanguageTypeOK
  <2> QED
    BY <1>1, <1>2, <2>1, <2>2
    DEF clientVars, LanguageInv, Unhandled, UntoldUnbound, ToldOnce, ServerMirrors
<1> QED
  BY <1>4, <1>5

LEMMA ReloadDocumentInv ==
  ASSUME LanguageInv, NEW f \in Documents, ReloadDocument(f)
  PROVE  LanguageInv'
<1>1. /\ f \in open /\ textOf[f] < MaxEdits /\ textOf' = [textOf EXCEPT ![f] = textOf[f] + 1]
      /\ astray' = IF bound THEN astray \cup {f} ELSE astray
      /\ UNCHANGED <<open, known, clientVars>>
  BY DEF ReloadDocument
<1>2. /\ textOf' \in [Documents -> 0..MaxEdits]
      /\ \A g \in Documents : g # f => textOf'[g] = textOf[g]
  BY <1>1, LanguageAssumption DEF LanguageInv, LanguageTypeOK
<1>3. /\ handlersOf' \in [Documents -> Nat]
      /\ copy' \in [Documents -> 0..MaxEdits \cup {Unopened, Garbled}]
      /\ \A g \in Documents : g # f => handlersOf'[g] = handlersOf[g] /\ copy'[g] = copy[g]
      /\ ~bound => UNCHANGED <<handlersOf, copy>>
  <2>1. CASE bound /\ f \in known
    <3>1. Announce({f}, textOf') /\ {f} \in SUBSET Documents
      BY <2>1 DEF ReloadDocument
    <3>2. /\ handlersOf' \in [Documents -> Nat]
          /\ copy' \in [Documents -> 0..MaxEdits \cup {Unopened, Garbled}]
          /\ \A g \in Documents : handlersOf'[g] = handlersOf[g] + (IF g \in {f} THEN 1 ELSE 0)
          /\ \A g \in Documents : copy'[g] = IF connected /\ g \in {f} THEN textOf'[g] ELSE copy[g]
      BY <1>2, <3>1, AnnounceFacts
    <3>3. handlersOf \in [Documents -> Nat]
      BY DEF LanguageInv, LanguageTypeOK
    <3> QED
      BY <2>1, <3>2, <3>3
  <2>2. CASE ~(bound /\ f \in known)
    <3>1. copy' = Told(f) /\ UNCHANGED handlersOf
      BY <2>2 DEF ReloadDocument
    <3>2. ~bound => handlersOf[f] = 0
      BY DEF LanguageInv, UntoldUnbound
    <3> QED
      BY <1>1, <3>1, <3>2, ToldFacts DEF LanguageInv, LanguageTypeOK
  <2> QED
    BY <2>1, <2>2
<1>4. LanguageTypeOK'
  BY <1>1, <1>2, <1>3 DEF clientVars, LanguageInv, LanguageTypeOK
<1>5. Unhandled' /\ UntoldUnbound'
  BY <1>1, <1>3 DEF clientVars, LanguageInv, Unhandled, UntoldUnbound
<1>6. ToldOnce' /\ ServerMirrors'
  BY <1>1, <1>2, <1>3 DEF clientVars, LanguageInv, ToldOnce, ServerMirrors
<1> QED
  BY <1>4, <1>5, <1>6 DEF LanguageInv

LEMMA EditDocumentInv ==
  ASSUME LanguageInv, NEW f \in Documents, EditDocument(f)
  PROVE  LanguageInv'
<1>1. /\ f \in open /\ textOf[f] < MaxEdits /\ textOf' = [textOf EXCEPT ![f] = textOf[f] + 1]
      /\ copy' = Told(f) /\ UNCHANGED <<open, known, clientVars, handlersOf, astray>>
  BY DEF EditDocument
<1>2. /\ textOf' \in [Documents -> 0..MaxEdits] /\ textOf'[f] = textOf[f] + 1
      /\ \A g \in Documents : g # f => textOf'[g] = textOf[g]
  BY <1>1, LanguageAssumption DEF LanguageInv, LanguageTypeOK
<1>3. /\ copy' \in [Documents -> 0..MaxEdits \cup {Unopened, Garbled}]
      /\ \A g \in Documents : g # f => copy'[g] = copy[g]
      /\ handlersOf[f] = 0 => copy' = copy
      /\ connected /\ handlersOf[f] = 1 /\ copy[f] = textOf[f] => copy'[f] = textOf[f] + 1
  BY <1>1, ToldFacts
<1>4. LanguageTypeOK'
  BY <1>1, <1>2, <1>3 DEF clientVars, LanguageInv, LanguageTypeOK
<1>5. Unhandled' /\ UntoldUnbound' /\ ToldOnce'
  BY <1>1, <1>3 DEF clientVars, LanguageInv, Unhandled, UntoldUnbound, ToldOnce
<1>6. ServerMirrors'
  <2>1. SUFFICES ASSUME bound, connected, NEW g \in Documents \ astray
                 PROVE  copy'[g] = IF g \in open \cap known THEN textOf'[g] ELSE Unopened
    BY <1>1 DEF clientVars, ServerMirrors
  <2>2. copy[g] = IF g \in open \cap known THEN textOf[g] ELSE Unopened
    BY <2>1 DEF LanguageInv, ServerMirrors
  <2>3. handlersOf[g] = IF g \in open \cap known THEN 1 ELSE 0
    BY <2>1 DEF LanguageInv, ToldOnce
  <2> QED
    BY <1>1, <1>2, <1>3, <2>1, <2>2, <2>3
<1> QED
  BY <1>4, <1>5, <1>6 DEF LanguageInv

LEMMA RelabelInv ==
  ASSUME LanguageInv, NEW f \in Documents, Relabel(f)
  PROVE  LanguageInv'
  BY DEF Relabel, clientVars, LanguageInv, LanguageTypeOK, Unhandled, UntoldUnbound, ToldOnce,
     ServerMirrors

LEMMA SaveDocumentAsInv ==
  ASSUME LanguageInv, NEW f \in Documents, NEW g \in Documents, SaveDocumentAs(f, g)
  PROVE  LanguageInv'
<1>1. /\ f \in open /\ g \notin open /\ open' = (open \ {f}) \cup {g}
      /\ known' = IF f \in known THEN (known \ {f}) \cup {g} ELSE known
      /\ textOf' = [textOf EXCEPT ![g] = textOf[f]]
      /\ handlersOf' = [handlersOf EXCEPT ![g] = handlersOf[f], ![f] = 0]
      /\ astray' = IF bound THEN astray \cup {f, g} ELSE astray
      /\ UNCHANGED <<clientVars, copy>>
  BY DEF SaveDocumentAs
<1>2. f # g /\ known \subseteq open /\ open \subseteq Documents
  BY <1>1 DEF LanguageInv, LanguageTypeOK
<1>3. /\ textOf' \in [Documents -> 0..MaxEdits] /\ handlersOf' \in [Documents -> Nat]
      /\ \A h \in Documents \ {f, g} : textOf'[h] = textOf[h] /\ handlersOf'[h] = handlersOf[h]
      /\ handlersOf'[g] = handlersOf[f] /\ handlersOf'[f] = 0
  BY <1>1, <1>2 DEF LanguageInv, LanguageTypeOK
<1>4. known' \subseteq open'
  BY <1>1, <1>2 DEF LanguageInv, LanguageTypeOK
<1>5. LanguageTypeOK'
  BY <1>1, <1>2, <1>3, <1>4 DEF clientVars, LanguageInv, LanguageTypeOK
<1>6. Unhandled' /\ UntoldUnbound'
  BY <1>1, <1>2, <1>3 DEF clientVars, LanguageInv, Unhandled, UntoldUnbound
<1>7. ToldOnce' /\ ServerMirrors'
  BY <1>1, <1>3 DEF clientVars, LanguageInv, ToldOnce, ServerMirrors
<1> QED
  BY <1>5, <1>6, <1>7 DEF LanguageInv

LEMMA CloseDocumentInv ==
  ASSUME LanguageInv, NEW f \in Documents, CloseDocument(f)
  PROVE  LanguageInv'
<1>1. /\ f \in open /\ open' = open \ {f} /\ known' = known \ {f}
      /\ handlersOf' = [handlersOf EXCEPT ![f] = 0]
      /\ copy' = IF bound /\ connected /\ f \in known THEN [copy EXCEPT ![f] = Unopened] ELSE copy
      /\ UNCHANGED <<textOf, clientVars, astray>>
  BY DEF CloseDocument, Closed
<1>2. LanguageTypeOK'
  BY <1>1 DEF clientVars, LanguageInv, LanguageTypeOK
<1>3. /\ \A g \in Documents : handlersOf'[g] = IF g = f THEN 0 ELSE handlersOf[g]
      /\ \A g \in Documents : g # f => copy'[g] = copy[g]
      /\ bound /\ connected /\ f \in known => copy'[f] = Unopened
      /\ ~(bound /\ connected /\ f \in known) => copy' = copy
  BY <1>1 DEF LanguageInv, LanguageTypeOK
<1>4. Unhandled' /\ UntoldUnbound' /\ ToldOnce'
  BY <1>1, <1>3 DEF clientVars, LanguageInv, Unhandled, UntoldUnbound, ToldOnce
<1>5. ServerMirrors'
  BY <1>1, <1>3 DEF clientVars, LanguageInv, ServerMirrors
<1> QED
  BY <1>2, <1>4, <1>5 DEF LanguageInv

LEMMA LanguageStepInv == LanguageInv /\ [LanguageNext]_languageVars => LanguageInv'
<1> SUFFICES ASSUME LanguageInv, [LanguageNext]_languageVars
             PROVE  LanguageInv'
  OBVIOUS
<1>1. CASE UNCHANGED languageVars
  BY <1>1
  DEF languageVars, documentVars, clientVars, serverVars, LanguageInv, LanguageTypeOK, Unhandled,
      UntoldUnbound, ToldOnce, ServerMirrors
<1>2. CASE LanguageNext
  BY <1>2, SpawnedInv, StopClientInv, InitializeReturnsInv, LoadDocumentInv, ReloadDocumentInv,
     EditDocumentInv, RelabelInv, SaveDocumentAsInv, CloseDocumentInv
  DEF LanguageNext
<1> QED
  BY <1>1, <1>2

(* The documents, and what the client and the server know of them, keep     *)
(* their types.                                                             *)
THEOREM LanguageTypeCorrectness == LanguageSpec => []LanguageTypeOK
<1>1. LanguageInv => LanguageTypeOK
  BY DEF LanguageInv
<1> QED
  BY LanguageInitInv, LanguageStepInv, <1>1, PTL DEF LanguageSpec

(* An initialized server has the open documents, with the text they have,   *)
(* but for those that were reloaded, renamed, or of another language.       *)
THEOREM ServerHasTheTexts == LanguageSpec => []ServerMirrors
<1>1. LanguageInv => ServerMirrors
  BY DEF LanguageInv
<1> QED
  BY LanguageInitInv, LanguageStepInv, <1>1, PTL DEF LanguageSpec
=============================================================================
