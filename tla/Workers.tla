------------------------------ MODULE Workers ------------------------------
(***************************************************************************)
(* IdeWorkerManager and its IdeWorkerProcesses, one for each plugin that   *)
(* has asked for a worker: they are spawned, connect back, die and are     *)
(* respawned, until the manager shuts down.  Subprocesses and requests are *)
(* numbered in the order in which they come.                               *)
(***************************************************************************)
EXTENDS Naturals

CONSTANTS
  Plugins,
  MaxWorkers,     \* bound: subprocesses
  MaxRequests     \* bound: requests for a proxy

ASSUME WorkersAssumption == MaxWorkers \in Nat /\ MaxRequests \in Nat /\ Plugins # {}

Pids == 1..MaxWorkers

VARIABLES
  serving,        \* plugin_name_to_worker and dbus_server are there
  workers,        \* plugin_name_to_worker
  quit,           \* the plugins whose process was told to quit
  current,        \* IdeWorkerProcess.subprocess, 0 for NULL
  connection,     \* the subprocess at the other end, 0 for NULL
  tasks,          \* the requests that wait for a connection
  requests,       \* how many there were
  pids,           \* how many subprocesses there were
  plugin,         \* whose they are
  living,
  unreaped,       \* those wait_check_cb has not been called for yet
  forced,         \* those g_subprocess_force_exit was called for
  neverAnswered   \* history: the requests nobody will answer

workerVars == <<serving, workers, quit, current, connection, tasks, requests, pids, plugin, living,
                unreaped, forced, neverAnswered>>

(* ide_worker_process_respawn: nobody tries again when it fails.            *)
Respawn(p) ==
  \/ /\ pids < MaxWorkers
     /\ pids' = pids + 1
     /\ plugin' = [plugin EXCEPT ![pids + 1] = p]
     /\ living' = living \cup {pids + 1}
     /\ current' = [current EXCEPT ![p] = pids + 1]
  \/ current' = [current EXCEPT ![p] = 0] /\ UNCHANGED <<pids, plugin, living>>

(* ide_worker_process_get_proxy_async: at once with a connection, also with *)
(* that of a subprocess that has died.                                      *)
GetProxy(p) ==
  tasks' = IF connection[p] # 0 THEN tasks
                                ELSE [tasks EXCEPT ![p] = @ \cup {requests + 1}]

(* ide_worker_manager_get_worker_async.  Once the manager has shut down,    *)
(* there is no process to ask and the task is forgotten.                    *)
GetWorker(p) ==
  /\ requests < MaxRequests
  /\ requests' = requests + 1
  /\ workers' = IF serving THEN workers \cup {p} ELSE workers
  /\ IF serving THEN GetProxy(p) /\ UNCHANGED neverAnswered
                ELSE neverAnswered' = neverAnswered \cup {requests + 1} /\ UNCHANGED tasks
  /\ IF serving /\ p \notin workers THEN Respawn(p)
                                    ELSE UNCHANGED <<pids, plugin, living, current>>
  /\ UNCHANGED <<serving, quit, connection, unreaped, forced>>

(* A subprocess dies, by itself or because it was forced to.                *)
WorkerDies(pid) ==
  /\ pid \in living
  /\ living' = living \ {pid} /\ unreaped' = unreaped \cup {pid}
  /\ UNCHANGED <<serving, workers, quit, current, connection, tasks, requests, pids, plugin, forced,
                 neverAnswered>>

(* ide_worker_process_wait_check_cb clears the subprocess there is.         *)
WaitCheck(pid) ==
  LET p == plugin[pid]
  IN  /\ pid \in unreaped
      /\ unreaped' = unreaped \ {pid}
      /\ IF p \in quit
         THEN current' = [current EXCEPT ![p] = 0] /\ UNCHANGED <<pids, plugin, living>>
         ELSE Respawn(p)
      /\ UNCHANGED <<serving, workers, quit, connection, tasks, requests, forced, neverAnswered>>

Answering(p) == tasks' = [tasks EXCEPT ![p] = {}]

(* ide_worker_manager_new_connection_cb, ide_worker_process_set_connection: *)
(* only of the subprocess a process has now.                                *)
Connect(pid) ==
  LET p == plugin[pid]
  IN  /\ pid \in living
      /\ serving /\ p \in workers /\ current[p] = pid /\ connection[p] # pid
      /\ connection' = [connection EXCEPT ![p] = pid]
      /\ Answering(p)
      /\ UNCHANGED <<serving, workers, quit, current, requests, pids, plugin, living, unreaped,
                     forced, neverAnswered>>

Quitting == quit \cup workers

(* ide_worker_manager_shutdown: ide_worker_process_quit of every process.   *)
(* What waited for a connection is let go with its process.                 *)
Shutdown ==
  /\ serving
  /\ serving' = FALSE
  /\ workers' = {}
  /\ quit' = Quitting
  /\ forced' = forced \cup ({current[p] : p \in workers} \ {0})
  /\ current' = [p \in Plugins |-> IF p \in workers THEN 0 ELSE current[p]]
  /\ neverAnswered' = neverAnswered \cup UNION {tasks[p] : p \in workers}
  /\ tasks' = [p \in Plugins |-> IF p \in workers THEN {} ELSE tasks[p]]
  /\ UNCHANGED <<connection, requests, pids, plugin, living, unreaped>>

WorkersInit ==
  /\ serving = TRUE /\ workers = {} /\ quit = {}
  /\ current = [p \in Plugins |-> 0] /\ connection = [p \in Plugins |-> 0]
  /\ tasks = [p \in Plugins |-> {}] /\ requests = 0
  /\ pids = 0 /\ plugin = [pid \in Pids |-> CHOOSE p \in Plugins : TRUE]
  /\ living = {} /\ unreaped = {} /\ forced = {} /\ neverAnswered = {}

WorkersNext ==
  \/ \E p \in Plugins : GetWorker(p)
  \/ \E pid \in Pids : WorkerDies(pid) \/ WaitCheck(pid) \/ Connect(pid)
  \/ Shutdown

WorkersSpec == WorkersInit /\ [][WorkersNext]_workerVars

-----------------------------------------------------------------------------
WorkersTypeOK ==
  /\ serving \in BOOLEAN /\ workers \subseteq Plugins /\ quit \subseteq Plugins
  /\ pids \in 0..MaxWorkers /\ requests \in 0..MaxRequests
  /\ current \in [Plugins -> 0..pids] /\ connection \in [Plugins -> 0..pids]
  /\ tasks \in [Plugins -> SUBSET (1..requests)]
  /\ plugin \in [Pids -> Plugins]
  /\ living \subseteq 1..pids /\ unreaped \subseteq 1..pids /\ forced \subseteq 1..pids
  /\ neverAnswered \subseteq 1..requests

(* A worker that was not forced to exit is the one its process knows of, so *)
(* that shutting down forces it, whether it died and was respawned or not;  *)
(* and after the shutdown none comes back.                                  *)
NoOrphanWorker ==
  \A pid \in living \ forced : serving /\ plugin[pid] \in workers /\ current[plugin[pid]] = pid

(* Nobody waits for a connection that is there.                             *)
WaitForConnection == \A p \in Plugins : tasks[p] # {} => connection[p] = 0 /\ serving
=============================================================================
