------------------------ MODULE SubprocessSupervisor ------------------------
(***************************************************************************)
(* IdeSubprocessSupervisor: keeps a subprocess running, which language     *)
(* servers are.  It is started and stopped while the subprocess exits, its *)
(* exit is on the way, or a restart is delayed.  Subprocesses are numbered *)
(* in the order in which they are spawned.                                 *)
(***************************************************************************)
EXTENDS Naturals

CONSTANTS
  MaxSpawns,      \* bound: subprocesses
  MaxRestarts     \* bound: restarts that are delayed at the same time

ASSUME SupervisorAssumption == MaxSpawns \in Nat /\ MaxRestarts \in Nat

VARIABLES
  supervising,
  subprocess,     \* 0 for NULL
  spawned,        \* how many there were
  alive,          \* those that run
  exited,         \* those wait_cb has not been called for yet
  killed,         \* those ide_subprocess_force_exit was called for
  restarts,       \* how many restarts are delayed
  spawnFailed     \* history: the last attempt to spawn one failed

supervisorVars == <<supervising, subprocess, spawned, alive, exited, killed, restarts, spawnFailed>>

(* mutant of Killed: a subprocess that is dropped goes on *)
KilledNone(current) == killed

(* ide_subprocess_supervisor_reset *)
Killed(current) == killed \cup ({current} \ {0})

(* ide_subprocess_supervisor_real_supervise: the current subprocess makes   *)
(* place for another one.                                                   *)
Supervise(current) ==
  /\ supervising' = TRUE
  /\ killed' = Killed(current)
  /\ \/ /\ spawned < MaxSpawns
        /\ spawned' = spawned + 1
        /\ subprocess' = spawned + 1
        /\ alive' = alive \cup {spawned + 1}
        /\ spawnFailed' = FALSE
     \/ subprocess' = 0 /\ spawnFailed' = TRUE /\ UNCHANGED <<spawned, alive>>

(* ide_subprocess_supervisor_start *)
Start == Supervise(subprocess) /\ UNCHANGED <<exited, restarts>>

(* mutant of Unsupervised: a supervisor that is stopped goes on supervising *)
UnsupervisedNot == supervising

Unsupervised == FALSE

(* ide_subprocess_supervisor_stop, ide_subprocess_supervisor_real_unsupervise *)
Stop ==
  /\ supervising' = Unsupervised
  /\ killed' = Killed(subprocess) /\ subprocess' = 0
  /\ UNCHANGED <<spawned, alive, exited, restarts, spawnFailed>>

(* A subprocess exits, by itself or because it was forced to.               *)
Exits(p) ==
  /\ p \in alive
  /\ alive' = alive \ {p} /\ exited' = exited \cup {p}
  /\ UNCHANGED <<supervising, subprocess, spawned, killed, restarts, spawnFailed>>

(* ide_subprocess_supervisor_wait_cb, limited by                            *)
(* ide_subprocess_supervisor_needs_rate_limit                               *)
WaitCb(p, limited) ==
  /\ p \in exited
  /\ exited' = exited \ {p}
  /\ IF p # subprocess
     THEN UNCHANGED <<supervising, subprocess, spawned, alive, killed, restarts, spawnFailed>>
     ELSE IF supervising /\ ~limited
     THEN /\ Supervise(0)
          /\ UNCHANGED restarts
     ELSE /\ subprocess' = 0
          /\ restarts' = IF supervising THEN restarts + 1 ELSE restarts
          /\ limited => restarts < MaxRestarts
          /\ UNCHANGED <<supervising, spawned, alive, killed, spawnFailed>>

(* ide_subprocess_supervisor_start_in_usec_cb, whatever happened since      *)
RestartFires ==
  /\ restarts > 0
  /\ restarts' = restarts - 1
  /\ Supervise(subprocess)
  /\ UNCHANGED exited

SupervisorInit ==
  /\ supervising = FALSE /\ subprocess = 0 /\ spawned = 0
  /\ alive = {} /\ exited = {} /\ killed = {} /\ restarts = 0 /\ spawnFailed = FALSE

SupervisorNext ==
  \/ Start \/ Stop \/ RestartFires
  \/ \E p \in 1..MaxSpawns : Exits(p) \/ \E limited \in BOOLEAN : WaitCb(p, limited)

SupervisorSpec == SupervisorInit /\ [][SupervisorNext]_supervisorVars

-----------------------------------------------------------------------------
SupervisorTypeOK ==
  /\ supervising \in BOOLEAN /\ spawned \in 0..MaxSpawns /\ subprocess \in 0..spawned
  /\ alive \subseteq 1..spawned /\ exited \subseteq 1..spawned /\ killed \subseteq 1..spawned
  /\ restarts \in 0..MaxRestarts /\ spawnFailed \in BOOLEAN

(* Whoever drops a subprocess has forced it to exit: none runs that nobody  *)
(* will ever stop.                                                          *)
NoOrphan == \A p \in alive \ killed : p = subprocess

(* A subprocess is there only while it is supervised, and while it is       *)
(* supervised it is there, or its restart is on the way, or it could not be *)
(* spawned, which nobody tries again.                                       *)
UpWhileSupervised ==
  /\ subprocess # 0 => supervising
  /\ supervising /\ subprocess = 0 => restarts > 0 \/ spawnFailed
=============================================================================
