----------------------------- MODULE RunManager -----------------------------
(***************************************************************************)
(* IdeRunManager: a request to run builds and installs, finds out what to  *)
(* run and runs it, one callback after the other, while the user stops it  *)
(* and asks again.  Requests, and their cancellables, are numbered in the  *)
(* order in which they come.                                               *)
(***************************************************************************)
EXTENDS Naturals, Sequences

CONSTANTS
  MaxRuns,        \* bound: requests
  RunHandlers,    \* the ids of the handlers that are ever added
  DefaultHandler, \* "run"
  MaxHandlers     \* bound: handlers that are listed

ASSUME RunManagerAssumption == MaxRuns \in Nat /\ DefaultHandler \in RunHandlers /\ MaxHandlers \in Nat

Runs == 1..MaxRuns

VARIABLES
  asked,          \* how many requests there were
  stage,          \* where they are
  busy,
  cancellable,    \* the request whose it is, 0 for NULL
  cancelTimers,   \* those do_cancel_in_timeout will cancel
  cancelled,
  target,         \* build_target # NULL
  handlers,
  handler,        \* which of them is chosen, 0 for NULL
  dropped,        \* history: those the build manager never answers
  asides          \* history: a request was refused since the run began

runVars == <<asked, stage, busy, cancellable, cancelTimers, cancelled, target, handlers, handler,
             dropped, asides>>
requestVars == <<asked, cancellable, asides>>
cancelVars == <<cancelTimers, cancelled>>
handlerVars == <<handlers, handler>>

Accepted == {r \in Runs : stage[r] \in {"install", "discover", "run"}}

(* mutant of Refuses: nobody is refused *)
RefusesNobody == FALSE

(* ide_run_manager_check_busy *)
Refuses == busy

(* ide_run_manager_run_async, ide_run_manager_do_install_before_run.  The   *)
(* cancellable is replaced also when the request is refused.                *)
RunAsync(with_target) ==
  /\ asked < MaxRuns
  /\ asked' = asked + 1
  /\ cancellable' = asked + 1
  /\ IF Refuses
     THEN /\ stage' = [stage EXCEPT ![asked + 1] = "refused"]
          /\ asides' = TRUE
          /\ UNCHANGED <<busy, target>>
     ELSE /\ stage' = [stage EXCEPT ![asked + 1] = "install"]
          /\ asides' = FALSE
          /\ busy' = TRUE
          /\ target' = (target \/ with_target)
  /\ UNCHANGED <<cancelVars, handlerVars, dropped>>

(* ide_run_manager_task_completed *)
Completed(r) ==
  /\ stage' = [stage EXCEPT ![r] = "done"]
  /\ busy' = FALSE

(* do_run_async: unless there is no runtime, or the handler fails the runner *)
DoRun(r) ==
  \/ stage' = [stage EXCEPT ![r] = "run"] /\ UNCHANGED busy
  \/ Completed(r)

(* mutant of Fails: the task is let go without an answer *)
FailsSilently(r) == UNCHANGED <<stage, busy>>

(* A step of it returned an error.                                          *)
Fails(r) == Completed(r)

(* ide_run_manager_install_cb *)
Installed(r, ok) ==
  /\ stage[r] = "install" /\ r \notin dropped
  /\ ok => r \notin cancelled
  /\ IF ~ok THEN Fails(r)
     ELSE IF target THEN DoRun(r)
     ELSE stage' = [stage EXCEPT ![r] = "discover"] /\ UNCHANGED busy
  /\ UNCHANGED <<requestVars, cancelVars, handlerVars, target, dropped>>

(* The build manager drops the build: ide_build_manager_save_all_cb         *)
(* without a pipeline.                                                      *)
BuildDropped(r) ==
  /\ stage[r] = "install"
  /\ dropped' = dropped \cup {r}
  /\ UNCHANGED <<requestVars, cancelVars, handlerVars, target, stage, busy>>

(* ide_run_manager_discover_default_target_cb, ide_run_manager_run_discover_cb *)
Discovered(r, ok) ==
  /\ stage[r] = "discover"
  /\ ok => r \notin cancelled
  /\ IF ok THEN target' = TRUE /\ DoRun(r) ELSE Fails(r) /\ UNCHANGED target
  /\ UNCHANGED <<requestVars, cancelVars, handlerVars, dropped>>

(* ide_run_manager_run_cb: the program exits, or is killed when cancelled.  *)
RunEnds(r) ==
  /\ stage[r] = "run"
  /\ Completed(r)
  /\ UNCHANGED <<requestVars, cancelVars, handlerVars, target, dropped>>

(* ide_run_manager_cancel *)
CancelRun ==
  /\ cancellable # 0
  /\ cancelTimers' = cancelTimers \cup {cancellable}
  /\ UNCHANGED <<requestVars, stage, busy, target, cancelled, handlerVars, dropped>>

(* do_cancel_in_timeout *)
CancelFires(r) ==
  /\ r \in cancelTimers
  /\ cancelTimers' = cancelTimers \ {r}
  /\ cancelled' = cancelled \cup {r}
  /\ UNCHANGED <<requestVars, stage, busy, target, handlerVars, dropped>>

(* The one among several of that id that is found.                          *)
First(id, i) == handlers[i] = id /\ \A j \in 1..i - 1 : handlers[j] # id

(* ide_run_manager_set_handler *)
SetHandler(id) ==
  /\ \/ \E i \in DOMAIN handlers : First(id, i) /\ handler' = i
     \/ (\A i \in DOMAIN handlers : handlers[i] # id) /\ handler' = 0
  /\ UNCHANGED <<requestVars, stage, busy, target, cancelVars, handlers, dropped>>

(* ide_run_manager_add_handler, also of an id that is listed already.       *)
AddHandler(id) ==
  /\ Len(handlers) < MaxHandlers
  /\ handlers' = Append(handlers, id)
  /\ handler' = IF handler = 0 THEN Len(handlers) + 1 ELSE handler
  /\ UNCHANGED <<requestVars, stage, busy, target, cancelVars, dropped>>

(* mutant of Unchosen: the handler that was freed stays chosen *)
UnchosenNot(i, left) == handler

(* Removing another handler than the chosen one unsets that all the same.   *)
Unchosen(i, left) == IF handler = i /\ left # <<>> THEN 1 ELSE 0

(* ide_run_manager_remove_handler *)
RemoveHandler(id) ==
  \E i \in DOMAIN handlers :
    LET left == SubSeq(handlers, 1, i - 1) \o SubSeq(handlers, i + 1, Len(handlers))
    IN  /\ First(id, i)
        /\ handlers' = left
        /\ handler' = Unchosen(i, left)
        /\ UNCHANGED <<requestVars, stage, busy, target, cancelVars, dropped>>

RunInit ==
  /\ asked = 0 /\ stage = [r \in Runs |-> "none"] /\ busy = FALSE
  /\ cancellable = 0 /\ cancelTimers = {} /\ cancelled = {} /\ target = FALSE
  /\ handlers = <<DefaultHandler>> /\ handler = 1
  /\ dropped = {} /\ asides = FALSE

Answered(r) == (\E ok \in BOOLEAN : Installed(r, ok) \/ Discovered(r, ok)) \/ RunEnds(r)

RunNext ==
  \/ \E with_target \in BOOLEAN : RunAsync(with_target)
  \/ CancelRun
  \/ \E r \in Runs : Answered(r) \/ BuildDropped(r) \/ CancelFires(r)
  \/ \E id \in RunHandlers : SetHandler(id) \/ AddHandler(id) \/ RemoveHandler(id)

(* The timeout fires, and what was cancelled answers.                       *)
RunFairness ==
  \A r \in Runs : WF_runVars(CancelFires(r)) /\ WF_runVars(r \in cancelled /\ Answered(r))

RunSpec == RunInit /\ [][RunNext]_runVars

-----------------------------------------------------------------------------
Stages == {"none", "refused", "install", "discover", "run", "done"}

(* The chosen handler is one of those that were not freed.                  *)
RunTypeOK ==
  /\ asked \in 0..MaxRuns /\ stage \in [Runs -> Stages] /\ busy \in BOOLEAN
  /\ cancellable \in 0..asked /\ cancelTimers \subseteq 1..asked /\ cancelled \subseteq 1..asked
  /\ target \in BOOLEAN
  /\ handlers \in Seq(RunHandlers) /\ handler \in 0..Len(handlers)
  /\ dropped \subseteq 1..asked /\ asides \in BOOLEAN

(* The run manager "enforces that only a single target may be run at a      *)
(* time": it is busy exactly while one request is being served, whichever   *)
(* of its steps fails, and then stopping means that one, unless somebody    *)
(* asked in between and was refused.                                        *)
OneRunAtATime ==
  /\ \A r, s \in Accepted : r = s
  /\ busy <=> Accepted # {}
  /\ \A r \in Accepted : asides \/ cancellable = r

(* A run that is cancelled comes to its end, from any of its steps, and the *)
(* next one is possible; but for one the build manager dropped.             *)
Cancelling == \E r \in Accepted \ dropped : r \in cancelTimers \cup cancelled
CancelledRunsEnd == Cancelling ~> ~Cancelling
=============================================================================
