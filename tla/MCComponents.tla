---------------------------- MODULE MCComponents ----------------------------
(***************************************************************************)
(* Instances for TLC of the components that share no state with each       *)
(* other: a behaviour is one of a single component, live.  The others stay *)
(* as they were initially, where none of their fair actions is enabled.    *)
(***************************************************************************)
EXTENDS Buffers, RunManager, SubprocessSupervisor, Workers, UnsavedFiles, ContextUnload,
  LanguageClient

VARIABLE live

allVars == <<vars, runVars, supervisorVars, workerVars, draftVars, contextVars, languageVars, live>>

ComponentsInit ==
  /\ Init /\ RunInit /\ SupervisorInit /\ WorkersInit /\ DraftsInit /\ ContextInit /\ LanguageInit
  /\ live \in {"buffers", "runs", "supervisor", "workers", "drafts", "context", "language"}

BuffersStep ==
  /\ live = "buffers" /\ Next
  /\ UNCHANGED <<runVars, supervisorVars, workerVars, draftVars, contextVars, languageVars, live>>
RunStep ==
  /\ live = "runs" /\ RunNext
  /\ UNCHANGED <<vars, supervisorVars, workerVars, draftVars, contextVars, languageVars, live>>
SupervisorStep ==
  /\ live = "supervisor" /\ SupervisorNext
  /\ UNCHANGED <<vars, runVars, workerVars, draftVars, contextVars, languageVars, live>>
WorkersStep ==
  /\ live = "workers" /\ WorkersNext
  /\ UNCHANGED <<vars, runVars, supervisorVars, draftVars, contextVars, languageVars, live>>
DraftsStep ==
  /\ live = "drafts" /\ DraftsNext
  /\ UNCHANGED <<vars, runVars, supervisorVars, workerVars, contextVars, languageVars, live>>
ContextStep ==
  /\ live = "context" /\ ContextNext
  /\ UNCHANGED <<vars, runVars, supervisorVars, workerVars, draftVars, languageVars, live>>
LanguageStep ==
  /\ live = "language" /\ LanguageNext
  /\ UNCHANGED <<vars, runVars, supervisorVars, workerVars, draftVars, contextVars, live>>

ComponentsNext ==
  BuffersStep \/ RunStep \/ SupervisorStep \/ WorkersStep \/ DraftsStep \/ ContextStep
  \/ LanguageStep

ComponentsSpec ==
  ComponentsInit /\ [][ComponentsNext]_allVars /\ Fairness /\ RunFairness /\ ContextFairness

(* Every component's state has its type.                                    *)
ComponentsTypeOK ==
  /\ TypeOK /\ RunTypeOK /\ SupervisorTypeOK /\ WorkersTypeOK /\ DraftsTypeOK /\ ContextTypeOK
  /\ LanguageTypeOK

(* No subprocess of a supervisor, and no worker, runs that nobody knows of  *)
(* and nobody has forced to exit.                                           *)
NoOrphans == NoOrphan /\ NoOrphanWorker
=============================================================================
