------------------------- MODULE Components_proofs -------------------------
(***************************************************************************)
(* What is proved of each component holds of the instance all of them are  *)
(* checked in together: a behaviour of ComponentsSpec is one of every      *)
(* component's own specification.                                          *)
(***************************************************************************)
EXTENDS MCComponents, Buffers_proofs, Services_proofs, Unload_proofs

LEMMA ComponentsInitEach ==
  ComponentsInit => /\ Init /\ RunInit /\ SupervisorInit /\ WorkersInit /\ DraftsInit
                    /\ ContextInit /\ LanguageInit
BY DEF ComponentsInit

LEMMA ComponentsStepEach ==
  ASSUME [ComponentsNext]_allVars
  PROVE  /\ [Next]_vars /\ [RunNext]_runVars /\ [SupervisorNext]_supervisorVars
         /\ [WorkersNext]_workerVars /\ [DraftsNext]_draftVars /\ [ContextNext]_contextVars
         /\ [LanguageNext]_languageVars
<1>1. CASE BuffersStep
  BY <1>1 DEF BuffersStep
<1>2. CASE RunStep
  BY <1>2 DEF RunStep
<1>3. CASE SupervisorStep
  BY <1>3 DEF SupervisorStep
<1>4. CASE WorkersStep
  BY <1>4 DEF WorkersStep
<1>5. CASE DraftsStep
  BY <1>5 DEF DraftsStep
<1>6. CASE ContextStep
  BY <1>6 DEF ContextStep
<1>7. CASE LanguageStep
  BY <1>7 DEF LanguageStep
<1>8. CASE UNCHANGED allVars
  BY <1>8 DEF allVars
<1> QED
  BY <1>1, <1>2, <1>3, <1>4, <1>5, <1>6, <1>7, <1>8 DEF ComponentsNext

(* The composed instance adds no behaviour to any component.                *)
THEOREM ComponentsImplementEach ==
  ComponentsSpec => /\ Spec /\ RunSpec /\ SupervisorSpec /\ WorkersSpec /\ DraftsSpec
                    /\ ContextSpec /\ LanguageSpec
BY ComponentsInitEach, ComponentsStepEach, PTL
DEF ComponentsSpec, Spec, RunSpec, SupervisorSpec, WorkersSpec, DraftsSpec, ContextSpec, LanguageSpec

(* Every component's state has its type, in every reachable state.          *)
THEOREM ComponentsTypesCorrect == ComponentsSpec => []ComponentsTypeOK
BY ComponentsImplementEach, BuffersTypeCorrectness, RunTypeCorrectness, SupervisorTypeCorrectness,
   WorkersTypeCorrectness, DraftsTypeCorrectness, ContextTypeCorrectness, LanguageTypeCorrectness,
   PTL DEF ComponentsTypeOK

(* No subprocess of a supervisor, and no worker, is ever lost track of.     *)
THEOREM NothingIsOrphaned == ComponentsSpec => []NoOrphans
BY ComponentsImplementEach, NoSubprocessIsLost, NoWorkerIsLost, PTL DEF NoOrphans
=============================================================================
