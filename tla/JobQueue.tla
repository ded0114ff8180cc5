------------------------------ MODULE JobQueue ------------------------------
(***************************************************************************)
(* What an IdeBuildPipeline promises the callers of its execute, clean and *)
(* rebuild operations, whatever the operations do: the jobs it accepts are *)
(* started in the order in which they were accepted, at most one of them   *)
(* is being worked on at any time, and every job is answered once.         *)
(* BuildPipeline is shown to implement this module.                        *)
(***************************************************************************)
EXTENDS Naturals, Sequences

CONSTANT Jobs

VARIABLES waiting,  \* the accepted jobs that have not started, oldest first
          serving,  \* the jobs being worked on: none, or a single one
          state     \* what has become of each job

jobVars == <<waiting, serving, state>>

Answers == {"ok", "error"}

Init ==
  /\ waiting = <<>>
  /\ serving = {}
  /\ state = [j \in Jobs |-> "new"]

(* A job is accepted and has to wait for its turn. *)
Accept(j) ==
  /\ state[j] = "new"
  /\ waiting' = Append(waiting, j)
  /\ state' = [state EXCEPT ![j] = "queued"]
  /\ UNCHANGED serving

(* There is nothing to do for the job: it is answered and never waits. *)
AnswerAtOnce(j) ==
  /\ state[j] = "new"
  /\ \E a \in Answers : state' = [state EXCEPT ![j] = a]
  /\ UNCHANGED <<waiting, serving>>

(* The oldest job is taken up; it may turn out to be done already. *)
Start ==
  /\ serving = {}
  /\ waiting # <<>>
  /\ waiting' = Tail(waiting)
  /\ \/ /\ serving' = {Head(waiting)}
        /\ state' = [state EXCEPT ![Head(waiting)] = "running"]
     \/ /\ \E a \in Answers : state' = [state EXCEPT ![Head(waiting)] = a]
        /\ UNCHANGED serving

(* The job being worked on is answered. *)
Finish(j) ==
  /\ j \in serving
  /\ serving' = {}
  /\ \E a \in Answers : state' = [state EXCEPT ![j] = a]
  /\ UNCHANGED waiting

(* No job can be worked on (there is no build directory): all are refused. *)
RefuseAll ==
  /\ serving = {}
  /\ waiting # <<>>
  /\ waiting' = <<>>
  /\ state' = [j \in Jobs |-> IF state[j] = "queued" THEN "error" ELSE state[j]]
  /\ UNCHANGED serving

Next ==
  \/ \E j \in Jobs : Accept(j) \/ AnswerAtOnce(j) \/ Finish(j)
  \/ Start
  \/ RefuseAll

Spec == Init /\ [][Next]_jobVars
=============================================================================
