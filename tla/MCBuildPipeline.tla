-------------------------- MODULE MCBuildPipeline --------------------------
(* Instances of BuildPipeline for TLC: each operator is the value of one   *)
(* constant in some configuration.                                         *)
EXTENDS BuildPipeline, TLC

CONSTANTS s1, s2, s3, s4, t1, t2, t3

Plainly == [s \in Stages |-> 0]
NoPriority == [s \in Stages |-> 0]
NoQuery == [s \in Stages |-> {}]
AllLoaded == [s \in Stages |-> 1]

(* The stages of the autotools plugin: one that brings up configure and may *)
(* be asked anything, make all, a disabled stage, and make install, which   *)
(* make all takes over when it is requested too.                            *)
MakePhaseOf == s1 :> 1 @@ s2 :> 1 @@ s3 :> 2 @@ s4 :> 1
MakeWhence == s1 :> -1 @@ s2 :> 0 @@ s3 :> 0 @@ s4 :> 1
MakePriority == s1 :> 5 @@ s2 :> 0 @@ s3 :> 0 @@ s4 :> 0
MakeQuery == s1 :> {"keep", "done", "stale", "pause"} @@ s2 :> {"stale"} @@ s3 :> {"stale"} @@ s4 :> {}
MakeChains == {<<s2, s3>>}

(* A stage in each of two phases, the first of which may find itself stale  *)
(* or be paused.                                                             *)
TwoPhaseOf == s1 :> 1 @@ s2 :> 2
TwoQuery == s1 :> {"stale", "keep", "pause"} @@ s2 :> {}
EachKind == t1 :> "build" @@ t2 :> "clean" @@ t3 :> "rebuild"

(* An addin's stage s1 and a build command s2 of the first load, the same   *)
(* command s4 of the second load, and a stage s3 some plugin connects.      *)
ShapePhaseOf == s1 :> 1 @@ s2 :> 1 @@ s3 :> 2 @@ s4 :> 1
ShapeWhence == s1 :> 0 @@ s2 :> 1 @@ s3 :> 0 @@ s4 :> 1
ShapeBatch == s1 :> 1 @@ s2 :> 1 @@ s3 :> 0 @@ s4 :> 2

BuildOnly == [t \in Tasks |-> "build"]
BuildClean == t1 :> "build" @@ t2 :> "clean"
=============================================================================
