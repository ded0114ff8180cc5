--------------------------- MODULE MCBuildManager ---------------------------
(* Instances of BuildManager for TLC. *)
EXTENDS BuildManager, TLC

CONSTANTS t1, t2, t3, t4

EachKind == t1 :> "build" @@ t2 :> "configure" @@ t3 :> "rebuild" @@ t4 :> "clean"
TwoBuilds == t1 :> "build" @@ t2 :> "build"
=============================================================================
