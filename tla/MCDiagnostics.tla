--------------------------- MODULE MCDiagnostics ---------------------------
(* Instances of Diagnostics for TLC. *)
EXTENDS Diagnostics

(* A buffer of one language has both providers, of the other only the second. *)
TwoLanguages == {{1, 2}, {2}}
=============================================================================
