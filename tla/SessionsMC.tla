----------------------------- MODULE SessionsMC -----------------------------
(* Instances of Sessions for TLC.  Requests and accounts are               *)
(* interchangeable, but liveness is checked too, so symmetry is not used.  *)
EXTENDS Sessions, TLC
=============================================================================
