---------------------------- MODULE ApiAccessMC ----------------------------
(* Instances of ApiAccess for TLC.                                         *)
EXTENDS ApiAccess, TLC

CONSTANTS u1, u2

\* The tokens are those of u1 and of u2, in this order.
HolderMC == <<u1, u2>>

\* Requests are interchangeable.
Symmetry == Permutations(Calls)
=============================================================================
