---------------------------- MODULE OAuthFlowMC ----------------------------
(* Instances of OAuthFlow for TLC.                                         *)
EXTENDS OAuthFlow, TLC

\* Everything but None is interchangeable.  (Not used for liveness.)
Symmetry == Permutations(Flows) \cup Permutations(Callbacks)
              \cup Permutations(Instances) \cup Permutations(Verifiers)
=============================================================================
