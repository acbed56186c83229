---------------------------- MODULE ListCacheMC ----------------------------
(* Instances of ListCache for TLC.                                         *)
EXTENDS ListCache, TLC

\* Requests and keys are interchangeable.
Symmetry == Permutations(Lists) \cup Permutations(Writes) \cup Permutations(Keys)
=============================================================================
