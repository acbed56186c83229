----------------------------- MODULE ProfilesMC -----------------------------
(* An instance of Profiles for TLC.                                        *)
EXTENDS Profiles, TLC

\* One person in two spellings; the seeds have a space, so no POST makes one.
MCSpellings == {"Mary", "mary", "Awino Hassan", "Mercy Agyei"}
MCPostable == {"Mary", "mary"}
MCLower == [s \in MCSpellings |-> IF s = "Mary" THEN "mary" ELSE s]
MCSeeds == {"Awino Hassan", "Mercy Agyei"}


\* Requests, processes and services are interchangeable.
Symmetry == Permutations(Creates) \cup Permutations(Processes) \cup Permutations(Apis)
=============================================================================
