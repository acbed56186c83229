---------------------------- MODULE ImportCSVMC ----------------------------
(* Instances of ImportCSV for TLC.                                         *)
EXTENDS ImportCSV, TLC

CONSTANTS ann, bob

\* With ChunkSize = 3 and SubBatch = 2: a full batch that holds a duplicate and
\* makes two pieces, the second short, then a short batch; and a short batch of
\* the same people between rows that are skipped.
MCFiles == { <<ann, ann, bob, ann>>, <<Malformed, ann, Invalid, bob>> }

\* More rows than the channel holds when ChunkSize = 1.
MCLongFiles == { <<ann, Invalid, bob, Malformed>> }

\* Uploads are interchangeable.  (Not used for liveness.)
Symmetry == Permutations(Uploads)
=============================================================================
