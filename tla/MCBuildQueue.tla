---------------------------- MODULE MCBuildQueue ----------------------------
(* Small instances of BuildQueue for TLC.                                  *)
EXTENDS BuildQueue, TLC

\* Worker ids are interchangeable: no action and no safety property tells
\* one from another.
WorkerSymmetry == Permutations(Worker)
=============================================================================
