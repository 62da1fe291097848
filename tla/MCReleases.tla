----------------------------- MODULE MCReleases -----------------------------
(* Small instances of Releases for TLC.                                    *)
EXTENDS Releases, TLC

\* Orchestrations are told apart by no action and by no
\* safety property.
OpSymmetry == Permutations(Op)
=============================================================================
