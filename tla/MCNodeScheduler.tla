-------------------------- MODULE MCNodeScheduler --------------------------
(* Two releases of different size for TLC.                                 *)
EXTENDS NodeScheduler, TLC

CONSTANTS r1, r2

MCRelease == {r1, r2}

\* The larger release fits only once on a node of the smaller total.
MCSize == (r1 :> 1) @@ (r2 :> 2)

CallerSymmetry == Permutations(Caller)

HandlerSymmetry == Permutations(Handler)
=============================================================================
