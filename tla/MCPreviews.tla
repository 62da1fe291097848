----------------------------- MODULE MCPreviews -----------------------------
(* The life of one pull request, and a push, for TLC.  Commits are numbers, *)
(* in the order in which they were pushed.                                 *)
EXTENDS Previews, TLC

\* A pull request on GitHub is opened, changed and closed, which may arrive in any
\* order, and a branch is pushed; the last delivery is a GitLab merge request that
\* was merged, which parse_event refuses.
MCPayload ==
  1 :> [provider |-> "github", word |-> "opened", sha |-> 1] @@
  2 :> [provider |-> "github", word |-> "synchronize", sha |-> 2] @@
  3 :> [provider |-> "github", word |-> "closed", sha |-> 2] @@
  4 :> [provider |-> "github", word |-> "push", sha |-> 2] @@
  5 :> [provider |-> "gitlab", word |-> "merge", sha |-> 2]

ActorSymmetry == Permutations(Actor)
=============================================================================
