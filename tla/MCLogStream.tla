---------------------------- MODULE MCLogStream ----------------------------
(* One deployment, its attempts and one reader of its log, for TLC.        *)
EXTENDS LogStream

\* The second attempt repeats the numbers of the first and goes on.
AttemptLines == <<1, 3>>
============================================================================
