---------------------------- MODULE JobLifecycle ----------------------------
(***************************************************************************)
(* What the build queue promises about a single job, without streams,      *)
(* statements or crashes: the life of a build_jobs row.  BuildQueue shows  *)
(* that the queue, the workers and the API implement it as long as nobody  *)
(* calls requeue_expired.                                                  *)
(***************************************************************************)
EXTENDS Naturals

CONSTANTS Job, Worker, MaxAttempts, None

VARIABLES
  status,    \* status[j]: where job j stands
  tries,     \* tries[j]: how often j has been leased
  lease      \* lease[j]: the worker that holds j, or None

vars == <<status, tries, lease>>

Init ==
  /\ status = [j \in Job |-> "none"]
  /\ tries = [j \in Job |-> 0]
  /\ lease = [j \in Job |-> None]

\* The lease ends and the job moves on to s.
Release(j, s) ==
  /\ status' = [status EXCEPT ![j] = s]
  /\ lease' = [lease EXCEPT ![j] = None]
  /\ UNCHANGED tries

Enqueue(j) == status[j] = "none" /\ Release(j, "queued")

Claim(j, w) ==
  /\ status[j] = "queued"
  /\ tries[j] < MaxAttempts
  /\ status' = [status EXCEPT ![j] = "running"]
  /\ tries' = [tries EXCEPT ![j] = @ + 1]
  /\ lease' = [lease EXCEPT ![j] = w]

Complete(j) == status[j] = "running" /\ Release(j, "completed")

\* Only a job that may be tried again goes back to the queue.
GiveBack(j) ==
  status[j] = "running" /\ tries[j] < MaxAttempts /\ Release(j, "queued")

GiveUp(j) == status[j] = "running" /\ Release(j, "failed")

Cancel(j) == status[j] \in {"queued", "running"} /\ Release(j, "cancelled")

Next ==
  \E j \in Job :
    \/ Enqueue(j) \/ Complete(j) \/ GiveBack(j) \/ GiveUp(j) \/ Cancel(j)
    \/ \E w \in Worker : Claim(j, w)

Spec == Init /\ [][Next]_vars
=============================================================================
