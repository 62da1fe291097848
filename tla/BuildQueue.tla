----------------------------- MODULE BuildQueue -----------------------------
(***************************************************************************)
(* The durable build queue (src/queue.rs) with the worker loop that drains *)
(* it (src/worker.rs) and the API requests that feed it (src/api.rs).      *)
(*                                                                         *)
(* PostgreSQL (build_jobs, build_attempts, deployments) is the source of   *)
(* truth, two Redis streams carry job ids to the workers.  Nothing spans   *)
(* both stores, so every SQL statement and every Redis command is a step   *)
(* of its own and any two operations may interleave between statements.    *)
(*                                                                         *)
(* build_jobs is UNIQUE(deployment_id), so a job is named by its           *)
(* deployment.  The entry a worker has read is remembered in its local     *)
(* state; Redis keeps it in the consumer group's pending list as well, but *)
(* nothing in the code ever reads that list (no XAUTOCLAIM, no XREADGROUP  *)
(* from 0), so XACK ends the handling of an entry and changes no state.    *)
(***************************************************************************)
EXTENDS Naturals, Sequences

CONSTANTS
  Deployment,    \* deployment ids the API may mint
  Worker,        \* worker ids; each worker is one build-worker process
  Client,        \* API requests that may be in flight at a time
  MaxAttempts,   \* build_jobs.max_attempts
  ReaperRuns,    \* whether some process calls BuildQueue::requeue_expired
  MaxCrashes,    \* bound on the number of interrupted operations
  CrashKinds,    \* which operations may be interrupted
  None           \* SQL NULL

ASSUME ConstantsAssumption ==
  /\ MaxAttempts \in Nat \ {0}
  /\ MaxCrashes \in Nat
  /\ ReaperRuns \in BOOLEAN
  /\ CrashKinds \subseteq {"worker", "request", "reaper"}
  /\ None \notin Worker
  /\ None \notin Deployment

VARIABLES
  job,           \* build_jobs: status, attempt, lease_owner, priority
  expired,       \* expired[d]: lease_expires_at of d lies in the past
  attempts,      \* build_attempts, keyed by (job_id, attempt_number)
  deployment,    \* deployments.status
  stream,        \* entries of the two streams not delivered to the group yet
  prodClaims,    \* prod_claims_counter of each worker process
  wk,            \* local state of each worker's run_once
  req,           \* local state of each API request
  reaper,        \* local state of requeue_expired
  builds,        \* history: pipelines started per job
  crashes        \* history: operations interrupted so far

db      == <<job, expired, attempts, deployment>>
history == <<builds, crashes>>
vars    == <<db, stream, prodClaims, wk, req, reaper, history>>

Priority  == {"production", "preview"}
JobStatus == {"none", "queued", "running", "completed", "failed", "cancelled"}
DeploymentStatus ==
  {"none", "queued", "building", "running", "failed", "cancelled"}

\* Where run_once, claim, ack and fail can be between two statements.
WorkerPC == {"idle", "read", "lease", "record", "mark", "check", "workspace",
             "building", "succeeded", "ack", "ackAttempt", "fatal",
             "failRead", "requeue", "requeued", "republish",
             "bury", "buried", "buryMark"}

\* Where enqueue and cancel_deployment can be between two statements.
RequestPC == {"idle", "insertJob", "publish", "markQueued",
              "cancelJob", "cancelMark", "cancelDeployment"}

ReaperPC == {"idle", "scan", "publish", "bury"}

IdleWorker ==
  [pc |-> "idle", job |-> None, streams |-> <<>>, attempt |-> 0,
   retryable |-> FALSE]

IdleRequest == [pc |-> "idle", job |-> None, priority |-> "production"]

IdleReaper == [pc |-> "idle", rows |-> {}, job |-> None]

NoRow == [status |-> "none", worker |-> None]

JobRow == [status : JobStatus, attempt : 0..MaxAttempts,
           owner : Worker \cup {None}, priority : Priority]

AttemptRow == [status : {"none", "running", "succeeded", "failed"},
               worker : Worker \cup {None}]

WorkerState == [pc : WorkerPC, job : Deployment \cup {None},
                streams : Seq(Priority), attempt : 0..MaxAttempts,
                retryable : BOOLEAN]

RequestState == [pc : RequestPC, job : Deployment \cup {None},
                 priority : Priority]

ReaperState == [pc : ReaperPC, job : Deployment \cup {None},
                rows : SUBSET [id : Deployment, attempt : 0..MaxAttempts]]

TypeOK ==
  /\ job \in [Deployment -> JobRow]
  /\ expired \in [Deployment -> BOOLEAN]
  /\ attempts \in [Deployment -> [1..MaxAttempts -> AttemptRow]]
  /\ deployment \in [Deployment -> DeploymentStatus]
  /\ stream \in [Priority -> Seq(Deployment)]
  /\ prodClaims \in [Worker -> 0..3]
  /\ wk \in [Worker -> WorkerState]
  /\ req \in [Client -> RequestState]
  /\ reaper \in ReaperState
  /\ builds \in [Deployment -> Nat]
  /\ crashes \in 0..MaxCrashes

Init ==
  /\ job = [d \in Deployment |-> [status |-> "none", attempt |-> 0,
                                  owner |-> None, priority |-> "production"]]
  /\ expired = [d \in Deployment |-> FALSE]
  /\ attempts = [d \in Deployment |-> [n \in 1..MaxAttempts |-> NoRow]]
  /\ deployment = [d \in Deployment |-> "none"]
  /\ stream = [p \in Priority |-> <<>>]
  /\ prodClaims = [w \in Worker |-> 0]
  /\ wk = [w \in Worker |-> IdleWorker]
  /\ req = [c \in Client |-> IdleRequest]
  /\ reaper = IdleReaper
  /\ builds = [d \in Deployment |-> 0]
  /\ crashes = 0

-----------------------------------------------------------------------------
(* SQL statements and Redis commands.                                      *)

\* INSERT INTO build_jobs ... 'queued'
InsertJob(d, p) ==
  job' = [job EXCEPT ![d] = [status |-> "queued", attempt |-> 0,
                             owner |-> None, priority |-> p]]

\* Mutant of ReleaseJob: the lease is not cleared.
ReleaseKeepsOwner(d, s) ==
  /\ job' = [job EXCEPT ![d].status = s]
  /\ expired' = [expired EXCEPT ![d] = FALSE]

\* SET status = s, lease_owner = NULL, lease_expires_at = NULL
ReleaseJob(d, s) ==
  /\ job' = [job EXCEPT ![d].status = s, ![d].owner = None]
  /\ expired' = [expired EXCEPT ![d] = FALSE]

\* The statement matched no row.
NoRowMatched == UNCHANGED <<job, expired>>

\* UPDATE deployments SET status = s WHERE id = d
SetDeployment(d, s) == deployment' = [deployment EXCEPT ![d] = s]

\* UPDATE build_attempts SET status = s
\* WHERE job_id = d AND worker_id = w AND status = 'running'
SettleAttempts(d, w, s) ==
  attempts' = [attempts EXCEPT ![d] =
    [n \in 1..MaxAttempts |->
       IF @[n] = [status |-> "running", worker |-> w]
         THEN [status |-> s, worker |-> w] ELSE @[n]]]

\* XADD stream(p) job_id d
XAdd(p, d) == stream' = [stream EXCEPT ![p] = Append(@, d)]

-----------------------------------------------------------------------------
(* API requests: create_deployment, retry_deployment, cancel_deployment.   *)
(* An event of preview_events.rs inserts its deployment the same way and   *)
(* enqueues it with preview priority.                                      *)

StartRequest(c, d, p, pc) ==
  /\ req[c].pc = "idle"
  /\ req' = [req EXCEPT ![c] = [pc |-> pc, job |-> d, priority |-> p]]

GotoReq(c, pc) == req' = [req EXCEPT ![c].pc = pc]

EndReq(c) == req' = [req EXCEPT ![c] = IdleRequest]

CreateDeployment(c, d, p) ==
  /\ deployment[d] = "none"
  /\ StartRequest(c, d, p, "insertJob")
  /\ SetDeployment(d, "queued")
  /\ UNCHANGED <<job, expired, attempts, stream, prodClaims, wk, reaper,
                 history>>

\* retry_deployment resets the deployment and calls enqueue again.
RetryDeployment(c, d) ==
  /\ deployment[d] # "none"
  /\ StartRequest(c, d, "production", "insertJob")
  /\ SetDeployment(d, "queued")
  /\ UNCHANGED <<job, expired, attempts, stream, prodClaims, wk, reaper,
                 history>>

\* Mutant of EnqueueInsert: the job is published on a conflict too.
EnqueueAlwaysPublishes(c) ==
  LET d == req[c].job IN
  /\ req[c].pc = "insertJob"
  /\ IF job[d].status = "none" THEN InsertJob(d, req[c].priority)
                               ELSE UNCHANGED job
  /\ GotoReq(c, "publish")
  /\ UNCHANGED <<expired, attempts, deployment, stream, prodClaims, wk,
                 reaper, history>>

\* enqueue, statement 1: INSERT ... ON CONFLICT (deployment_id) DO NOTHING.
\* On a conflict the existing job is returned and nothing is published.
EnqueueInsert(c) ==
  LET d == req[c].job IN
  /\ req[c].pc = "insertJob"
  /\ \/ /\ job[d].status = "none"
        /\ InsertJob(d, req[c].priority)
        /\ GotoReq(c, "publish")
     \/ /\ job[d].status # "none"
        /\ UNCHANGED job
        /\ EndReq(c)
  /\ UNCHANGED <<expired, attempts, deployment, stream, prodClaims, wk,
                 reaper, history>>

EnqueuePublish(c) ==
  /\ req[c].pc = "publish"
  /\ XAdd(req[c].priority, req[c].job)
  /\ GotoReq(c, "markQueued")
  /\ UNCHANGED <<db, prodClaims, wk, reaper, history>>

EnqueueMark(c) ==
  /\ req[c].pc = "markQueued"
  /\ SetDeployment(req[c].job, "queued")
  /\ EndReq(c)
  /\ UNCHANGED <<job, expired, attempts, stream, prodClaims, wk, reaper,
                 history>>

CancelDeployment(c, d) ==
  /\ deployment[d] # "none"
  /\ StartRequest(c, d, "production", "cancelJob")
  /\ UNCHANGED <<db, stream, prodClaims, wk, reaper, history>>

\* cancel: only a queued or a running job is cancelled.
CancelJob(c) ==
  LET d == req[c].job IN
  /\ req[c].pc = "cancelJob"
  /\ \/ /\ job[d].status \in {"queued", "running"}
        /\ ReleaseJob(d, "cancelled")
        /\ GotoReq(c, "cancelMark")
     \/ /\ job[d].status \notin {"queued", "running"}
        /\ NoRowMatched
        /\ GotoReq(c, "cancelDeployment")
  /\ UNCHANGED <<attempts, deployment, stream, prodClaims, wk, reaper,
                 history>>

CancelMark(c) ==
  /\ req[c].pc = "cancelMark"
  /\ SetDeployment(req[c].job, "cancelled")
  /\ GotoReq(c, "cancelDeployment")
  /\ UNCHANGED <<job, expired, attempts, stream, prodClaims, wk, reaper,
                 history>>

\* cancel_deployment marks the deployment whatever became of the job.
CancelFinish(c) ==
  /\ req[c].pc = "cancelDeployment"
  /\ SetDeployment(req[c].job, "cancelled")
  /\ EndReq(c)
  /\ UNCHANGED <<job, expired, attempts, stream, prodClaims, wk, reaper,
                 history>>

-----------------------------------------------------------------------------
(* BuildQueue::claim                                                       *)

Goto(w, pc) == wk' = [wk EXCEPT ![w].pc = pc]

EndRun(w) == wk' = [wk EXCEPT ![w] = IdleWorker]

\* Leave the stream just tried: go on with the next one, or claim nothing.
NextStream(w) ==
  LET rest == Tail(wk[w].streams) IN
  wk' = [wk EXCEPT ![w] =
           IF rest = <<>> THEN IdleWorker
           ELSE [IdleWorker EXCEPT !.pc = "read", !.streams = rest]]

\* After three production claims the preview stream is tried first.
ClaimBegin(w) ==
  /\ wk[w].pc = "idle"
  /\ wk' = [wk EXCEPT ![w].pc = "read",
       ![w].streams = IF prodClaims[w] >= 3 THEN <<"preview", "production">>
                                            ELSE <<"production", "preview">>]
  /\ prodClaims' = [prodClaims EXCEPT ![w] = IF @ >= 3 THEN 0 ELSE @]
  /\ UNCHANGED <<db, stream, req, reaper, history>>

\* XREADGROUP ... COUNT 1 STREAMS s >
ClaimRead(w) ==
  LET s == Head(wk[w].streams) IN
  /\ wk[w].pc = "read"
  /\ \/ /\ stream[s] # <<>>
        /\ wk' = [wk EXCEPT ![w].pc = "lease", ![w].job = Head(stream[s])]
        /\ stream' = [stream EXCEPT ![s] = Tail(@)]
     \/ /\ stream[s] = <<>>
        /\ NextStream(w)
        /\ UNCHANGED stream
  /\ UNCHANGED <<db, prodClaims, req, reaper, history>>

\* Mutant of Claimable: max_attempts is not looked at.
ClaimableWithoutLimit(d) == job[d].status \in {"queued", "failed"}

\* WHERE id = d AND status IN ('queued', 'failed') AND attempt < max_attempts
Claimable(d) ==
  /\ job[d].status \in {"queued", "failed"}
  /\ job[d].attempt < MaxAttempts

\* Mutant of LeaseJob: the attempt is not counted.
LeaseUncounted(d, w) ==
  /\ job' = [job EXCEPT ![d].status = "running", ![d].owner = w]
  /\ expired' = [expired EXCEPT ![d] = FALSE]

\* SET status = 'running', attempt = attempt + 1, lease_owner = w, ...
LeaseJob(d, w) ==
  /\ job' = [job EXCEPT ![d].status = "running", ![d].owner = w,
                        ![d].attempt = @ + 1]
  /\ expired' = [expired EXCEPT ![d] = FALSE]

\* The lease in PostgreSQL; an entry whose job cannot be leased is XACKed.
ClaimLease(w) ==
  LET d == wk[w].job IN
  /\ wk[w].pc = "lease"
  /\ \/ /\ Claimable(d)
        /\ LeaseJob(d, w)
        /\ wk' = [wk EXCEPT ![w].pc = "record",
                            ![w].attempt = job[d].attempt + 1]
     \/ /\ ~Claimable(d)
        /\ NoRowMatched
        /\ NextStream(w)
  /\ UNCHANGED <<attempts, deployment, stream, prodClaims, req, reaper,
                 history>>

\* INSERT INTO build_attempts; a conflict is an error that is ignored.
ClaimRecord(w) ==
  /\ wk[w].pc = "record"
  /\ attempts' = [attempts EXCEPT ![wk[w].job][wk[w].attempt] =
       IF @ = NoRow THEN [status |-> "running", worker |-> w] ELSE @]
  /\ Goto(w, "mark")
  /\ UNCHANGED <<job, expired, deployment, stream, prodClaims, req, reaper,
                 history>>

ClaimMark(w) ==
  /\ wk[w].pc = "mark"
  /\ SetDeployment(wk[w].job, "building")
  /\ prodClaims' = [prodClaims EXCEPT ![w] =
       IF Head(wk[w].streams) = "production" THEN @ + 1 ELSE @]
  /\ Goto(w, "check")
  /\ UNCHANGED <<job, expired, attempts, stream, req, reaper, history>>

-----------------------------------------------------------------------------
(* BuildWorker::run_once after a successful claim                          *)

\* A job cancelled since the claim is acknowledged without a build; the
\* attempt row, private to this claim, is written again otherwise.
RunCheck(w) ==
  LET d == wk[w].job IN
  /\ wk[w].pc = "check"
  /\ \/ /\ job[d].status = "cancelled"
        /\ Goto(w, "ack")
        /\ UNCHANGED attempts
     \/ /\ job[d].status # "cancelled"
        /\ Goto(w, "workspace")
        /\ attempts' = [attempts EXCEPT ![d][wk[w].attempt] =
                          [status |-> "running", worker |-> w]]
  /\ UNCHANGED <<job, expired, deployment, stream, prodClaims, req, reaper,
                 history>>

\* fs::create_dir_all succeeds and the renewer and the pipeline start, or it
\* fails and the job is handed to fail as retryable.
RunWorkspace(w) ==
  /\ wk[w].pc = "workspace"
  /\ \/ /\ Goto(w, "building")
        /\ builds' = [builds EXCEPT ![wk[w].job] = @ + 1]
     \/ /\ wk' = [wk EXCEPT ![w].pc = "failRead", ![w].retryable = TRUE]
        /\ UNCHANGED builds
  /\ UNCHANGED <<db, stream, prodClaims, req, reaper, crashes>>

\* renew, from the renewer task that lives as long as the pipeline.
Renew(w) ==
  LET d == wk[w].job IN
  /\ wk[w].pc = "building"
  /\ job[d].owner = w /\ job[d].status = "running"
  /\ expired' = [expired EXCEPT ![d] = FALSE]
  /\ UNCHANGED <<job, attempts, deployment, stream, prodClaims, wk, req,
                 reaper, history>>

\* How execute_pipeline (checkout, detection, cache, build, artifact) fails:
\* by an error of the user's build or of the infrastructure.
PipelineError == {"build", "infrastructure"}

\* is_retryable_error
Retryable(error) == error = "infrastructure"

\* execute_pipeline ends with an artifact or with an error.
RunPipeline(w) ==
  /\ wk[w].pc = "building"
  /\ \/ Goto(w, "succeeded")
     \/ \E error \in PipelineError :
          wk' = [wk EXCEPT ![w].pc = IF Retryable(error) THEN "failRead"
                                                        ELSE "fatal",
                           ![w].retryable = Retryable(error)]
  /\ UNCHANGED <<db, stream, prodClaims, req, reaper, history>>

RunSucceeded(w) ==
  /\ wk[w].pc = "succeeded"
  /\ SetDeployment(wk[w].job, "running")
  /\ Goto(w, "ack")
  /\ UNCHANGED <<job, expired, attempts, stream, prodClaims, req, reaper,
                 history>>

RunFatal(w) ==
  /\ wk[w].pc = "fatal"
  /\ SetDeployment(wk[w].job, "failed")
  /\ Goto(w, "failRead")
  /\ UNCHANGED <<job, expired, attempts, stream, prodClaims, req, reaper,
                 history>>

-----------------------------------------------------------------------------
(* BuildQueue::ack                                                         *)

\* Mutant of AckJob: WHERE id = d AND status = 'running', whoever holds it.
AckAnyOwner(w) ==
  LET d == wk[w].job IN
  /\ wk[w].pc = "ack"
  /\ IF job[d].status = "running" THEN ReleaseJob(d, "completed")
                                  ELSE NoRowMatched
  /\ Goto(w, "ackAttempt")
  /\ UNCHANGED <<attempts, deployment, stream, prodClaims, req, reaper,
                 history>>

AckJob(w) ==
  LET d == wk[w].job IN
  /\ wk[w].pc = "ack"
  /\ IF job[d].owner = w /\ job[d].status = "running"
       THEN ReleaseJob(d, "completed") ELSE NoRowMatched
  /\ Goto(w, "ackAttempt")
  /\ UNCHANGED <<attempts, deployment, stream, prodClaims, req, reaper,
                 history>>

\* Mutant of AckAttempt: the attempt row is left running.
AckForgetsAttempt(w) ==
  /\ wk[w].pc = "ackAttempt"
  /\ EndRun(w)
  /\ UNCHANGED <<db, stream, prodClaims, req, reaper, history>>

AckAttempt(w) ==
  /\ wk[w].pc = "ackAttempt"
  /\ SettleAttempts(wk[w].job, w, "succeeded")
  /\ EndRun(w)
  /\ UNCHANGED <<job, expired, deployment, stream, prodClaims, req, reaper,
                 history>>

-----------------------------------------------------------------------------
(* BuildQueue::fail                                                        *)

\* Mutant of FailRead: one retry too many.
FailReadOffByOne(w) ==
  /\ wk[w].pc = "failRead"
  /\ IF wk[w].retryable /\ job[wk[w].job].attempt <= MaxAttempts
       THEN Goto(w, "requeue") ELSE Goto(w, "bury")
  /\ UNCHANGED <<db, stream, prodClaims, req, reaper, history>>

\* The job row is read first; whether to retry is decided on that copy.
FailRead(w) ==
  /\ wk[w].pc = "failRead"
  /\ IF wk[w].retryable /\ job[wk[w].job].attempt < MaxAttempts
       THEN Goto(w, "requeue") ELSE Goto(w, "bury")
  /\ UNCHANGED <<db, stream, prodClaims, req, reaper, history>>

\* WHERE id = d AND lease_owner = w: the status is not looked at.
FailRequeue(w) ==
  LET d == wk[w].job IN
  /\ wk[w].pc = "requeue"
  /\ IF job[d].owner = w THEN ReleaseJob(d, "queued") ELSE NoRowMatched
  /\ Goto(w, "requeued")
  /\ UNCHANGED <<attempts, deployment, stream, prodClaims, req, reaper,
                 history>>

\* The attempt rows, on either branch.
FailSettle(w) ==
  /\ wk[w].pc \in {"requeued", "buried"}
  /\ SettleAttempts(wk[w].job, w, "failed")
  /\ Goto(w, IF wk[w].pc = "requeued" THEN "republish" ELSE "buryMark")
  /\ UNCHANGED <<job, expired, deployment, stream, prodClaims, req, reaper,
                 history>>

\* Mutant of FailRepublish: the job is requeued in PostgreSQL only.
FailWithoutRepublish(w) ==
  /\ wk[w].pc = "republish"
  /\ EndRun(w)
  /\ UNCHANGED <<db, stream, prodClaims, req, reaper, history>>

\* XADD happens whether or not the row was requeued.
FailRepublish(w) ==
  /\ wk[w].pc = "republish"
  /\ XAdd(Head(wk[w].streams), wk[w].job)
  /\ EndRun(w)
  /\ UNCHANGED <<db, prodClaims, req, reaper, history>>

\* Mutant of FailBury: WHERE id = d, whoever holds the lease.
FailBuryAnyOwner(w) ==
  /\ wk[w].pc = "bury"
  /\ ReleaseJob(wk[w].job, "failed")
  /\ Goto(w, "buried")
  /\ UNCHANGED <<attempts, deployment, stream, prodClaims, req, reaper,
                 history>>

FailBury(w) ==
  LET d == wk[w].job IN
  /\ wk[w].pc = "bury"
  /\ IF job[d].owner = w THEN ReleaseJob(d, "failed") ELSE NoRowMatched
  /\ Goto(w, "buried")
  /\ UNCHANGED <<attempts, deployment, stream, prodClaims, req, reaper,
                 history>>

FailBuryMark(w) ==
  /\ wk[w].pc = "buryMark"
  /\ SetDeployment(wk[w].job, "failed")
  /\ EndRun(w)
  /\ UNCHANGED <<job, expired, attempts, stream, prodClaims, req, reaper,
                 history>>

-----------------------------------------------------------------------------
(* BuildQueue::requeue_expired                                             *)

\* The lease of a running job runs out: its worker died or renews too late.
LeaseExpires(d) ==
  /\ job[d].status = "running" /\ ~expired[d]
  /\ expired' = [expired EXCEPT ![d] = TRUE]
  /\ UNCHANGED <<job, attempts, deployment, stream, prodClaims, wk, req,
                 reaper, history>>

\* SELECT the expired rows, with the attempt each row has now.
ReapScan ==
  LET rows == {[id |-> d, attempt |-> job[d].attempt] :
                 d \in {e \in Deployment :
                          job[e].status = "running" /\ expired[e]}} IN
  /\ ReaperRuns
  /\ reaper.pc = "idle" /\ rows # {}
  /\ reaper' = [IdleReaper EXCEPT !.pc = "scan", !.rows = rows]
  /\ UNCHANGED <<db, stream, prodClaims, wk, req, history>>

\* One selected row: WHERE id = d AND status = 'running'.  Neither the owner
\* nor the expiry is looked at again, and what follows is done even when no
\* row matched.
ReapRow(r) ==
  /\ reaper.pc = "scan" /\ r \in reaper.rows
  /\ LET retry == r.attempt < MaxAttempts IN
     /\ IF job[r.id].status = "running"
          THEN ReleaseJob(r.id, IF retry THEN "queued" ELSE "failed")
          ELSE NoRowMatched
     /\ reaper' = [pc   |-> IF retry THEN "publish" ELSE "bury",
                   rows |-> reaper.rows \ {r}, job |-> r.id]
  /\ UNCHANGED <<attempts, deployment, stream, prodClaims, wk, req, history>>

NextRow == reaper' = [pc   |-> IF reaper.rows = {} THEN "idle" ELSE "scan",
                      rows |-> reaper.rows, job |-> None]

ReapPublish ==
  /\ reaper.pc = "publish"
  /\ XAdd(job[reaper.job].priority, reaper.job)
  /\ NextRow
  /\ UNCHANGED <<db, prodClaims, wk, req, history>>

ReapBury ==
  /\ reaper.pc = "bury"
  /\ SetDeployment(reaper.job, "failed")
  /\ NextRow
  /\ UNCHANGED <<job, expired, attempts, stream, prodClaims, wk, req, history>>

-----------------------------------------------------------------------------
(* An operation stops between two statements: the process dies, a shutdown *)
(* drops run_once, or a statement fails and `?` returns its error.         *)

Crash(kind) ==
  /\ kind \in CrashKinds
  /\ crashes < MaxCrashes
  /\ crashes' = crashes + 1

WorkerCrash(w) ==
  /\ wk[w].pc # "idle"
  /\ Crash("worker")
  /\ EndRun(w)
  /\ \/ prodClaims' = [prodClaims EXCEPT ![w] = 0]  \* the process died
     \/ UNCHANGED prodClaims                        \* run_once returned Err
  /\ UNCHANGED <<db, stream, req, reaper, builds>>

RequestCrash(c) ==
  /\ req[c].pc # "idle"
  /\ Crash("request")
  /\ EndReq(c)
  /\ UNCHANGED <<db, stream, prodClaims, wk, reaper, builds>>

ReaperCrash ==
  /\ reaper.pc # "idle"
  /\ Crash("reaper")
  /\ reaper' = IdleReaper
  /\ UNCHANGED <<db, stream, prodClaims, wk, req, builds>>

-----------------------------------------------------------------------------

WorkerStep(w) ==
  \/ ClaimBegin(w) \/ ClaimRead(w) \/ ClaimLease(w) \/ ClaimRecord(w)
  \/ ClaimMark(w)
  \/ RunCheck(w) \/ RunWorkspace(w) \/ RunPipeline(w)
  \/ RunSucceeded(w) \/ RunFatal(w)
  \/ AckJob(w) \/ AckAttempt(w)
  \/ FailRead(w) \/ FailRequeue(w) \/ FailBury(w) \/ FailSettle(w)
  \/ FailRepublish(w) \/ FailBuryMark(w)

RequestStep(c) ==
  \/ EnqueueInsert(c) \/ EnqueuePublish(c) \/ EnqueueMark(c)
  \/ CancelJob(c) \/ CancelMark(c) \/ CancelFinish(c)

NewRequest(c, d) ==
  \/ \E p \in Priority : CreateDeployment(c, d, p)
  \/ RetryDeployment(c, d)
  \/ CancelDeployment(c, d)

ReaperStep ==
  \/ ReapScan
  \/ \E r \in reaper.rows : ReapRow(r)
  \/ ReapPublish
  \/ ReapBury

Next ==
  \/ \E w \in Worker : WorkerStep(w) \/ Renew(w) \/ WorkerCrash(w)
  \/ \E c \in Client : RequestStep(c) \/ RequestCrash(c)
  \/ \E c \in Client, d \in Deployment : NewRequest(c, d)
  \/ \E d \in Deployment : LeaseExpires(d)
  \/ ReaperStep
  \/ ReaperCrash

Spec == Init /\ [][Next]_vars

\* Processes that are up keep executing: a worker never stops polling, a
\* request that was accepted runs to its end, expired leases are collected
\* again and again where a reaper runs, and a lease nobody renews runs out.
\* No request is ever obliged to arrive and nothing is obliged to crash.
Renewing(d) == \E w \in Worker : wk[w].pc = "building" /\ wk[w].job = d

Fairness ==
  /\ \A w \in Worker : WF_vars(WorkerStep(w))
  /\ \A c \in Client : WF_vars(RequestStep(c))
  /\ WF_vars(ReaperStep)
  /\ \A d \in Deployment : WF_vars(~Renewing(d) /\ LeaseExpires(d))

FairSpec == Spec /\ Fairness

-----------------------------------------------------------------------------
(* Properties                                                              *)

Open    == {"queued", "running"}
Settled == {"completed", "failed", "cancelled"}

\* The worker has leased a job and is still inside run_once with it.
OnJob(w, d) ==
  wk[w].job = d /\ wk[w].pc \notin {"idle", "read", "lease"}

\* d is an entry of one of the streams that nobody has been given yet.
InStream(d) ==
  \E p \in Priority : \E i \in 1..Len(stream[p]) : stream[p][i] = d

\* A job has an owner exactly while it is running.  fail (queue.rs:516, 563)
\* relies on it: its UPDATE checks the owner and not the status, so a job
\* that was cancelled or completed under the worker must have no owner.
OwnedIffRunning ==
  \A d \in Deployment : (job[d].owner # None) <=> (job[d].status = "running")

\* However often a job is redelivered, retried, cancelled, requeued and
\* crashed, its pipeline is started at most max_attempts times.
BuildsBounded ==
  \A d \in Deployment : builds[d] <= MaxAttempts

\* Without a reaper at most one worker is inside run_once for a job: XADD is
\* done once per settled claim, so a job never has two stream entries.
OneWorkerPerJob ==
  \A d \in Deployment, v, w \in Worker : OnJob(v, d) /\ OnJob(w, d) => v = w

\* As long as no operation was interrupted, a queued job can be found by the
\* workers: it is in a stream, or somebody who holds its entry or is about to
\* publish it still has to take his next step.  Jobs have no other way back
\* into a stream, so one that loses its entry is never built.
QueuedJobHasEntry ==
  crashes = 0 =>
    \A d \in Deployment : job[d].status = "queued" =>
      \/ InStream(d)
      \/ \E c \in Client : req[c].pc = "publish" /\ req[c].job = d
      \/ \E w \in Worker : /\ wk[w].pc \in {"lease", "requeued", "republish"}
                            /\ wk[w].job = d

\* As long as no operation was interrupted, a build_attempts row that says
\* 'running' belongs to a worker that is working on that very attempt.
RunningAttemptHasWorker ==
  crashes = 0 =>
    \A d \in Deployment, n \in 1..MaxAttempts :
      attempts[d][n].status = "running" =>
        LET w == attempts[d][n].worker IN OnJob(w, d) /\ wk[w].attempt = n

\* A completed or cancelled job is never touched again, by whatever worker,
\* request or reaper pass was under way when it got there.
SettledJobsStay ==
  [][\A d \in Deployment :
       job[d].status \in {"completed", "cancelled"} => job'[d] = job[d]]_vars

\* The outcome of a job's claim goes to the job: a lease is given up only by
\* the worker that holds it, by a cancellation or by the reaper.
LeaseIsTheWorkers ==
  [][\A d \in Deployment, w \in Worker :
       job[d].owner = w /\ job'[d].owner # w =>
         \/ OnJob(w, d) /\ wk'[w] # wk[w]
         \/ job'[d].status = "cancelled"
         \/ ReaperRuns /\ reaper' # reaper]_vars

\* When nothing is interrupted every job that was enqueued settles: it is
\* completed, failed or cancelled in the end.
JobsSettle ==
  \A d \in Deployment : job[d].status \in Open ~> job[d].status \in Settled

\* The build_jobs rows behave like JobLifecycle: a failed job is final, every
\* claim starts from 'queued', and a job goes back only with tries left.
Lifecycle == INSTANCE JobLifecycle WITH
  Job    <- Deployment,
  status <- [d \in Deployment |-> job[d].status],
  tries  <- [d \in Deployment |-> job[d].attempt],
  lease  <- [d \in Deployment |-> job[d].owner]

ImplementsLifecycle == Lifecycle!Spec

-----------------------------------------------------------------------------
(* The inductive invariants behind the theorems of BuildQueueProofs.       *)

\* What the local variables hold at each point of the operations.
WorkerLocalsOK(w) ==
  /\ wk[w].pc # "idle" => wk[w].streams # <<>>
  /\ wk[w].pc \notin {"idle", "read"} => wk[w].job \in Deployment
  /\ wk[w].pc \notin {"idle", "read", "lease"} =>
       wk[w].attempt \in 1..MaxAttempts
  /\ wk[w].pc \in {"read", "lease", "record", "mark"} => prodClaims[w] < 3

LocalsOK ==
  /\ \A w \in Worker : WorkerLocalsOK(w)
  /\ \A c \in Client : req[c].pc # "idle" => req[c].job \in Deployment
  /\ reaper.pc \in {"publish", "bury"} => reaper.job \in Deployment

\* The worker has been given an entry of d and has not let go of it.
Holds(w, d) == wk[w].job = d /\ wk[w].pc \notin {"idle", "read"}

Publishing(c, d) == req[c].job = d /\ req[c].pc = "publish"

\* There is at most one entry of d: in a stream, in a worker's hands or in
\* those of the request about to publish it.
OneEntry(d) ==
  /\ \A p, q \in Priority :
       \A i \in 1..Len(stream[p]), j \in 1..Len(stream[q]) :
         stream[p][i] = d /\ stream[q][j] = d => p = q /\ i = j
  /\ InStream(d) => /\ \A w \in Worker : ~Holds(w, d)
                    /\ \A c \in Client : ~Publishing(c, d)
  /\ \A v, w \in Worker : Holds(v, d) /\ Holds(w, d) => v = w
  /\ \A b, c \in Client : Publishing(b, d) /\ Publishing(c, d) => b = c
  /\ \A w \in Worker, c \in Client : ~(Holds(w, d) /\ Publishing(c, d))

\* Where a worker that holds an entry left the row queued, or leased it.
HoldsQueued  == {"lease", "requeued", "republish"}
HoldsRunning == {"record", "mark", "check", "workspace", "building",
                 "succeeded", "ack", "fatal", "failRead", "requeue", "bury"}

\* What the holder of d's entry knows about the row: unless the job was
\* cancelled it is what the holder's last statement left there.
HolderKnows(w, d) ==
  \/ job[d].status = "cancelled"
  \/ wk[w].pc \in HoldsQueued /\ job[d].status = "queued"
  \/ wk[w].pc = "ackAttempt" /\ job[d].status = "completed"
  \/ wk[w].pc \in {"buried", "buryMark"} /\ job[d].status = "failed"
  \/ /\ wk[w].pc \in HoldsRunning
     /\ job[d].status = "running" /\ job[d].owner = w
     /\ wk[w].pc = "requeue" => job[d].attempt < MaxAttempts

\* What the place of d's entry says about d's row.
RowKnown(d) ==
  /\ InStream(d) => job[d].status \in {"queued", "cancelled"}
  /\ \A c \in Client :
       Publishing(c, d) => job[d].status \in {"queued", "cancelled"}
  /\ \A w \in Worker : Holds(w, d) => HolderKnows(w, d)
  /\ job[d].status = "none" => job[d].attempt = 0
  /\ job[d].status = "queued" => job[d].attempt < MaxAttempts

EntryInv == \A d \in Deployment : OneEntry(d) /\ RowKnown(d)

-----------------------------------------------------------------------------
(* What the repository's documents say of the queue, and the code does not *)
(* do.                                                                     *)

\* A cancelled deployment stays cancelled until somebody retries it
\* (plan m3b, line 21: "A cancelled deployment stops its build container and
\* acknowledges/removes the job").
CancelledDeploymentStays ==
  [][\A d \in Deployment :
       deployment[d] = "cancelled" /\ deployment'[d] # "cancelled" =>
         \E c \in Client : req[c].pc = "idle" /\ req'[c].pc = "insertJob"]_vars
=============================================================================
