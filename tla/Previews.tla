------------------------------ MODULE Previews ------------------------------
(***************************************************************************)
(* Webhooks, source events and previews: src/webhooks.rs,                  *)
(* src/source_events.rs, src/preview_events.rs, src/previews.rs, the event *)
(* parsers of src/providers and the preview requests of src/api.rs.        *)
(*                                                                         *)
(* One project and one pull request, hence one row of previews (it is      *)
(* unique per project, provider and number).  Every SQL statement is one   *)
(* step; any two operations may interleave between their statements, and   *)
(* an error or the end of the process may end one after any statement.     *)
(*                                                                         *)
(* The build queue is abstracted to one row of build_jobs per deployment;  *)
(* how a job gets built is the subject of BuildQueue.  Its result reaches  *)
(* the preview by record_build_success and record_build_failure.           *)
(***************************************************************************)
EXTENDS Integers, Sequences, FiniteSets

CONSTANTS
  Delivery,     \* delivery ids of the provider
  Payload,      \* what the provider sends with each: provider, word and commit
  Commit,       \* commit ids
  Actor,        \* operations that may be under way at a time
  HasQueue,     \* whether the process was given a build queue
  Skew,         \* how far a clock may be ahead of the slowest one when it is read
  MaxClock,     \* bound on the time
  MaxTrouble,   \* bound on repeated deliveries, overlapping operations, requests,
                \* results of builds and interruptions together
  None          \* no delivery, no commit

ASSUME PreviewsAssumption ==
  /\ \A d \in Delivery : Payload[d].sha \in Commit
  /\ HasQueue \in BOOLEAN
  /\ Skew \subseteq Nat
  /\ MaxClock \in Nat /\ MaxTrouble \in Nat
  /\ None \notin Delivery \cup Commit

VARIABLES
  clock,       \* the time by the slowest clock
  received,    \* history: the deliveries that have reached the API
  repeats,     \* history: those that have reached it again
  delivery,    \* the rows of provider_deliveries
  event,       \* the rows of source_events, by delivery
  preview,     \* the row of previews
  deployment,  \* the rows of deployments
  job,         \* the rows of build_jobs, by deployment
  actor,       \* local variables of each operation under way
  requests,    \* history: promote and stop requests made
  results,     \* history: results reported
  failures,    \* history: operations that were interrupted
  overlaps,    \* history: operations that started while another was under way
  applied,     \* history: when the event last applied to the preview was received
  current      \* history: the operations about to write a preview that has not
               \* changed since they looked it up

vars == <<clock, received, repeats, delivery, event, preview, deployment, job,
          actor, requests, results, failures, overlaps, applied, current>>

PreviewStatus == {"building", "ready", "failed", "closed"}

\* The two parsers: the words of a provider that stand for a supported change.
\* Any other word, and a push that deletes a branch, is an error.
GitHubWord == [push |-> "push", opened |-> "opened", synchronize |-> "synchronize",
               closed |-> "closed", reopened |-> "reopened"]

GitLabWord == [push |-> "push", open |-> "opened", reopen |-> "opened",
               update |-> "synchronize", close |-> "closed"]

Action(d) ==
  LET words == IF Payload[d].provider = "github" THEN GitHubWord ELSE GitLabWord
  IN  IF Payload[d].word \in DOMAIN words THEN words[Payload[d].word]
      ELSE "unsupported"

Sha(d) == Payload[d].sha

\* A job has an id of its own, which is not that of its deployment.
DeploymentId(i) == <<"deployment", i>>
JobId(i) == <<"job", i>>

NoDeployment == <<>>

NoPreview == [status |-> None, head |-> None, deployment |-> NoDeployment, updatedAt |-> 0]

Idle == [pc |-> "idle", delivery |-> None, at |-> 0, deployment |-> NoDeployment, sha |-> None,
         image |-> None]

Init ==
  /\ clock = 0
  /\ received = {}
  /\ repeats = 0
  /\ delivery = {}
  /\ event = {}
  /\ preview = NoPreview
  /\ deployment = <<>>
  /\ job = <<>>
  /\ actor = [a \in Actor |-> Idle]
  /\ requests = 0
  /\ results = 0
  /\ failures = 0
  /\ overlaps = 0
  /\ applied = 0
  /\ current = {}

At(a, pc) == actor[a].pc = pc
Become(a, l) == actor' = [actor EXCEPT ![a] = l]
Goto(a, pc) == Become(a, [actor[a] EXCEPT !.pc = pc])

\* An operation starts; it may find others under way.
Starts(a) ==
  /\ At(a, "idle")
  /\ overlaps' = IF \A b \in Actor : At(b, "idle") THEN overlaps ELSE overlaps + 1

\* The wall clock of the process is read: time may have passed or not, and the
\* clocks of the processes need not agree.
ReadClock == clock' \in {clock, clock + 1} /\ clock' <= MaxClock
Reading(s) == clock' + s

\* A new id for a deployment: what it is made for, a delivery or (None) a
\* promotion, and how many were made for that before.
NewId(source) == <<source, Cardinality({i \in DOMAIN deployment : i[1] = source})>>

\* A table with one more row.
WithRow(rows, i, row) ==
  [j \in DOMAIN rows \cup {i} |-> IF j = i THEN row ELSE rows[j]]

\* INSERT INTO deployments by operation a, which remembers the id.  The target is
\* 'production' in every row, by the default of the column or by promote's INSERT.
InsertDeployment(a, source, commit, pc) ==
  LET i == NewId(source) IN
  /\ deployment' = WithRow(deployment, i, [status |-> "queued", commit |-> commit,
                                          image |-> actor[a].image])
  /\ Become(a, [actor[a] EXCEPT !.pc = pc, !.deployment = i])

\* enqueue_job, for a deployment that has no job yet, where there is a queue.
EnqueueJob(i) == job' = IF HasQueue THEN WithRow(job, i, "queued") ELSE job

\* cancel takes the id of a job.
CancelJob(id) ==
  job' = [i \in DOMAIN job |->
           IF JobId(i) = id /\ job[i] = "queued" THEN "cancelled" ELSE job[i]]

---------------------------------------------------------------------------
(* handle_webhook.                                                         *)

\* A delivery with a valid signature and the headers it needs.
Receive(a, d) ==
  /\ Starts(a)
  /\ received' = received \cup {d}
  /\ repeats' = IF d \in received THEN repeats + 1 ELSE repeats
  /\ ReadClock
  /\ \E s \in Skew :
       Become(a, [Idle EXCEPT !.pc = "record", !.delivery = d, !.at = Reading(s)])
  /\ UNCHANGED <<delivery, event, preview, deployment, job, requests, results,
                 failures, applied, current>>

\* Mutant: the delivery id is not compared with those recorded.
RecordEveryDelivery(a) ==
  /\ At(a, "record")
  /\ Goto(a, "store")
  /\ delivery' = delivery \cup {actor[a].delivery}
  /\ UNCHANGED <<clock, received, repeats, event, preview, deployment, job,
                 requests, results, failures, overlaps, applied, current>>

\* record_delivery; a delivery recorded before is answered and dropped.
RecordDelivery(a) ==
  /\ At(a, "record")
  /\ IF actor[a].delivery \in delivery THEN Become(a, Idle) ELSE Goto(a, "store")
  /\ delivery' = delivery \cup {actor[a].delivery}
  /\ UNCHANGED <<clock, received, repeats, event, preview, deployment, job,
                 requests, results, failures, overlaps, applied, current>>

\* Parse the payload and record_event.  A push does nothing without a queue.
RecordEvent(a) ==
  LET d == actor[a].delivery IN
  /\ At(a, "store")
  /\ CASE Action(d) = "unsupported" -> Become(a, Idle)
       [] Action(d) = "push" -> IF HasQueue THEN Goto(a, "push") ELSE Become(a, Idle)
       [] OTHER -> Goto(a, "find")
  /\ event' = IF Action(d) = "unsupported" THEN event ELSE event \cup {d}
  /\ UNCHANGED <<clock, received, repeats, delivery, preview, deployment, job,
                 requests, results, failures, overlaps, applied, current>>

\* A push: a production deployment and its job.
PushInsert(a) ==
  /\ At(a, "push")
  /\ InsertDeployment(a, actor[a].delivery, Sha(actor[a].delivery), "pushEnqueue")
  /\ UNCHANGED <<clock, received, repeats, delivery, event, preview, job, requests,
                 results, failures, overlaps, applied, current>>

PushEnqueue(a) ==
  /\ At(a, "pushEnqueue")
  /\ EnqueueJob(actor[a].deployment)
  /\ Become(a, Idle)
  /\ UNCHANGED <<clock, received, repeats, delivery, event, preview, deployment,
                 requests, results, failures, overlaps, applied, current>>

---------------------------------------------------------------------------
(* PreviewService::apply_event.                                            *)

\* The commit the preview has already, unless it is closed.
Duplicate(d) ==
  preview # NoPreview /\ preview.head = Sha(d) /\ preview.status # "closed"

\* Mutant: events are taken in the order in which they get here.
NeverOlder(at) == FALSE

\* Received before the preview changed last.
Older(at) == preview # NoPreview /\ at < preview.updatedAt

\* The event is one to apply to the preview as it is.
Applies(a) ==
  LET d == actor[a].delivery IN
  Action(d) # "closed" /\ ~ Duplicate(d) /\ ~ Older(actor[a].at)

\* find_by_pr and the decisions on what it returns.
FindByPr(a) ==
  LET d == actor[a].delivery IN
  /\ At(a, "find")
  /\ CASE Action(d) = "closed" /\ preview = NoPreview -> Become(a, Idle)
       [] Action(d) = "closed" /\ preview # NoPreview ->
            Become(a, [actor[a] EXCEPT !.pc = "close", !.deployment = preview.deployment])
       [] Action(d) # "closed" /\ ~ Applies(a) -> Become(a, Idle)
       [] Applies(a) -> Goto(a, "insert")
  /\ current' = IF Applies(a) /\ preview.updatedAt >= applied THEN current \cup {a} ELSE current
  /\ UNCHANGED <<clock, received, repeats, delivery, event, preview, deployment,
                 job, requests, results, failures, overlaps, applied>>

\* mark_closed with the time the event was received.
Close(a) ==
  /\ At(a, "close")
  /\ preview' = [preview EXCEPT !.status = "closed", !.updatedAt = actor[a].at]
  /\ Goto(a, "closeCancel")
  /\ applied' = actor[a].at
  /\ current' = {}
  /\ UNCHANGED <<clock, received, repeats, delivery, event, deployment, job,
                 requests, results, failures, overlaps>>

\* queue.cancel is given the deployment the preview had when it was found.
CloseCancel(a) ==
  /\ At(a, "closeCancel")
  /\ CancelJob(DeploymentId(actor[a].deployment))
  /\ Become(a, Idle)
  /\ UNCHANGED <<clock, received, repeats, delivery, event, preview, deployment,
                 requests, results, failures, overlaps, applied, current>>

PreviewInsert(a) ==
  /\ At(a, "insert")
  /\ InsertDeployment(a, actor[a].delivery, Sha(actor[a].delivery), "enqueue")
  /\ UNCHANGED <<clock, received, repeats, delivery, event, preview, job, requests,
                 results, failures, overlaps, applied, current>>

\* Mutant: the preview row is written before the build is queued.
UpsertFirst(a) ==
  /\ At(a, "enqueue")
  /\ ReadClock
  /\ \E s \in Skew :
       preview' = [status |-> "building", head |-> Sha(actor[a].delivery),
                   deployment |-> actor[a].deployment, updatedAt |-> Reading(s)]
  /\ Goto(a, "upsert")
  /\ applied' = actor[a].at
  /\ current' = {}
  /\ UNCHANGED <<received, repeats, delivery, event, deployment, job, requests,
                 results, failures, overlaps>>

PreviewEnqueue(a) ==
  /\ At(a, "enqueue")
  /\ EnqueueJob(actor[a].deployment)
  /\ Goto(a, "upsert")
  /\ UNCHANGED <<clock, received, repeats, delivery, event, preview, deployment,
                 requests, results, failures, overlaps, applied, current>>

\* PreviewRepository::upsert, with the time it is called at.
Upsert(a) ==
  /\ At(a, "upsert")
  /\ ReadClock
  /\ \E s \in Skew :
       preview' = [status |-> "building", head |-> Sha(actor[a].delivery),
                   deployment |-> actor[a].deployment, updatedAt |-> Reading(s)]
  /\ Become(a, Idle)
  /\ applied' = actor[a].at
  /\ current' = {}
  /\ UNCHANGED <<received, repeats, delivery, event, deployment, job, requests,
                 results, failures, overlaps>>

---------------------------------------------------------------------------
(* Results of builds: record_build_success, record_build_failure and       *)
(* record_health_failure.                                                  *)

\* A deployment made for a pull request.
ForPreview(i) == i[1] \in Delivery /\ Action(i[1]) # "push"

\* A deployment that runs the image built from its commit.
Running(row) == [row EXCEPT !.status = "running", !.image = row.commit]

\* The job of a preview deployment was built.
RecordSuccess(a, i) ==
  /\ preview # NoPreview /\ i \in DOMAIN job
  /\ job[i] = "queued" /\ ForPreview(i)
  /\ Starts(a)
  /\ results' = results + 1
  /\ job' = [job EXCEPT ![i] = "built"]
  /\ deployment' = [deployment EXCEPT ![i] = Running(@)]
  /\ Become(a, [Idle EXCEPT !.pc = "ready", !.deployment = i])
  /\ UNCHANGED <<clock, received, repeats, delivery, event, preview, requests,
                 failures, applied, current>>

\* update_status_and_deployment(Ready, this deployment), whatever the row says.
MarkReady(a) ==
  /\ At(a, "ready")
  /\ ReadClock
  /\ \E s \in Skew :
       preview' = [preview EXCEPT !.status = "ready", !.deployment = actor[a].deployment,
                                  !.updatedAt = Reading(s)]
  /\ Become(a, Idle)
  /\ current' = {}
  /\ UNCHANGED <<received, repeats, delivery, event, deployment, job, requests,
                 results, failures, overlaps, applied>>

\* The build failed, or the health check of what was built.
RecordFailure(a, i) ==
  /\ preview # NoPreview /\ i \in DOMAIN job
  /\ ForPreview(i)
  /\ job[i] # "cancelled" /\ deployment[i].status \in {"queued", "running"}
  /\ Starts(a)
  /\ results' = results + 1
  /\ job' = [job EXCEPT ![i] = "built"]
  /\ deployment' = [deployment EXCEPT ![i].status = "failed"]
  /\ Become(a, [Idle EXCEPT !.pc = "failure", !.deployment = i])
  /\ UNCHANGED <<clock, received, repeats, delivery, event, preview, requests,
                 failures, applied, current>>

\* Mutant: the failure of any deployment is held against the preview.
FindAlwaysPoints(a) ==
  /\ At(a, "failure")
  /\ IF preview # NoPreview THEN Goto(a, "failed") ELSE Become(a, Idle)
  /\ UNCHANGED <<clock, received, repeats, delivery, event, preview, deployment,
                 job, requests, results, failures, overlaps, applied, current>>

\* find_by_id: a preview that points elsewhere keeps its deployment and status.
FindById(a) ==
  /\ At(a, "failure")
  /\ IF preview.deployment = actor[a].deployment THEN Goto(a, "failed")
     ELSE Become(a, Idle)
  /\ UNCHANGED <<clock, received, repeats, delivery, event, preview, deployment,
                 job, requests, results, failures, overlaps, applied, current>>

\* Mutant: without COALESCE the deployment is cleared.
MarkFailedDropsDeployment(a) ==
  /\ At(a, "failed")
  /\ ReadClock
  /\ \E s \in Skew :
       preview' = [preview EXCEPT !.status = "failed", !.updatedAt = Reading(s),
                                  !.deployment = NoDeployment]
  /\ Become(a, Idle)
  /\ current' = {}
  /\ UNCHANGED <<received, repeats, delivery, event, deployment, job, requests,
                 results, failures, overlaps, applied>>

\* update_status_and_deployment(Failed, None) keeps the deployment.
MarkFailed(a) ==
  /\ At(a, "failed")
  /\ ReadClock
  /\ \E s \in Skew :
       preview' = [preview EXCEPT !.status = "failed", !.updatedAt = Reading(s)]
  /\ Become(a, Idle)
  /\ current' = {}
  /\ UNCHANGED <<received, repeats, delivery, event, deployment, job, requests,
                 results, failures, overlaps, applied>>

---------------------------------------------------------------------------
(* stop_preview and promote_preview.                                       *)

\* teardown_preview, of a preview that is not closed.
Stop(a) ==
  /\ preview # NoPreview /\ preview.status # "closed"
  /\ Starts(a)
  /\ requests' = requests + 1
  /\ ReadClock
  /\ \E s \in Skew :
       Become(a, [Idle EXCEPT !.pc = "stopCancel", !.at = Reading(s),
                              !.deployment = preview.deployment])
  /\ UNCHANGED <<received, repeats, delivery, event, preview, deployment, job,
                 results, failures, applied, current>>

StopCancel(a) ==
  /\ At(a, "stopCancel")
  /\ CancelJob(DeploymentId(actor[a].deployment))
  /\ Goto(a, "stopDeployment")
  /\ UNCHANGED <<clock, received, repeats, delivery, event, preview, deployment,
                 requests, results, failures, overlaps, applied, current>>

StopDeployment(a) ==
  /\ At(a, "stopDeployment")
  /\ deployment' = [deployment EXCEPT ![actor[a].deployment].status = "stopped"]
  /\ Goto(a, "stopClose")
  /\ UNCHANGED <<clock, received, repeats, delivery, event, preview, job, requests,
                 results, failures, overlaps, applied, current>>

StopClose(a) ==
  /\ At(a, "stopClose")
  /\ preview' = [preview EXCEPT !.status = "closed", !.updatedAt = actor[a].at]
  /\ Become(a, Idle)
  /\ applied' = actor[a].at
  /\ current' = {}
  /\ UNCHANGED <<clock, received, repeats, delivery, event, deployment, job,
                 requests, results, failures, overlaps>>

\* promote_to_production, of a preview that is not closed.
Promote(a) ==
  /\ preview # NoPreview /\ preview.status # "closed"
  /\ Starts(a)
  /\ requests' = requests + 1
  /\ Become(a, [Idle EXCEPT !.pc = "promoteImage", !.sha = preview.head,
                            !.deployment = preview.deployment])
  /\ UNCHANGED <<clock, received, repeats, delivery, event, preview, deployment,
                 job, results, failures, applied, current>>

\* The image is read from the deployment the preview points to.
PromoteImage(a) ==
  /\ At(a, "promoteImage")
  /\ Become(a, [actor[a] EXCEPT !.pc = "promoteInsert",
                               !.image = deployment[actor[a].deployment].image])
  /\ UNCHANGED <<clock, received, repeats, delivery, event, preview, deployment,
                 job, requests, results, failures, overlaps, applied, current>>

PromoteInsert(a) ==
  /\ At(a, "promoteInsert")
  /\ InsertDeployment(a, None, actor[a].sha, "promoteEnqueue")
  /\ UNCHANGED <<clock, received, repeats, delivery, event, preview, job, requests,
                 results, failures, overlaps, applied, current>>

PromoteEnqueue(a) ==
  /\ At(a, "promoteEnqueue")
  /\ EnqueueJob(actor[a].deployment)
  /\ Become(a, Idle)
  /\ UNCHANGED <<clock, received, repeats, delivery, event, preview, deployment,
                 requests, results, failures, overlaps, applied, current>>

---------------------------------------------------------------------------

\* A statement fails, or the process ends: the operation is not finished.
Interrupted(a) ==
  /\ ~ At(a, "idle")
  /\ failures' = failures + 1
  /\ Become(a, Idle)
  /\ current' = current \ {a}
  /\ UNCHANGED <<clock, received, repeats, delivery, event, preview, deployment,
                 job, requests, overlaps, applied, results>>

Webhook(a) ==
  \/ \E d \in Delivery : Receive(a, d)
  \/ RecordDelivery(a) \/ RecordEvent(a)
  \/ PushInsert(a) \/ PushEnqueue(a)
  \/ FindByPr(a) \/ Close(a) \/ CloseCancel(a)
  \/ PreviewInsert(a) \/ PreviewEnqueue(a) \/ Upsert(a)

BuildResult(a) ==
  \/ \E i \in DOMAIN job : RecordSuccess(a, i) \/ RecordFailure(a, i)
  \/ MarkReady(a) \/ FindById(a) \/ MarkFailed(a)

Request(a) ==
  \/ Stop(a) \/ StopCancel(a) \/ StopDeployment(a) \/ StopClose(a)
  \/ Promote(a) \/ PromoteImage(a) \/ PromoteInsert(a) \/ PromoteEnqueue(a)

Next ==
  /\ \E a \in Actor : Webhook(a) \/ BuildResult(a) \/ Request(a) \/ Interrupted(a)
  /\ repeats' + overlaps' + requests' + results' + failures' <= MaxTrouble

Spec == Init /\ [][Next]_vars

---------------------------------------------------------------------------
(* Properties.                                                             *)

Quiet == \A a \in Actor : At(a, "idle")

Local ==
  [pc : {"idle", "record", "store", "push", "pushEnqueue", "find", "close",
         "closeCancel", "insert", "enqueue", "upsert", "ready", "failure", "failed",
         "stopCancel", "stopDeployment", "stopClose", "promoteImage",
         "promoteInsert", "promoteEnqueue"},
   delivery : Delivery \cup {None}, at : Nat,
   deployment : DOMAIN deployment \cup {NoDeployment},
   sha : Commit \cup {None}, image : Commit \cup {None}]

\* Every row and local variable has its type; in particular the deployment a
\* preview or an operation names is one that was inserted (the foreign keys of
\* migration 0005 and of build_jobs).
TypeOK ==
  /\ clock \in Nat
  /\ received \subseteq Delivery /\ repeats \in Nat
  /\ delivery \subseteq received
  /\ event \subseteq delivery
  /\ \/ preview = NoPreview
     \/ preview \in [status : PreviewStatus, head : Commit,
                     deployment : DOMAIN deployment, updatedAt : Nat]
  /\ \A i \in DOMAIN deployment :
       deployment[i] \in
         [status : {"queued", "running", "failed", "stopped"}, commit : Commit,
          image : Commit \cup {None}]
  /\ DOMAIN job \subseteq DOMAIN deployment
  /\ \A i \in DOMAIN job : job[i] \in {"queued", "built", "cancelled"}
  /\ actor \in [Actor -> Local]
  /\ requests \in Nat /\ results \in Nat /\ failures \in Nat
  /\ overlaps \in Nat
  /\ applied \in Nat /\ current \subseteq Actor

CausedBy(d) == {i \in DOMAIN deployment : i[1] = d}

\* However often a delivery arrives, in however many requests at a time and
\* whatever was interrupted, it makes at most one deployment; and a push that was
\* accepted has made one, with its job, when all requests are finished, none was
\* interrupted and there is a queue (record_delivery).
EachDeliveryOnce ==
  \A d \in Delivery :
    /\ Cardinality(CausedBy(d)) <= 1
    /\ (Quiet /\ failures = 0 /\ HasQueue /\ d \in delivery /\ Action(d) = "push")
         => \E i \in CausedBy(d) : i \in DOMAIN job

\* Where there is a queue, a preview never waits for a build that was not queued:
\* the deployment it points to has a job, also after an interruption (apply_event
\* enqueues before it writes the preview).
PreviewBuildQueued ==
  preview # NoPreview /\ HasQueue => preview.deployment \in DOMAIN job

\* An event received before the one the preview shows does not replace it, however
\* long its webhook was held up before it looked the preview up and whatever
\* closings, results and other events came in between, unless the preview changes
\* again before the upsert or a slower clock has set its time back (the comparison
\* of event.created_at with updated_at in apply_event).
LaterEventsWin ==
  [][\A a \in Actor : Upsert(a) /\ a \in current => applied <= actor[a].at]_vars

\* Operations that do not overlap and are not interrupted leave a ready preview
\* pointing to a deployment that runs, and a failed one to a deployment that
\* failed: the result of an older build is not held against the newer one
\* (record_build_success, record_build_failure).
StatusIsTheDeployments ==
  (Quiet /\ overlaps = 0 /\ failures = 0 /\ preview # NoPreview) =>
    /\ preview.status = "ready" => deployment[preview.deployment].status = "running"
    /\ preview.status = "failed" => deployment[preview.deployment].status = "failed"
=============================================================================
