# Verification of the deploy platform

TLA+ models, TLC runs and TLAPS proofs for the deployment platform in this
repository: a Rust service (Axum API, PostgreSQL, Redis Streams) that queues
builds, runs them on workers, releases what they built behind a traffic router,
rolls back, places releases on nodes with an agent each, and makes a preview of
every pull request; and the single-node platform it grew from, which keeps its
state in a file.

Almost every operation of the program is a sequence of SQL statements, Redis
commands and calls to a router or a container runtime, without a transaction
around it, executed by several processes at a time. What is hard to test here is
what happens between two statements. In all modules one statement or one
external call is one step, and any two operations may interleave between steps.

Paths below are relative to the repository (`src/src/queue.rs` is the file
`queue.rs` of the crate). `PROJECT.json` maps every definition to its lines.

## 1. Inventory

| Component (source) | State it keeps | Operations | Interacts with | Hard behaviour | What makes it correct |
|---|---|---|---|---|---|
| Build queue (`queue.rs`, migration 0003) | `build_jobs`, `build_attempts`, two Redis streams with one consumer group, claim counter | enqueue, claim, renew, ack, fail, cancel, requeue_expired | API and preview events enqueue and cancel; workers claim, renew, ack, fail; writes `deployments.status` | two stores without a common transaction, at-least-once delivery, leases, retries, a reaper racing live workers | one worker per job; a job is built at most `max_attempts` times; settled jobs stay settled; no queued job is lost; every job settles |
| Build worker (`worker.rs`, `bin/build-worker.rs`) | local variables of `run_once`, a renewer task | claim, pipeline, ack or fail, loop | queue, repositories, executor, logs | death at any point, errors of any statement, cancellation while building | attempts are attributed to the run that made them |
| Deployment requests (`api.rs`) | `deployments` | create, retry, cancel, rollback | queue, release controller | requests on the same deployment at the same time | a cancelled deployment stays cancelled; a retried one is built |
| Release controller (`releases.rs`, migration 0011) | `releases` with a version per row, `release_transitions`, `active_routes` | create_release, transition, activate_traffic, orchestrate_release | health probe, router, container stopper, rollback | overlapping orchestrations, interruption between route, status and container | the route always leads to a live, healthy release; status changes are legal and recorded |
| Recovery worker (`releases.rs`) | the rows it selected | reconcile_crashed_releases_full | the same tables, router and containers | runs after a crash, or beside another process that is still orchestrating | a recovery that runs to its end leaves no release in between, and none that serves traffic is stopped |
| Traffic router (`traffic.rs`) | one entry per project and environment | prepare, activate, drain, remove | release controller | entries of successive releases share a key | router and `active_routes` agree |
| Rollback (`rollback.rs`, migration 0012) | a new deployment, an audit event | target selection, orchestration of a release with the target's url | release controller | the target may be the release that is serving | a rollback never takes the serving release down |
| Health checks (`health.rs`) | attempt counter | wait_until_healthy | release controller | timeouts, flapping | success at the first answer that meets the policy, after at most `attempts` probes |
| Node scheduler (`scheduler.rs`, migration 0013) | `placements`, used capacity of `nodes` | schedule_release, release_placement, reconcile_expired_leases, reschedule_failed_release | node registry | choice on a snapshot, reservation later; lease expiry racing release | what a node is said to use covers its live placements; a release that was given back is live nowhere |
| Node registry (`node_registry.rs`) | `nodes`, `node_events` | register, heartbeat, drain, enable, rotate identity, evaluate health | scheduler, agents, operators | heartbeats and operators overwriting each other | a node taken out of service stays out until it registers or an operator returns it |
| Agent protocol and server (`agent_protocol.rs`, `agent_server.rs`, `agent_client.rs`, `bin/platform-agent.rs`) | remembered operation ids, credentials, running releases | validate_and_unpack, execute, token issue/rotate/revoke | control plane, container runtime | replays at the edge of the window, retries | an operation is executed at most once, only under valid credentials |
| Previews (`previews.rs`, `preview_events.rs`, migration 0005) | `previews` per pull request | apply_event, record_build_success/failure, teardown, promote | webhooks, queue, worker | events out of order, close racing a build | an event that was held up does not replace a later one; a preview's build is queued; its status is its deployment's |
| Webhooks and source events (`webhooks.rs`, `source_events.rs`) | `provider_deliveries`, `source_events` | receive, deduplicate, normalise, apply | providers, previews, queue | redelivery, failure between recording and applying | each delivery takes effect exactly once |
| Single-node service (`service.rs`, `store.rs`, `runtime.rs`) | `state.json`, containers | create_project, deploy, stop, status | Docker, builder | load-modify-save outside the lock, crash while building | no lost update; the tracked container is the running one |
| Logs (`logs.rs`, stream in `api.rs`) | `deployment_logs`, `log_segments`, segment files | write_line, rotate, poll, server-sent stream, purge | worker, dashboard | inserts out of order, sequence restarting on retry | a reader gets no line twice and none out of order, and misses only what came late; the log of a built deployment is stored |
| Metrics (`metrics.rs`) | samples | record, aggregate, percentile | API | boundaries of windows and percentiles | percentiles are ranks of the samples |
| Cache and artifacts (`cache.rs`, `artifacts.rs`, `builder.rs`) | cache entries, artifact directories | key, lookup, store, prune | worker | stale entries, partial writes | equal keys mean equal inputs |
| Authentication (`auth.rs`) | users, sessions, API tokens | login, logout, issue, revoke, access check | API | expiry, revocation | a revoked or expired credential gives no access |
| Providers (`providers/*`), build execution (`framework.rs`, `detector.rs`, `source_checkout.rs`, `build_executor.rs`), repositories (`repository.rs`, `db.rs`), configuration and types (`config.rs`, `hostname.rs`, `model.rs`, `main.rs`), dashboard | none of their own | I/O, parsing, one SQL statement per method | all of the above | none beyond their callers' | modelled where they are called |

`PROJECT.json` lists the same components with their status, and under `hazards`
the places where this code can go wrong in a way a test would hardly reach.

Where operations are called from matters for what can overlap.
`requeue_expired`, `reconcile_crashed_releases_full`, the scheduler,
`evaluate_health_and_expiry`, `record_build_success` and
`record_build_failure`, `purge_logs_older_than`, `AgentClient` and
`NodeTokenManager` are called by tests only at this commit, so the runs look at
the queue without the reaper (as deployed) and with it, and the models of the
others follow what the functions do and what they are for.
`orchestrate_release` is reached in production code only through
`execute_rollback`; the tests call it for deployments. `rollback_deployment`
(`api.rs:1712`) passes a mock probe, router and stopper that live as long as
the request; the model follows the traits' contracts and the mock router's key,
with a router and containers that outlive the request.

## 2. Plan

Modules in the order they are built; "proofs" marks those to be proved about.

1. `BuildQueue` (queue, worker, deployment requests) and the abstract
   `JobLifecycle` it refines; `BuildQueueProofs`, `BuildQueueEntryProofs`. Done.
2. `Releases` (release controller, router, rollback, recovery);
   `ReleasesProofs`. Done; `RouteServes` is proved for deployments with recovery at
   start-up, where the run checks it.
3. `NodeScheduler`: scheduler and registry on the same `nodes` rows;
   `NodeSchedulerProofs`. Done; the ledger is proved for any number of operations.
4. `Previews`: webhook delivery, source events and previews over an abstract
   queue; `PreviewsProofs`. Done.
5. `AgentProtocol`: the checks of `validate_and_unpack` in their order, the
   replay window against the pruning of remembered ids, credentials. Done; every property
   is proved, in `AgentProtocolProofs`.
6. `DeploymentService`: operation lock, state file and containers, with crashes.
   `DeploymentServiceProofs`. Done.
7. `LogStream`: sink, tables, segments and polling reader; `LogStreamProofs`. Done.
8. Left: `ClaimPriority` (the counter of `queue.rs:304` against an unbounded
   supply of production jobs), sessions and access of `auth.rs`, and the pure
   algorithms as operators checked against reference definitions: health
   attempts, percentiles, cache keys.

Bounds stay at two actors of each kind and two or three items, which is where
the races live: every hazard in the list needs at most two actors and one
interruption. What is proved holds for any number of them.

## 3. Modules

### BuildQueue

`job`, `attempts` and `deployment` are rows of `build_jobs`, `build_attempts` and
`deployments`; `stream` holds the entries of the two streams not delivered yet;
`wk[w]` is the local state of worker `w` inside `run_once`, `req[c]` that of an
API request, `reaper` that of `requeue_expired`. A job is named by its deployment
(`UNIQUE(deployment_id)`). `wk[w].pc` names the statement that comes next:

    idle -> read -> lease -> record -> mark -> check -> workspace -> building
      building -> succeeded -> ack -> ackAttempt -> idle
      building -> fatal -> failRead -> requeue -> requeued -> republish -> idle
                                    -> bury -> buried -> buryMark -> idle

Time is reduced to `expired[d]`, which `LeaseExpires` may set for any running job
and which the renewer task clears while the worker is building. The pending list
of the consumer group is not a variable: no code reads it. `WorkerCrash`,
`RequestCrash` and `ReaperCrash` stand for the end of the process and for a
statement that returns an error, which `?` turns into the end of the operation;
`CrashKinds` and `MaxCrashes` say which and how many. Statements whose error the
code ignores (`let _ =`) are executed: their failure alone is not modelled.

`JobLifecycle` is what a reader of `build_jobs` may rely on: a job is queued,
started at most `MaxAttempts` times, returns to queued only when attempts are
left, and ends completed, failed or cancelled. `ImplementsLifecycle` maps
`job` to it.

### Releases

One project and environment. `release`, `log` and `activeRoute` are the rows of
`releases`, `release_transitions` and `active_routes`; `router` the router's one
entry; `up` the containers that run. `orchestrate_release` is the sequence

    Deploy -> transition(health_checking) -> Probe -> transition(ready)
      -> RouteTraffic -> FindRoute -> ReadPrev -> UpsertRoute -> transition(active)
      -> DrainPrev -> transition(draining) -> Unroute -> StopPrev
      -> transition(stopped)

and `transition` is a procedure of three steps (`TransitionRead`, `TransitionCas`,
`TransitionRecord`) shared with the recovery worker; `tr[p]` holds its arguments
and where it returns to. A release is numbered by its place in the order of
`created_at`. Its url is named by the release whose container it was given: a
rollback copies the url of its target, and the container it names itself is one
no code starts, which is why `RollbackCreate` leaves `up` alone. `Probe` may fail
at any time and may succeed only when a container answers at the url. With
`RecoveryOverlaps = FALSE` recovery runs at start-up, when nothing is under way;
with `TRUE` it belongs to another process.

### NodeScheduler

`node` and `placement` are the rows of `nodes` and `placements`, one resource
standing for CPU and memory, which every statement treats alike. `caller[c]` is an
operation of the scheduler: `schedule_release` is `Schedule` (the SELECT and the
choice) and `Reserve` (the transaction); `release_placement` is `ReleasePlacement`
(the SELECT and its early returns) and `GiveBack`; `reschedule_failed_release`
calls both, and goes on when `release_placement` fails (`GiveBackFails`), because
it drops the error; `reconcile_expired_leases` is `ReconcileScan` and one
`ReconcileRow` per row. The registry's operations act on the same rows:
registration, drain, enable and rotation in one statement each, a heartbeat as
`HeartbeatRead` (identity and version) and `HeartbeatWrite` (compare-and-set on
the version), the monitor as `EvaluateScan` and `EvaluateRow`. The age of a
heartbeat is told in four grades (`Fresh` to `Forgotten`), which is what the
monitor and `list_active_nodes` tell apart for a monitor timeout of at most 30
seconds. What an agent reports is external: here it reports what is placed on its
node when it sends, and the report may be handled any time later. `Schedule` may be
called for a release that is placed already, as nothing in `schedule_release` or the
schema refuses it, and every operation may be interrupted between its steps
(`CallerCrash`). A registration sets the totals and slots of its node to any of
`Totals` and `Slots`. `avoid` holds the nodes an operation leaves out, by
anti-affinity or because they are not among its candidates. The history variable
`clashed` notes that two operations have read the same placement before either
wrote it. One size per release stands for the requirements of its calls.

### Previews

One project and one pull request. `delivery`, `event`, `deployment` and `job` are
the rows of `provider_deliveries`, `source_events`, `deployments` and
`build_jobs`; `preview` is the one row of `previews`, which is unique per project,
provider and number. `actor[a]` is an operation under way, `pc` the statement that
comes next:

    record -> store -> push -> pushEnqueue -> idle
                    -> find -> close -> closeCancel -> idle
                            -> insert -> enqueue -> upsert -> idle

and likewise for the two results of a build, `stop_preview` and
`promote_preview`. `clock` is the slowest wall clock; a reading may find it where it
was, and the process that reads may be ahead by any of `Skew`, so times can be equal
and can go back. `HasQueue` says whether the process was given a queue: without one
`apply_event` still inserts the deployment and a push does nothing. Every row of
`deployments` has the target 'production', a preview's by the default of the column.
`GitHubWord` and `GitLabWord` are the words the two parsers accept. A job's id is
not its deployment's: `CancelJob` takes the id it is given and, as in the code,
matches nothing when that is a deployment's. The history variables `overlaps`,
`failures`, `repeats`, `requests` and `results` count what `MaxTrouble` bounds;
`applied` is the time of receipt of the event last applied, and `current` holds the
operations about to write a preview that has not changed since they looked. The
queue is a row per deployment here; `BuildQueue` says what becomes of it.

### AgentProtocol

One node, one release. `token` is the control plane's `NodeTokenManager`,
`registered`, `revoked` and `remembered` are the validator's three maps, `runtime`
the adapter's. `sent` holds the envelopes ever sent: any of them may arrive again
at any time, as a copy (`own = FALSE`) or by the client's own connection, whose
answer ends the call. `validate_and_unpack` is `Arrive` (steps 1 to 6, which only
read) and `CheckReplay` (step 7, under its lock), and the rest is `Execute`. Time
is counted in half seconds so that `whole_seconds` loses something. That a
command is executed once depends on two durations the code does not bound
together: an id is forgotten `2 * max_skew` after it was handled, and an envelope
is accepted until `max_skew` and almost one second after its timestamp. The sender's
clock is off by any of `Drift`, which nothing bounds: each envelope is stamped by one
of them. `Timely(op)` says that the envelope was stamped less than `max_skew` ahead, up
to the time an envelope spends in the validator and one tick (with the code's 300
seconds: a clock less than some 299 seconds ahead), and the properties are about the
timely ones, among any others. What happens to the rest is told in section 4. The
agent's two clocks, `OffsetDateTime` and `Instant`, are taken to run alike.

### DeploymentService

`file` is `state.json`, `temp` the temporary file with its one name, `containers`
the deployments whose container runs. A store operation is `Load` (and the change
to what was loaded), `Create` (which truncates a temporary file that is there),
`Write` and `Rename`; `fd` says where the file a thread has open is now, since
another thread's rename may have made it the state file. A load may fail because the
file is torn or missing or, as the fault "disk", because it cannot be read
(`LoadFails`, and in `StopOld` and `ClearActive`, which drop the error); a save may fail
at any of its calls. `thread[t].at` is the store operation or call in progress, and the
tables `OnOk` and `OnError` say what
`deploy` and `stop` do next:

    deploy: insert_deployment -> building -> build -> image -> start -> running
              -> old -> old_stopped -> activate        (failed, unstart on errors)
    stop:   halt -> stopped -> own -> clear

`operation_lock` is one per process and not taken by `create_project`. What no lock
keeps apart is noted in `faults` as "overlap" when it happens, so that the
properties can say which of them need that it does not. `ContainersKnown` and
`ActiveServes` name the other faults they need absent in the same way.

### LogStream

One deployment, its attempts and one client. A line is its number, which every
attempt counts from 1; `inserts` and `segInserts` are the tasks that insert rows,
in any order, awaited after a good build and not after a bad one. `rows[n]` is the
attempt whose line holds number `n`. `sink[a]` is the worker of attempt `a`:

    building -> flushing -> waiting -> stored -> dropped -> built -> gone
    building | waiting -> failing -> failed -> gone

where the steps to `dropped` and to `failed` are the flush of the sink's `Drop`, which
waits for nothing.
`requeue_expired` looks at the lease only, so `Requeue` may take the job from a
worker that is at work; it goes on beside the next attempt with its own sink, and
`strays` remembers it. A status UPDATE whose result is dropped may fail (`SetStatus`).
`query_logs` is `ReadRows` and `SendPage` (its second statement, after which the page
is sent), since the status may change between them. `Reconnect` breaks the connection
after any part of a page, and the client comes back with the last number it received
as `after_sequence`. `ReconnectById` is the client that comes back to the same address,
as an `EventSource` does: the handler does not read Last-Event-ID, so the stream starts
over, and `client` holds what was received since. `job` is the row of `build_jobs`
as far as it decides whether there is a further attempt.

## 4. Runs

| Run | Instance | Question | Result |
|---|---|---|---|
| `queue_deployed` | 1 deployment, 2 workers, 2 requests, 2 attempts, no reaper, no interruption, fairness | one worker per job; no queued job without an entry; no stray attempt; refinement of `JobLifecycle`; every job settles | holds, 369 thousand states |
| `queue_reaper` | the same with the reaper and one interruption of anything, 1 request | ownership, bound on builds, settled jobs, leases taken only from their holder, types | holds |
| `queue_cancel_reverts` | 1 worker, 1 request | a cancelled deployment stays cancelled | violated |
| `release_route` | 3 deployments, 2 at a time, 2 interruptions, recovery at start-up, fairness of orchestrations | the route leads to a live, ready or active release; a recovery that ends leaves no release in an intermediate status; without an interruption none stays in one | holds |
| `release_cas` | 2 releases, deployments, rollbacks and recovery at the same time, 1 interruption | legal transitions, complete history, types | holds, 561 thousand states |
| `release_rollback_outage` | deployments and rollbacks one after the other | the route leads to a live release | violated |
| `scheduler_ledger` | 2 nodes, 2 releases of different size, 3 placements, 2 operations at a time, any of them repeated or interrupted, errors dropped | what a node is said to use covers what is placed on it, unless two operations read the same placement before either wrote it; a release whose newest placement has ended is live nowhere | holds, 1.12 million states |
| `registry_reopen` | 1 node, 2 totals, 2 heartbeats handled at a time, 3 operator requests, registrations or silences | a node out of service returns only on purpose; types, among them that no counter falls below zero | holds |
| `previews` | 5 deliveries, 2 commits, 2 operations at a time, clocks that differ, 2 of: repetition, overlap, result, request, interruption | no delivery acts twice and a push is queued; a preview's build is queued; an event held up does not replace a later one; the preview's status is its deployment's; types | holds, 1.82 million states |
| `agent_protocol` | 2 calls, 4 kinds of command, 2 envelopes at a time, window of 2 s, senders 0.5 and 2.5 s ahead, 4 s, one of: copy, call given up, change of credentials, shutdown | a timely operation is executed once; a confirmed stop holds; retired credentials stay invalid; types | holds |
| `deployment_service` | 2 projects, 2 deployments, 2 requests of a server and the command line, 2 faults | the state file is whole and loses nothing; containers are known; a project's container is its active deployment's; types | holds, 775 thousand states |
| `log_stream` | attempts of 1 and 3 lines, pages and segments of 2, one fault, a lost lease among them, fairness | the stream is in order, skips only what came late, and ends; the log of a built deployment is stored; segments tile the log; types | holds, 849 thousand states |

Why the bounds are enough: one deployment is enough for the queue because no
statement of `queue.rs` touches two jobs; two workers and two requests meet every
pair of statements; two attempts give a first and a last one, which is all the
code tells apart. Three releases give a deployment a predecessor that itself
replaced one; two interruptions let recovery be interrupted after an interrupted
orchestration. Three placements let a release be moved twice, or once while
another is placed. The five deliveries open, change and close a pull request in
any order, so that a change may also come after the closing and open it again, push
a branch and bring one word a parser refuses. The window of two seconds and four
seconds of time let an id be remembered, pruned and asked for again: the edge in the
past is reached, as the mutant that prunes after one `max_skew` shows. The edge in the
future is in the run too, by the sender 2.5 seconds ahead whose timestamps are accepted
because seconds are truncated, but `ExecutedOnce` promises nothing of its envelopes;
the paragraph on the agent below says what becomes of them. Two projects and two
deployments give a name to collide with and a deployment to replace; three threads give two that the lock orders and one of
another process. Attempts of one and three lines give the second attempt a number
the first has used and two it has not, and a full page and a full segment.

Interruptions are left out of `queue_deployed`, because an interruption does lose
jobs (see below); the two safety properties of that run that survive
interruptions, `OneWorkerPerJob` and `ImplementsLifecycle`, are proved with them.
Deadlock checking is off for the runs of `Releases`, `Previews`, `AgentProtocol`,
`DeploymentService` and `LogStream`: when nothing more is requested and all that
was requested has ended, the system stops.

### What the violated runs show

* `queue_cancel_reverts`: `run_once` and `claim` write `deployments.status`
  without looking at it, so a deployment cancelled during its build becomes
  building, running or failed again.
* `release_rollback_outage`: `select_rollback_target` accepts an active release,
  so a rollback of a failed deployment targets the one serving traffic, copies
  its url, then drains it and stops the container both share.

### Met on the way

Behaviours of the models that are not the subject of a run; each was seen in a
counterexample of TLC or follows from the action named.

Queue. `claim` reads new entries only: a worker that dies between `XREADGROUP` and
its `UPDATE` leaves a queued job whose entry nobody is ever given again, since
`requeue_expired` selects running jobs (plan m3b, line 104: "Jobs survive worker
restart"). `retry_deployment` sets the deployment to queued, then `enqueue`
conflicts with the existing job row and publishes nothing. `requeue_expired`
publishes an entry even when its `UPDATE` matched no row, and `claim` accepts failed
jobs, so a dead-lettered job can be claimed again; and it compares the attempt it
selected earlier with `max_attempts`, so a job leased for its last attempt in
between goes back to queued with no attempt left, where no claim takes it.

Releases. `router.remove` for the old release deletes the entry of the new one,
since entries are keyed by project and environment. Recovery does not select active
releases, so a crash between activation and draining leaves two for good; so do two
deployments that overlap and read the same predecessor. Recovery that runs beside an
orchestration takes its ready release for an abandoned one, and stops the container
while the orchestration gives it the route.

Nodes. `schedule_release` reserves without looking again at the node it chose, so
two calls fill the same last place, and a node drained in between receives the
placement (plan m6, line 83: "Scheduler placement respects capacity and draining
state"). It inserts a placement for every call and nothing looks for one the release
has, so a call repeated after a restart leaves the release live twice (plan m6, line
7: "cannot create uncontrolled duplicate releases"), as does the error that
`reschedule_failed_release` drops; `release_placement` then stops both and gives one
allocation back, so the account of a node may stay above what is placed there:
`LedgerCovers` says that it does not fall below. Two operations that have read the same
placement before either wrote it give its allocation back twice, and the account does
fall below; `clashed` is the exception in `LedgerCovers`. A node the monitor marked
degraded or offline comes back by registering again or by being undrained, not by
heartbeats; a heartbeat checked before an identity is rotated is applied after.

Previews. Events are ordered by the time their webhooks were received
(`webhooks.rs:112`), against the time the preview changed last: an older commit whose
delivery arrives after the newer one's is the later event and replaces it, with
nothing else under way (plan m3c, line 48: "so an older commit cannot replace a newer
preview"; the test at `previews_test.rs:229` sets the time itself). What the comparison
does keep out, an event received earlier and held up, is `LaterEventsWin`; two
operations that both compared before either wrote are its exception.
`record_build_success` points the preview to the deployment it is given
whatever the preview's head is by then, so an older build that ends late replaces
the newer one; a promotion then copies the older image under the newer commit. The
upsert of a new commit moves the preview to the new deployment at once, so when
that build fails there is no prior healthy deployment to preserve, as the comment
at `preview_events.rs:222` means to. Closing and stopping cancel by deployment id,
which is no job's id: the build goes on and makes the preview ready again. A
delivery whose handling failed after `record_delivery` is answered and dropped when
the provider sends it again, and its event is never stored (plan m3a, line 91: "create
exactly one normalized source event"). GitLab's word for a merged merge request is
refused, so merging does not tear a preview down (plan m3c, line 5). Without a queue a
pull request gets a preview that is building and that nothing builds.

Agent. A timestamp `max_skew` ahead is accepted (`agent_protocol.rs:400`) and stays in
the window for `2 * max_skew` and the second that truncation hides; its operation id is
forgotten after `2 * max_skew` (line 449). Past the margin `Timely` names, a second
delivery at the end of the window is executed again (`docs/node-agent.md`, line 8, has
the id "to prevent replay attacks and duplicate release allocations"), and a start
of that kind can undo a stop that was confirmed.

Single node. `create_project` and the command line save without the server's lock.
Overlapping operations lose each other's changes, may create two projects of one
name, and, since the temporary file is shared, may rename a file another thread
is still writing: then `state.json` is torn, and every operation fails from
there on (design m1, line 360: "preserves a valid previous state if a write
fails"). A crash leaves a deployment building for good, or a container the state
does not name; so does a container that was started and not found in the list.

Logs. A line inserted after the stream has passed its number is never sent; when a
build fails nobody waits for the sink's tasks, so the last lines are the likely ones.
`query_logs` reads the rows before the status, so the stream may end with lines in
the table it did not send. A second attempt numbers its lines from 1 and the table
refuses them where the first had that number. A worker that lost its lease writes
segment files over those of the next attempt, inserts its lines first, and sets the
deployment to running whatever becomes of that attempt. A client that reconnects with
Last-Event-ID, as the ids of the events invite it to (`FRONTEND.md`, line 644: "reconnect
with a last-event ID"), is sent every line again. The status of a deployment that was
built is running, which is not terminal: its stream does not end.

## 5. Fairness

`JobsSettle` assumes weak fairness of each worker's
next statement (`run_loop` polls for ever), of each accepted request and of the
reaper where it runs; no request is obliged to be made, no lease to expire and
nothing to crash. The pipeline ends because the executor has a timeout.
`ReleasesSettle` assumes weak fairness of each orchestration under way (the
probe's attempts and the drain are bounded by timeouts) and of nothing else: no
deployment is obliged to be requested, and, since nothing schedules `run_recovery`,
no recovery to run. It is therefore about releases without an interruption; what
recovery is for is the invariant `RecoverySettles`, about a recovery that came to its
end. `StreamEnds` assumes weak fairness of the stream's two queries, which the task of
`stream_deployment_logs` repeats every 200 ms. That includes a client that reads what it
is sent: the task waits in `tx.send` when 100 events are under way. It says nothing
unless the deployment stays failed, cancelled or stopped, and no build or insert is
obliged to do anything.

## 6. Proofs

All theorems hold for arbitrary sets of deployments, workers, requests,
orchestrations, handlers, nodes, deliveries, threads and processes and for any
number of interruptions, under the named assumptions on the constants, one in each
module: the bounds are natural numbers, the totals of nodes positive ones, and `None` is
no element of the sets.

`BuildQueueProofs`

* `TypeCorrect`: `TypeOK`, with the reaper or without. The local variables have
  to be typed by program counter (`LocalsOK`), since `claim` copies the attempt
  it read into the row of `build_attempts`.
* `OwnedExactlyWhileRunning`: `lease_owner` is set exactly while the job runs.
  This is the fact that makes the `WHERE lease_owner = $1` of `fail` as strong as
  the `AND status = 'running'` of `ack`.
* `SettledStay`: nothing changes the row of a completed or cancelled job. It
  follows from `OwnerInv`: a settled job has no owner, so no worker's `UPDATE`
  matches, and `claim` accepts queued and failed jobs only.
* `LeaseTakenOnlyBy`: the action property `LeaseIsTheWorkers`, case by case over
  the statements that write a row, from `OwnerInv` and `ReaperCalled` (the reaper is
  under way only where something calls it).
* `RunningAttemptsAreHeld`: `RunningAttemptHasWorker`. `AttemptInv` says besides
  that the worker is not past the statement of `fail` that settles its attempts
  (`Working`), or the end of the run would leave a row behind. It needs no unique
  claim: a row names its writer, and only its writer settles it.
* `BuildsAreBounded`: `BuildsBounded`. The pipelines that were started together with
  those that a worker with a lease may still start (`Starting`, a finite set) are
  no more than the attempts counted (`CountInv`); a lease adds one to both sides and
  a started pipeline moves one worker from the set to the count.

`BuildQueueEntryProofs`, where nobody calls `requeue_expired`

* `OneWorker`, `QueueImplementsLifecycle`, `NoJobIsLost`. `OneWorkerPerJob` is far
  from inductive: what keeps two workers apart is that a job has at most one
  stream entry, counting the one a worker holds and the one a request or a `fail`
  is about to publish. The invariant `QueueInv` adds to `OwnerInv` that there is
  at most one such entry (`OneEntry`), what the row must look like while there is
  one (`RowKnown`) and what its holder knows at each program counter
  (`HolderKnows`). `NoJobIsLost` adds `FoundInv`, which holds until something is
  interrupted.

`ReleasesProofs`

* `ReleasesTypeCorrect`: `TypeOK`, including that no release gets beyond
  version 6.
* `TransitionsAreLegal`: every status change is one `can_transition_to` allows.
  The check and the `UPDATE` are separate statements and the `UPDATE` compares
  the version only, so the invariant (`ReleaseInv`) has to say where versions come
  from: each version held by a caller, by a transition under way or by a row the
  recovery worker selected is one that very release has or had (`Knows`). A
  release that changes gets a higher version (`Grows` in the proofs), hence an
  equal version at the `UPDATE` means the status checked is the status replaced
  (`CasKnows`). Legality then keeps status and version in step (`LifeInv`), which
  bounds the version.
* `HistoryAlwaysComplete`: `HistoryComplete`. While a change is made and not
  recorded the table has a gap, so the invariant (`StoryInv`) is about the `Story` of
  a release, the records together with the changes pending in some process. A
  compare-and-set adds the pair of the status it replaced, by `CasKnows` the one its
  caller checked, and the new status; statuses only move forward (`Rank`), so the
  pair is not there yet and the number of pairs grows with the version.
* `RouteAlwaysServes`: `RouteServes`, under `DeploysOnly` (no rollbacks, recovery at
  start-up only), as the run `release_route` has it; section 4 tells what a rollback
  does to the route, and recovery beside an orchestration. `RouteInv` follows an
  orchestration through its life. Until it moves the route (`Private`) its release
  does not have the route, and no other orchestration has it as its own or as the
  one to replace; it is ready and up by the time it gets the route (`MadeReady`,
  `KeepsUp`); from then on (`Past`) the one it replaces has lost the route and, ids
  being fresh, does not get it back. Recovery runs by itself, and the release with
  the route can only be among its rows as ready, hence is activated
  (`RecoveryFits`).
* `RecoveryAlwaysSettles`: `RecoverySettles`, for recovery at start-up, with rollbacks too.
  `SettleInv` says that while recovery runs a release in an intermediate status is among
  the rows that are left (`Listed`) or is the one in hand (`InHand`).

`AgentProtocolProofs`

* `AgentTypeCorrect`: `TypeOK`.
* `RetiredNeverValid`: `RetiredStayInvalid`. Epochs start again at 1, so the
  invariant (`KeyInv`) is about keys: the token's key is the newest, and a retired
  key is older or the token is revoked.
* `NeverTwice`: `ExecutedOnce`, for every `max_skew` and every set of clocks `Drift`.
  `TimeInv` says that an envelope was sent before now and that one which waits to be
  looked up was in the window at most `Lag` ago. `OnceInv` says that a timely operation
  that was let through is `Barred` (its id is remembered, with a time after it was sent)
  or `Closed` (too old for the window, and for any envelope still in the validator), and
  that only one handler is about to execute it. An id that is pruned was handled
  `2 * max_skew` ago, hence is `Closed` (`PrunedIsClosed`); this is where `Timely` is
  needed.
* `StopIsKept`: `StopHolds`. `StopInv` adds that only the last call can be under
  way and that what was answered as done was executed; with `OnceInv`, a command
  executed when all calls are done is the last one.

`NodeSchedulerProofs`

* `TypeCorrect`: `TypeOK`, and `ReopenedOnlyOnPurpose`: `ReopenedOnPurpose`, for
  any number of callers and handlers at the same time.
* `LedgerAlwaysCovers`: `LedgerCovers`, for any number of operations at the same time,
  repeated calls, interruptions and registrations that change totals. The account has
  to cover more than the live placements: also those an operation has read and is yet
  to give back (`Held`), since it will subtract them whatever has become of them.
  `LedgerInv` says so (`Covered`), that no placement is in the hands of two operations
  (`Apart`), both until `clashed`, and that the placement to be given back is of the
  release that is stopped (`CallerReady`). Sums are cardinalities of sets of units,
  since a fold would need induction over data.
* `NewestAlwaysDecides`: `NewestDecides`, for the same. No statement makes a placement
  active (`NeverActive`), so what `release_placement` and `reconcile_expired_leases`
  update covers every live placement of the release.

`PreviewsProofs`

* `Inv` has four parts. `Typed`: rows and local variables by program counter.
  `Once`: a recorded delivery is carried by one operation at most, and until that
  one inserts there is no deployment for it. `Pushed`: a push that was accepted
  has its deployment and job, or an operation on its way to them. `Sequential`:
  while nothing overlaps and nothing is interrupted, what is true at each point of
  the one operation under way (`Sound`), among it which event it is about to apply
  and whether it is about to correct the preview's status.
* `TypeCorrect`, `DeliveriesActOnce` and `BuildAlwaysQueued` (where there is a queue)
  hold through overlaps and interruptions; `StatusAlwaysTheDeployments` is about
  operations one after the other, as the property says itself.
* `LaterEventsAlwaysWin`: `LaterEventsWin`, through overlaps, interruptions and clocks
  that differ. `Fresh` says of each operation in `current` that its event was received no
  earlier than the one last applied; the comparison of `apply_event` establishes it, since
  a preview's `updated_at` is no earlier than the event it shows unless a slower clock has
  set it back, and any other write of the preview takes the operation out of `current`.

`LogStreamProofs`

* `TypeCorrect`, `SegmentsAlwaysTile` (with `BufferBounded`, and `StraysKnown`: an attempt
  that may still write beside a later one is on record), `StreamAlwaysInOrder`
  (with `OrderInv`: the stream continues after the last number the client
  received, and the page is beyond it), `StreamAlwaysSkipsOnlyLate` (with `SkipInv`:
  a row the stream has passed was sent, is on the page, or came late) and
  `BuiltLogAlwaysStored` (with `LinesKept`, `SegmentsKept` and `WorkDone`, for every
  attempt at work, the ones that lost their lease included: each line has its row, a
  task that will insert it, or lost it, and a worker that built has no task left).

`DeploymentServiceProofs`

* `Inv` has four parts, each under its own condition on `faults`. `Typed` holds
  always; it types a thread by its point in `deploy` or `stop` and ties the locks to
  those points. `Ordered` holds while no two operations overlapped: one
  `create_project` and one `deploy` or `stop` at most are under way and one of them
  saves (`Solo`); the state file is sound; each thread's records are in the file as
  its point requires (`Expects`: the status of its deployment, the active
  deployment it will replace, the name it found free); what a thread saves is the
  change of the file as it is now (`Saves`). `Known` holds while, besides, no process
  ended, no stop failed and no container was missed: a container is recorded as
  running or was just started, and one about to be recorded as stopped is gone.
  `Served` holds while only builds failed: the containers of a project at each point
  of its operation.
* `TypeCorrect`, `StateAlwaysSound`, `RecordsAlwaysKept` (an action property: only
  `Rename` changes the file then, by `Saves` to the change of the file, and by
  `Expects` the record it replaces had not ended), `ContainersAlwaysKnown` and
  `ActiveAlwaysServes`.

Only model-checked: the liveness properties `JobsSettle`, `ReleasesSettle` and
`StreamEnds`, which are out of the prover's reach.

## 7. Not modelled

Formatting, logging, audit records, permissions of the requests, the contents of
builds, ports and hostnames. Signatures of webhooks and of agent envelopes are
taken to be unforgeable, and only deliveries that pass the check are modelled.
Redaction of log lines is a rewriting of text. `LogRepository::append`,
`record_segment` and `PreviewRepository::increment_cleanup_attempt` have no
caller. Metrics, the build cache, authentication, the repositories' single
statements and the dashboard have no module; section 1 and `PROJECT.json` say why
or that they are left in the plan. Time is abstracted to "has expired", to an order
of readings, or, in `AgentProtocol`, to half seconds of one clock and a given set of
differences from the sender's.
