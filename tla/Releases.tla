------------------------------ MODULE Releases ------------------------------
(***************************************************************************)
(* The release controller (src/releases.rs) with the traffic router        *)
(* (src/traffic.rs), rollback (src/rollback.rs) and crash recovery, for    *)
(* one project and environment.                                            *)
(*                                                                         *)
(* A release is orchestrated by a request that talks to PostgreSQL, to the *)
(* health probe, to the router and to the container runtime in turn, so    *)
(* each statement and each call is a step of its own.  transition is a     *)
(* procedure of three statements (read, compare-and-set, append a record)  *)
(* that orchestrate_release and the recovery worker both call; what it was *)
(* called with is in tr, where it returns to in tr.next.                   *)
(*                                                                         *)
(* A release's url is the address of a container, and is named by the      *)
(* release that container was started for.  rollback copies the url of its *)
(* target and names a container of its own that no code starts.            *)
(*                                                                         *)
(* Release ids are fresh UUIDs and every query that orders releases does   *)
(* so by created_at, so releases are numbered in the order of creation.    *)
(***************************************************************************)
EXTENDS Naturals, FiniteSets

CONSTANTS
  MaxReleases,     \* bound on the number of releases created
  Op,              \* orchestrations that may be under way at a time
  Recovery,        \* the recovery worker
  Rollbacks,       \* whether rollbacks are requested, or deployments only
  RecoveryOverlaps,\* whether recovery runs beside orchestrations, in another
                   \* service process, or only at start-up
  MaxCrashes,      \* bound on the number of interrupted operations
  None             \* SQL NULL

ASSUME ReleasesAssumption ==
  /\ Recovery \notin Op
  /\ Rollbacks \in BOOLEAN
  /\ RecoveryOverlaps \in BOOLEAN
  /\ MaxCrashes \in Nat
  /\ MaxReleases \in Nat
  /\ None \notin Nat

VARIABLES
  release,      \* releases: status, version and url of each row
  minted,       \* how many releases have been created
  log,          \* release_transitions of each release
  activeRoute,  \* active_routes.active_release_id
  router,       \* the router's entry: the release it sends traffic to
  up,           \* the releases whose own container is running
  pc,           \* where each process is between two statements
  loc,          \* local variables of orchestrate_release
  tr,           \* arguments and local variables of transition
  rows,         \* rows the recovery worker has still to look at
  crashes       \* history: operations interrupted so far

db   == <<release, minted, log, activeRoute>>
vars == <<db, router, up, pc, loc, tr, rows, crashes>>

Release == 1..MaxReleases

Proc == Op \cup {Recovery}

Status == {"none", "starting", "health_checking", "ready", "active",
           "draining", "stopped", "failed"}

\* can_transition_to
Legal == {<<"starting", "health_checking">>, <<"starting", "failed">>,
          <<"health_checking", "ready">>, <<"health_checking", "failed">>,
          <<"ready", "active">>, <<"ready", "stopped">>, <<"ready", "failed">>,
          <<"active", "draining">>, <<"active", "stopped">>,
          <<"active", "failed">>,
          <<"draining", "stopped">>, <<"draining", "failed">>}

\* The statuses reconcile_crashed_releases_full selects.
Intermediate == {"starting", "health_checking", "ready", "draining"}

CallerPC == {"idle", "create", "probe", "stopNew", "route", "findRoute",
             "readPrev", "upsert", "drain", "unroute", "stopPrev",
             "rows", "recStop", "recUnroute"}

PC == CallerPC \cup {"read", "cas", "record"}

MaybeRelease == Release \cup {None}

\* No release has a longer life than from starting (version 1) through
\* health_checking, ready, active and draining to stopped or failed.
MaxVersion == 6

NoLocals == [release |-> None, version |-> 0, prev |-> None,
             prevVersion |-> 0, target |-> None]

NoCall == [id |-> None, expected |-> 0, to |-> "none", from |-> "none",
           next |-> "idle"]

Locals == [release : MaybeRelease, version : Nat, prev : MaybeRelease,
           prevVersion : Nat, target : MaybeRelease]

Call == [id : MaybeRelease, expected : Nat, to : Status, from : Status,
         next : CallerPC]

Row == [id : Release, status : Intermediate, version : Nat]

TypeOK ==
  /\ release \in [Release -> [status : Status, version : 0..MaxVersion,
                              url : MaybeRelease]]
  /\ minted \in 0..MaxReleases
  /\ log \in [Release -> SUBSET (Status \X Status)]
  /\ activeRoute \in MaybeRelease
  /\ router \in MaybeRelease
  /\ up \subseteq Release
  /\ pc \in [Proc -> PC]
  /\ loc \in [Proc -> Locals]
  /\ tr \in [Proc -> Call]
  /\ rows \subseteq Row
  /\ crashes \in 0..MaxCrashes

Init ==
  /\ release = [r \in Release |-> [status |-> "none", version |-> 0,
                                   url |-> None]]
  /\ minted = 0
  /\ log = [r \in Release |-> {}]
  /\ activeRoute = None
  /\ router = None
  /\ up = {}
  /\ pc = [p \in Proc |-> "idle"]
  /\ loc = [p \in Proc |-> NoLocals]
  /\ tr = [p \in Proc |-> NoCall]
  /\ rows = {}
  /\ crashes = 0

-----------------------------------------------------------------------------
(* ReleaseController::transition                                           *)

Goto(p, q) == pc' = [pc EXCEPT ![p] = q]

\* Start transition(r, v, s); when it succeeds the caller goes on at q.
CallTransition(p, r, v, s, q) ==
  /\ Goto(p, "read")
  /\ tr' = [tr EXCEPT ![p] = [id |-> r, expected |-> v, to |-> s,
                              from |-> "none", next |-> q]]

\* The operation is over.
End(p) ==
  /\ Goto(p, "idle")
  /\ loc' = [loc EXCEPT ![p] = NoLocals]
  /\ tr' = [tr EXCEPT ![p] = NoCall]

\* transition returns an error: `?` ends an orchestration with it, the
\* recovery worker goes on with its next row.
Error(p) ==
  \/ /\ p \in Op
     /\ End(p)
  \/ /\ p = Recovery
     /\ Goto(p, "rows")
     /\ tr' = [tr EXCEPT ![p] = NoCall]
     /\ UNCHANGED loc

\* get_release, and the check that its status may change to the target.
TransitionRead(p) ==
  LET from == release[tr[p].id].status IN
  /\ pc[p] = "read"
  /\ \/ /\ <<from, tr[p].to>> \in Legal
        /\ Goto(p, "cas")
        /\ tr' = [tr EXCEPT ![p].from = from]
        /\ UNCHANGED loc
     \/ /\ <<from, tr[p].to>> \notin Legal
        /\ Error(p)
  /\ UNCHANGED <<db, router, up, rows, crashes>>

\* Mutant of TransitionCas: WHERE id = r, without the version.
TransitionUnconditional(p) ==
  /\ pc[p] = "cas"
  /\ release' = [release EXCEPT ![tr[p].id].status = tr[p].to,
                                ![tr[p].id].version = @ + 1]
  /\ Goto(p, "record")
  /\ UNCHANGED <<minted, log, activeRoute, router, up, loc, tr, rows,
                 crashes>>

\* UPDATE ... SET status, version = version + 1 WHERE id = r AND version = v
TransitionCas(p) ==
  LET r == tr[p].id IN
  /\ pc[p] = "cas"
  /\ \/ /\ release[r].version = tr[p].expected
        /\ release' = [release EXCEPT ![r].status = tr[p].to,
                                      ![r].version = @ + 1]
        /\ Goto(p, "record")
        /\ UNCHANGED <<loc, tr>>
     \/ /\ release[r].version # tr[p].expected
        /\ Error(p)
        /\ UNCHANGED release
  /\ UNCHANGED <<minted, log, activeRoute, router, up, rows, crashes>>

\* Mutant of TransitionRecord: from_status is bound to the status of the row
\* the UPDATE returned.
TransitionRecordsTarget(p) ==
  /\ pc[p] = "record"
  /\ log' = [log EXCEPT ![tr[p].id] = @ \cup {<<tr[p].to, tr[p].to>>}]
  /\ Goto(p, tr[p].next)
  /\ loc' = [loc EXCEPT ![p] = IF tr[p].next = "idle" THEN NoLocals
                               ELSE [@ EXCEPT !.version = tr[p].expected + 1]]
  /\ tr' = [tr EXCEPT ![p] = NoCall]
  /\ UNCHANGED <<release, minted, activeRoute, router, up, rows, crashes>>

\* INSERT INTO release_transitions; the updated row is returned.
TransitionRecord(p) ==
  /\ pc[p] = "record"
  /\ log' = [log EXCEPT ![tr[p].id] = @ \cup {<<tr[p].from, tr[p].to>>}]
  /\ Goto(p, tr[p].next)
  /\ loc' = [loc EXCEPT ![p] = IF tr[p].next = "idle" THEN NoLocals
                               ELSE [@ EXCEPT !.version = tr[p].expected + 1]]
  /\ tr' = [tr EXCEPT ![p] = NoCall]
  /\ UNCHANGED <<release, minted, activeRoute, router, up, rows, crashes>>

-----------------------------------------------------------------------------
(* execute_rollback and orchestrate_release                                *)

\* An orchestration may begin: recovery is over where it runs at start-up.
MayBegin(o) ==
  /\ pc[o] = "idle"
  /\ RecoveryOverlaps \/ pc[Recovery] = "idle"

\* create_release with the url u, then transition to health_checking.
CreateRelease(o, r, u) ==
  /\ minted < MaxReleases
  /\ minted' = r
  /\ release' = [release EXCEPT ![r] = [status |-> "starting", version |-> 1,
                                        url |-> u]]
  /\ loc' = [loc EXCEPT ![o] = [NoLocals EXCEPT !.release = r,
                                                !.version = 1]]
  /\ CallTransition(o, r, 1, "health_checking", "probe")
  /\ UNCHANGED <<log, activeRoute, router, rows, crashes>>

\* orchestrate_release for a container its caller has started.
Deploy(o) ==
  /\ MayBegin(o)
  /\ CreateRelease(o, minted + 1, minted + 1)
  /\ up' = up \cup {minted + 1}

\* The releases select_rollback_target chooses from when a rollback of the
\* deployment of release current is requested.  Every release has a deployment
\* of its own.  The rows of deployments belong to the queue and its workers:
\* kept holds the releases whose deployment is running or stopped.
Candidates(current, kept) ==
  {r \in kept \ {current} : release[r].status \in {"active", "stopped"}}

\* The newest candidate is the target; without one the request is refused.
\* A number no release has yet stands for a deployment without a release.
RollbackSelect(o, current, kept) ==
  /\ Rollbacks
  /\ MayBegin(o)
  /\ \E target \in Candidates(current, kept) :
       /\ \A r \in Candidates(current, kept) : r <= target
       /\ loc' = [loc EXCEPT ![o].target = target]
  /\ Goto(o, "create")
  /\ UNCHANGED <<db, router, up, tr, rows, crashes>>

RollbackCreate(o) ==
  /\ pc[o] = "create"
  /\ CreateRelease(o, minted + 1, release[loc[o].target].url)
  /\ UNCHANGED up

\* wait_until_healthy may succeed: a container is there to answer at url.
Answers(url) == url \in up

Probe(o) ==
  LET mine == loc[o].release IN
  /\ pc[o] = "probe"
  /\ \/ /\ Answers(release[mine].url)
        /\ CallTransition(o, mine, loc[o].version, "ready", "route")
     \/ /\ Goto(o, "stopNew")
        /\ UNCHANGED tr
  /\ UNCHANGED <<db, router, up, loc, rows, crashes>>

\* The replacement is unhealthy: its container is stopped.
StopNew(o) ==
  /\ pc[o] = "stopNew"
  /\ up' = up \ {loc[o].release}
  /\ CallTransition(o, loc[o].release, loc[o].version, "failed", "idle")
  /\ UNCHANGED <<db, router, loc, rows, crashes>>

\* TrafficRouter: there is one entry per project and environment.  activate
\* replaces it, remove deletes it whatever release it names, prepare and
\* drain leave it alone.
RouterActivate(r) == router' = r

RouterRemove == router' = None

\* activate_traffic: router.prepare and router.activate.
RouteTraffic(o) ==
  /\ pc[o] = "route"
  /\ RouterActivate(loc[o].release)
  /\ Goto(o, "findRoute")
  /\ UNCHANGED <<db, up, loc, tr, rows, crashes>>

\* get_active_release, statement 1; a route to the release itself is ignored.
FindRoute(o) ==
  /\ pc[o] = "findRoute"
  /\ loc' = [loc EXCEPT ![o].prev =
               IF activeRoute = loc[o].release THEN None ELSE activeRoute]
  /\ Goto(o, IF loc'[o].prev = None THEN "upsert" ELSE "readPrev")
  /\ UNCHANGED <<db, router, up, tr, rows, crashes>>

\* get_active_release, statement 2: the version of the previous release.
ReadPrev(o) ==
  /\ pc[o] = "readPrev"
  /\ loc' = [loc EXCEPT ![o].prevVersion = release[loc[o].prev].version]
  /\ Goto(o, "upsert")
  /\ UNCHANGED <<db, router, up, tr, rows, crashes>>

\* INSERT INTO active_routes ... ON CONFLICT DO UPDATE, then transition to
\* active.
UpsertRoute(o) ==
  /\ pc[o] = "upsert"
  /\ activeRoute' = loc[o].release
  /\ CallTransition(o, loc[o].release, loc[o].version, "active",
                    IF loc[o].prev = None THEN "idle" ELSE "drain")
  /\ UNCHANGED <<release, minted, log, router, up, loc, rows, crashes>>

DrainPrev(o) ==
  /\ pc[o] = "drain"
  /\ CallTransition(o, loc[o].prev, loc[o].prevVersion, "draining", "unroute")
  /\ UNCHANGED <<db, router, up, loc, rows, crashes>>

\* router.drain and router.remove
Unroute(o) ==
  /\ pc[o] = "unroute"
  /\ RouterRemove
  /\ Goto(o, "stopPrev")
  /\ UNCHANGED <<db, up, loc, tr, rows, crashes>>

\* Mutant of StopPrev: with the version the previous release had before it was
\* drained.
StopPrevOldVersion(o) ==
  /\ pc[o] = "stopPrev"
  /\ up' = up \ {loc[o].prev}
  /\ CallTransition(o, loc[o].prev, loc[o].prevVersion, "stopped", "idle")
  /\ UNCHANGED <<db, router, loc, rows, crashes>>

StopPrev(o) ==
  /\ pc[o] = "stopPrev"
  /\ up' = up \ {loc[o].prev}
  /\ CallTransition(o, loc[o].prev, loc[o].version, "stopped", "idle")
  /\ UNCHANGED <<db, router, loc, rows, crashes>>

-----------------------------------------------------------------------------
(* ReleaseRecoveryWorker: reconcile_crashed_releases_full                  *)

\* SELECT the releases whose status is in S.
RecoverRowsIn(S) ==
  LET found == {r \in Release : release[r].status \in S} IN
  /\ pc[Recovery] = "idle"
  /\ RecoveryOverlaps \/ \A o \in Op : pc[o] = "idle"
  /\ found # {}
  /\ rows' = {[id |-> r, status |-> release[r].status,
               version |-> release[r].version] : r \in found}
  /\ Goto(Recovery, "rows")
  /\ UNCHANGED <<db, router, up, loc, tr, crashes>>

\* Mutant of RecoverScan: the rows reconcile_crashed_releases selects.
RecoverScanWithoutReady ==
  RecoverRowsIn({"starting", "health_checking", "draining"})

RecoverScan == RecoverRowsIn(Intermediate)

\* Mutant of RecoveredStatus: a release that is ready always fails.
RecoveredNeverActive(row) ==
  IF row.status = "draining" THEN "stopped" ELSE "failed"

\* What becomes of a row, by the status it was selected with and by whether
\* it has the active route now.
RecoveredStatus(row) ==
  CASE row.status \in {"starting", "health_checking"} -> "failed"
    [] row.status = "ready" -> IF activeRoute = row.id THEN "active"
                                                       ELSE "failed"
    [] row.status = "draining" -> "stopped"

\* The oldest row left; its container is stopped first unless it is
\* activated.
RecoverRow(row) ==
  LET to == RecoveredStatus(row) IN
  /\ pc[Recovery] = "rows"
  /\ \A other \in rows : row.id <= other.id
  /\ rows' = rows \ {row}
  /\ tr' = [tr EXCEPT ![Recovery] =
              [id |-> row.id, expected |-> row.version, to |-> to,
               from |-> row.status, next |-> "rows"]]
  /\ Goto(Recovery, IF to = "active" THEN "read" ELSE "recStop")
  /\ UNCHANGED <<db, router, up, loc, crashes>>

RecoverEnd ==
  /\ pc[Recovery] = "rows" /\ rows = {}
  /\ End(Recovery)
  /\ UNCHANGED <<db, router, up, rows, crashes>>

RecoverStop ==
  /\ pc[Recovery] = "recStop"
  /\ up' = up \ {tr[Recovery].id}
  /\ Goto(Recovery, IF tr[Recovery].from = "draining" THEN "recUnroute"
                                                      ELSE "read")
  /\ UNCHANGED <<db, router, loc, tr, rows, crashes>>

RecoverUnroute ==
  /\ pc[Recovery] = "recUnroute"
  /\ RouterRemove
  /\ Goto(Recovery, "read")
  /\ UNCHANGED <<db, up, loc, tr, rows, crashes>>

-----------------------------------------------------------------------------

\* The process dies or a statement fails between two steps.
Crash(p) ==
  /\ pc[p] # "idle"
  /\ crashes < MaxCrashes
  /\ crashes' = crashes + 1
  /\ End(p)
  /\ rows' = IF p = Recovery THEN {} ELSE rows
  /\ UNCHANGED <<db, router, up>>

TransitionStep(p) ==
  TransitionRead(p) \/ TransitionCas(p) \/ TransitionRecord(p)

OpStep(o) ==
  \/ TransitionStep(o)
  \/ RollbackCreate(o) \/ Probe(o) \/ StopNew(o)
  \/ RouteTraffic(o) \/ FindRoute(o) \/ ReadPrev(o) \/ UpsertRoute(o)
  \/ DrainPrev(o) \/ Unroute(o) \/ StopPrev(o)

RecoveryStep ==
  \/ TransitionStep(Recovery)
  \/ RecoverScan \/ \E row \in rows : RecoverRow(row)
  \/ RecoverStop \/ RecoverUnroute \/ RecoverEnd

Begin(o) ==
  \/ Deploy(o)
  \/ \E r \in Release, kept \in SUBSET Release : RollbackSelect(o, r, kept)

Next ==
  \/ \E o \in Op : Begin(o) \/ OpStep(o)
  \/ RecoveryStep
  \/ \E p \in Proc : Crash(p)

Spec == Init /\ [][Next]_vars

\* An orchestration under way keeps executing; no deployment is obliged to be
\* requested, nothing is obliged to crash and nobody is obliged to run recovery.
Fairness == \A o \in Op : WF_vars(OpStep(o))

FairSpec == Spec /\ Fairness

-----------------------------------------------------------------------------
(* Properties                                                              *)

\* A release changes its status only as can_transition_to allows, although
\* the check (releases.rs:345) and the UPDATE (releases.rs:358) are separate
\* statements and the UPDATE looks at the version only: the version the
\* caller passes was read before the status that was checked.
LegalTransitions ==
  [][\A r \in Release :
       release'[r].status # release[r].status =>
         \/ <<release[r].status, release'[r].status>> \in Legal
         \/ release[r].status = "none" /\ release'[r].status = "starting"]_vars

\* As long as nothing was interrupted, release_transitions tells the whole
\* story of every release whose last change has been recorded: one record
\* per version, from starting to the present status without a gap.
HistoryComplete ==
  crashes = 0 =>
    \A r \in Release :
      /\ release[r].status # "none"
      /\ \A p \in Proc : ~(pc[p] = "record" /\ tr[p].id = r)
      => /\ Cardinality(log[r]) + 1 = release[r].version
         /\ {"starting"} \cup {e[2] : e \in log[r]} =
              {e[1] : e \in log[r]} \cup {release[r].status}

\* The release active_routes points to is ready or active and a container
\* answers at its url, at every point of concurrent orchestrations, after a
\* crash at any point and during recovery: activate_traffic moves the route
\* before anything is drained or stopped.
RouteServes ==
  activeRoute # None =>
    /\ release[activeRoute].status \in {"ready", "active"}
    /\ Answers(release[activeRoute].url)

\* A release leaves every intermediate status unless something is interrupted:
\* no error an orchestration meets, a version that has moved on included, leaves
\* one behind (the `?` of orchestrate_release, releases.rs:473-577).
ReleasesSettle ==
  \A r \in Release :
    release[r].status \in Intermediate ~>
      release[r].status \in {"active", "stopped", "failed"} \/ crashes > 0

\* A recovery at start-up that comes to its end leaves no release in an
\* intermediate status, wherever orchestrations, and recoveries before it, were
\* interrupted: its SELECT (releases.rs:636) finds all of them and none of its
\* transitions is refused.
RecoverySettles ==
  pc[Recovery] = "rows" /\ rows = {} =>
    \A r \in Release : release[r].status \notin Intermediate

-----------------------------------------------------------------------------
(* The inductive invariant behind the theorems of ReleasesProofs.          *)

\* A release that has not settled has the version of its place in the life
\* of a release.
Life(status, version) ==
  \/ status = "none" /\ version = 0
  \/ status = "starting" /\ version = 1
  \/ status = "health_checking" /\ version = 2
  \/ status = "ready" /\ version = 3
  \/ status = "active" /\ version = 4
  \/ status = "draining" /\ version = 5
  \/ status \in {"stopped", "failed"} /\ version \in 2..MaxVersion

LifeInv ==
  \A r \in Release :
    /\ Life(release[r].status, release[r].version)
    /\ r > minted => release[r].status = "none"

\* v is a version that release r has or once had.
Seen(r, v) == r \in Release /\ v <= release[r].version

\* The versions an orchestration holds were read from the releases it will
\* pass them for.
CallerKnows(p) ==
  /\ pc[p] = "create" => loc[p].target \in Release
  /\ pc[p] \in {"probe", "stopNew", "route", "findRoute", "readPrev",
               "upsert"} => Seen(loc[p].release, loc[p].version)
  /\ pc[p] = "readPrev" => loc[p].prev # None
  /\ pc[p] = "upsert" /\ loc[p].prev # None =>
       Seen(loc[p].prev, loc[p].prevVersion)
  /\ pc[p] = "drain" => Seen(loc[p].prev, loc[p].prevVersion)
  /\ pc[p] \in {"unroute", "stopPrev"} => Seen(loc[p].prev, loc[p].version)

\* So does a transition under way, and what it will return to knows as much.
CallKnows(p) ==
  pc[p] \in {"recStop", "recUnroute", "read", "cas", "record"} =>
    /\ Seen(tr[p].id, tr[p].expected)
    /\ tr[p].next \in {"probe", "route", "drain", "unroute", "idle", "rows"}
    /\ tr[p].next \in {"probe", "route"} => tr[p].id = loc[p].release
    /\ tr[p].next = "drain" => Seen(loc[p].prev, loc[p].prevVersion)
    /\ tr[p].next = "unroute" => tr[p].id = loc[p].prev

\* The status that was checked is the one the compare-and-set replaces.
CasKnows(p) ==
  /\ pc[p] = "cas" =>
       /\ <<tr[p].from, tr[p].to>> \in Legal
       /\ release[tr[p].id].version = tr[p].expected =>
            release[tr[p].id].status = tr[p].from
  /\ pc[p] = "record" => Seen(tr[p].id, tr[p].expected + 1)

RowsKnow == \A row \in rows : Seen(row.id, row.version)

Knows(p) == CallerKnows(p) /\ CallKnows(p) /\ CasKnows(p)

ReleaseInv == TypeOK /\ LifeInv /\ RowsKnow /\ \A p \in Proc : Knows(p)
=============================================================================
