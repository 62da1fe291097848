--------------------------- MODULE NodeScheduler ---------------------------
(***************************************************************************)
(* The node scheduler (src/scheduler.rs) and the node registry             *)
(* (src/node_registry.rs), which share the rows of nodes: the scheduler    *)
(* reserves capacity on them, agents report what they use, operators drain *)
(* and disable them and a monitor marks those that fell silent.            *)
(*                                                                         *)
(* Every statement outside a transaction, and every transaction, is one    *)
(* step.  CPU and memory are treated alike by every statement, so one      *)
(* resource stands for both.  Nodes are numbered in the order of their     *)
(* UUIDs, which breaks ties; placements are kept in the order of           *)
(* created_at.  The audit rows of node_events are left out.                *)
(*                                                                         *)
(* Time since a node's last heartbeat is told in four grades, for a        *)
(* monitor that is called with a timeout of at most 30 seconds.            *)
(***************************************************************************)
EXTENDS Integers, Sequences, FiniteSets

CONSTANTS
  Node,          \* node ids, numbers
  Release,       \* release ids
  Totals,        \* cpu_total_millicores and memory_total_bytes a node may have
  Slots,         \* max_releases it may have
  Size,          \* what each release requires
  Caller,        \* operations of the scheduler that may be under way at a time
  Handler,       \* heartbeats that may be handled at a time
  MaxPlacements, \* bound on the placements made
  MaxBeats,      \* bound on the heartbeats after which a node sends more
  MaxChanges,    \* bound on operator requests, re-registrations and silences
  None           \* no node, no release

ASSUME NodeSchedulerAssumption ==
  /\ Node \subseteq Nat
  /\ Totals \subseteq Nat \ {0}
  /\ Slots \subseteq Nat \ {0}
  /\ Size \in [Release -> Nat]
  /\ MaxPlacements \in Nat /\ MaxBeats \in Nat /\ MaxChanges \in Nat
  /\ None \notin Node \cup Release

VARIABLES
  node,       \* the rows of nodes
  placement,  \* the rows of placements, oldest first
  caller,     \* local variables of each operation of the scheduler
  report,     \* heartbeats the agents have sent, not handled yet
  handler,    \* local variables of each record_heartbeat
  silent,     \* rows evaluate_health_and_expiry has selected
  changes,    \* history: operator requests, re-registrations and silences
  clashed     \* history: two operations have held the same placement

vars == <<node, placement, caller, report, handler, silent, changes, clashed>>

NodeStatus == {"none", "online", "degraded", "draining", "offline"}

\* How long ago the last heartbeat was: less than the monitor's timeout, less
\* than twice as long, up to the 60 seconds of list_active_nodes, or longer.
Fresh == 0
Late == 1
Lost == 2
Forgotten == 3

NodeRow == [status : NodeStatus, draining : BOOLEAN, enabled : BOOLEAN,
            total : Nat, slots : Nat, used : Nat, count : Nat,
            epoch : Nat, version : Nat, beat : Fresh..Forgotten]

PlacementStatus == {"placed", "active", "stopped", "failed"}

PlacementRow == [release : Release, node : Node, status : PlacementStatus,
                 expired : BOOLEAN]

Live == {"placed", "active"}

IdleCaller == [pc |-> "idle", release |-> None, node |-> None, row |-> 0,
               avoid |-> {}, next |-> "idle", rows |-> {}]

CallerState ==
  [pc : {"idle", "choose", "reserve", "giveBack", "rows"},
   release : Release \cup {None}, node : Node \cup {None},
   row : 0..MaxPlacements, avoid : SUBSET Node, next : {"idle", "choose"},
   rows : SUBSET (1..MaxPlacements)]

Report == [node : Node, epoch : Nat, used : Nat, count : Nat]

IdleHandler == [node |-> None, version |-> 0, used |-> 0, count |-> 0]

HandlerState == [node : Node \cup {None}, version : Nat, used : Nat,
                 count : Nat]

TypeOK ==
  /\ node \in [Node -> NodeRow]
  /\ placement \in Seq(PlacementRow)
  /\ Len(placement) <= MaxPlacements
  /\ caller \in [Caller -> CallerState]
  /\ report \subseteq Report
  /\ handler \in [Handler -> HandlerState]
  /\ silent \subseteq [id : Node, to : {"degraded", "offline"}]
  /\ changes \in 0..MaxChanges
  /\ clashed \in BOOLEAN

Init ==
  /\ node = [n \in Node |-> [status |-> "none", draining |-> FALSE,
                             enabled |-> TRUE, total |-> 0, slots |-> 0,
                             used |-> 0, count |-> 0, epoch |-> 1,
                             version |-> 1, beat |-> Fresh]]
  /\ placement = <<>>
  /\ caller = [c \in Caller |-> IdleCaller]
  /\ report = {}
  /\ handler = [h \in Handler |-> IdleHandler]
  /\ silent = {}
  /\ changes = 0
  /\ clashed = FALSE

\* The placements on node n that hold capacity.
LiveOn(n) ==
  {i \in DOMAIN placement :
     placement[i].node = n /\ placement[i].status \in Live}

\* What placements hold, unit by unit, and what those on node n hold together.
Units(S) == UNION {{i} \X (1 .. Size[placement[i].release]) : i \in S}

Load(n) == Cardinality(Units(LiveOn(n)))

\* The row of a node with another account of what it uses.
Using(row, used, count) == [row EXCEPT !.used = used, !.count = count]

-----------------------------------------------------------------------------
(* Scheduler::schedule_release                                             *)

\* score_node: the request fits.
Fits(n, r) ==
  /\ node[n].used + Size[r] <= node[n].total
  /\ node[n].count < node[n].slots

\* list_active_nodes, and the filters of the request: avoid holds the
\* anti-affinity nodes and those that are not candidates.
Eligible(r, avoid) ==
  {n \in Node \ avoid :
     /\ node[n].status = "online" /\ node[n].enabled /\ ~node[n].draining
     /\ node[n].beat # Forgotten
     /\ Fits(n, r)}

\* The order of the candidates: more of the node left, then the lower id.
Before(n, m, r) ==
  LET a == (node[n].used + Size[r]) * node[m].total
      b == (node[m].used + Size[r]) * node[n].total
  IN  a < b \/ (a = b /\ n <= m)

\* Choose a node for r on what the SELECT returned; without a candidate the
\* operation ends with InsufficientCapacity.
Choose(c, r, avoid) ==
  \/ /\ Eligible(r, avoid) = {}
     /\ caller' = [caller EXCEPT ![c] = IdleCaller]
  \/ \E n \in Eligible(r, avoid) :
       /\ \A m \in Eligible(r, avoid) : Before(n, m, r)
       /\ caller' = [caller EXCEPT ![c] =
                       [IdleCaller EXCEPT !.pc = "reserve", !.release = r,
                                          !.node = n]]

\* A release is scheduled, whether or not it is placed already: nothing in
\* schedule_release or in the schema tells a first call from a repeated one.
Schedule(c, r, avoid) ==
  /\ caller[c].pc = "idle"
  /\ Len(placement) < MaxPlacements
  /\ Choose(c, r, avoid)
  /\ UNCHANGED <<node, placement, report, handler, silent, changes, clashed>>

\* The transaction: INSERT the placement, add to what the node uses.
Reserve(c) ==
  LET r == caller[c].release
      n == caller[c].node
  IN
  /\ caller[c].pc = "reserve"
  /\ Len(placement) < MaxPlacements
  /\ placement' = Append(placement, [release |-> r, node |-> n,
                                     status |-> "placed", expired |-> FALSE])
  /\ node' = [node EXCEPT ![n] = Using(@, @.used + Size[r], @.count + 1)]
  /\ caller' = [caller EXCEPT ![c] = IdleCaller]
  /\ UNCHANGED <<report, handler, silent, changes, clashed>>

-----------------------------------------------------------------------------
(* Scheduler::release_placement and reschedule_failed_release              *)

\* Mutant of Minus: without GREATEST.
MinusUnguarded(a, b) == a - b

\* GREATEST(0, a - b)
Minus(a, b) == IF a >= b THEN a - b ELSE 0

\* Subtract the allocation of placement i from what its node uses.
Subtract(i) ==
  node' = [node EXCEPT ![placement[i].node] =
             Using(@, Minus(@.used, Size[placement[i].release]),
                      Minus(@.count, 1))]

\* release_placement returns: to its caller, or to reschedule_failed_release.
Return(c, r, avoid, next) ==
  caller' = [caller EXCEPT ![c] =
               IF next = "idle" THEN IdleCaller
               ELSE [IdleCaller EXCEPT !.pc = next, !.release = r,
                                       !.avoid = avoid]]

\* Mutant of Newest: ORDER BY created_at ASC.
Oldest(i, r) ==
  /\ placement[i].release = r
  /\ \A j \in DOMAIN placement : placement[j].release = r => i <= j

\* The newest placement of r: ORDER BY created_at DESC LIMIT 1.
Newest(i, r) ==
  /\ placement[i].release = r
  /\ \A j \in DOMAIN placement : placement[j].release = r => j <= i

\* The placements whose allocation operation c has read and is to give back.
Holds(c) ==
  IF caller[c].pc = "giveBack" THEN {caller[c].row} ELSE caller[c].rows

\* Operation c takes placements that another operation may hold as well.
Take(c, S) ==
  clashed' = (clashed \/ \E d \in Caller \ {c} : Holds(d) \cap S # {})

\* Placement i is the one to be given back.
Found(c, i, r, avoid, next) ==
  /\ caller' = [caller EXCEPT ![c] =
                  [IdleCaller EXCEPT !.pc = "giveBack", !.release = r,
                                     !.row = i, !.avoid = avoid,
                                     !.next = next]]
  /\ Take(c, {i})

\* Mutant of ReadPlacement: no return for a placement that was given back.
ReadAnyPlacement(c, r, avoid, next) ==
  \E i \in DOMAIN placement : Newest(i, r) /\ Found(c, i, r, avoid, next)

\* Read the newest placement of r.  When it holds capacity it is given back
\* next, otherwise release_placement returns.
ReadPlacement(c, r, avoid, next) ==
  LET held == {i \in DOMAIN placement :
                 Newest(i, r) /\ placement[i].status \in Live}
  IN
  \/ \E i \in held : Found(c, i, r, avoid, next)
  \/ held = {} /\ Return(c, r, avoid, next) /\ UNCHANGED clashed

ReleasePlacement(c, r) ==
  /\ caller[c].pc = "idle"
  /\ ReadPlacement(c, r, {}, "idle")
  /\ UNCHANGED <<node, placement, report, handler, silent, changes>>

\* Move r away from the node that failed it; avoid holds the nodes that are
\* not candidates.
Reschedule(c, r, failed, avoid) ==
  /\ caller[c].pc = "idle"
  /\ Len(placement) < MaxPlacements
  /\ ReadPlacement(c, r, avoid \cup {failed}, "choose")
  /\ UNCHANGED <<node, placement, report, handler, silent, changes>>

\* UPDATE placements SET status = 'stopped' WHERE release_id = r
StopAll(r) ==
  placement' = [i \in DOMAIN placement |->
                  IF placement[i].release = r
                  THEN [placement[i] EXCEPT !.status = "stopped"]
                  ELSE placement[i]]

\* The transaction: all placements of the release are stopped and the
\* allocation of the one that was read is subtracted.
GiveBack(c) ==
  /\ caller[c].pc = "giveBack"
  /\ StopAll(caller[c].release)
  /\ Subtract(caller[c].row)
  /\ Return(c, caller[c].release, caller[c].avoid, caller[c].next)
  /\ UNCHANGED <<report, handler, silent, changes, clashed>>

\* A statement of release_placement fails: reschedule_failed_release drops
\* the error and goes on to choose a node.
GiveBackFails(c) ==
  /\ caller[c].pc = "giveBack"
  /\ Return(c, caller[c].release, caller[c].avoid, caller[c].next)
  /\ UNCHANGED <<node, placement, report, handler, silent, changes, clashed>>

RescheduleChoose(c) ==
  /\ caller[c].pc = "choose"
  /\ Choose(c, caller[c].release, caller[c].avoid)
  /\ UNCHANGED <<node, placement, report, handler, silent, changes, clashed>>

-----------------------------------------------------------------------------
(* Scheduler::reconcile_expired_leases                                     *)

LeaseExpires(i) ==
  /\ placement[i].status = "placed" /\ ~placement[i].expired
  /\ placement' = [placement EXCEPT ![i].expired = TRUE]
  /\ UNCHANGED <<node, caller, report, handler, silent, changes, clashed>>

ReconcileScan(c) ==
  LET found == {i \in DOMAIN placement :
                  placement[i].status = "placed" /\ placement[i].expired}
  IN
  /\ caller[c].pc = "idle"
  /\ found # {}
  /\ caller' = [caller EXCEPT ![c] = [IdleCaller EXCEPT !.pc = "rows",
                                                        !.rows = found]]
  /\ Take(c, found)
  /\ UNCHANGED <<node, placement, report, handler, silent, changes>>

\* Mutant of FailPlaced: WHERE id = the row's.
FailRow(i) ==
  placement' = [placement EXCEPT ![i].status =
                  IF @ = "placed" THEN "failed" ELSE @]

\* UPDATE placements SET status = 'failed' WHERE release_id = that of row i
\* AND status = 'placed'
FailPlaced(i) ==
  placement' = [j \in DOMAIN placement |->
                  IF /\ placement[j].release = placement[i].release
                     /\ placement[j].status = "placed"
                  THEN [placement[j] EXCEPT !.status = "failed"]
                  ELSE placement[j]]

\* The transaction for one row: the placements of its release that are still
\* placed fail, and its allocation is subtracted in any case.
ReconcileRow(c, i) ==
  /\ caller[c].pc = "rows"
  /\ FailPlaced(i)
  /\ Subtract(i)
  /\ caller' = [caller EXCEPT ![c] =
                  IF caller[c].rows = {i} THEN IdleCaller
                  ELSE [caller[c] EXCEPT !.rows = @ \ {i}]]
  /\ UNCHANGED <<report, handler, silent, changes, clashed>>

\* The process dies, or a statement fails, between two steps.
CallerCrash(c) ==
  /\ caller[c].pc # "idle"
  /\ caller' = [caller EXCEPT ![c] = IdleCaller]
  /\ UNCHANGED <<node, placement, report, handler, silent, changes, clashed>>

-----------------------------------------------------------------------------
(* NodeRegistry                                                            *)

Change ==
  /\ changes < MaxChanges
  /\ changes' = changes + 1

\* The columns register_node sets on conflict.
Online(row, total, slots) ==
  [row EXCEPT !.status = "online", !.draining = FALSE, !.enabled = TRUE,
              !.total = total, !.slots = slots, !.beat = Fresh]

\* An agent registers its node, for the first time or when it restarts.
RegisterNode(n, total, slots) ==
  /\ \/ node[n].status = "none" /\ UNCHANGED changes
     \/ node[n].status # "none" /\ Change
  /\ node' = [node EXCEPT ![n] = Online(@, total, slots)]
  /\ UNCHANGED <<placement, caller, report, handler, silent, clashed>>

\* The columns set_drain sets.
Drained(row, draining) ==
  [row EXCEPT !.draining = draining,
              !.status = IF draining THEN "draining" ELSE "online"]

SetDrain(n, draining) ==
  /\ node[n].status # "none"
  /\ Change
  /\ node' = [node EXCEPT ![n] = Drained(@, draining)]
  /\ UNCHANGED <<placement, caller, report, handler, silent, clashed>>

SetEnabled(n, enabled) ==
  /\ node[n].status # "none"
  /\ Change
  /\ node' = [node EXCEPT ![n].enabled = enabled]
  /\ UNCHANGED <<placement, caller, report, handler, silent, clashed>>

RotateNodeIdentity(n) ==
  /\ node[n].status # "none"
  /\ Change
  /\ node' = [node EXCEPT ![n].epoch = @ + 1]
  /\ UNCHANGED <<placement, caller, report, handler, silent, clashed>>

\* No heartbeat for some time.
Silence(n) ==
  /\ node[n].status # "none"
  /\ node[n].beat # Forgotten
  /\ Change
  /\ node' = [node EXCEPT ![n].beat = @ + 1]
  /\ UNCHANGED <<placement, caller, report, handler, silent, clashed>>

\* An agent reports what runs on it, under the identity it knows; one report
\* at a time is on its way.
SendHeartbeat(n) ==
  /\ node[n].status # "none"
  /\ node[n].version <= MaxBeats
  /\ \A m \in report : m.node # n
  /\ report' = report \cup {[node |-> n, epoch |-> node[n].epoch,
                             used |-> Load(n),
                             count |-> Cardinality(LiveOn(n))]}
  /\ UNCHANGED <<node, placement, caller, handler, silent, changes, clashed>>

\* record_heartbeat: get_node and the epoch check.
HeartbeatRead(h, m) ==
  /\ handler[h] = IdleHandler
  /\ report' = report \ {m}
  /\ \/ /\ m.epoch = node[m.node].epoch
        /\ handler' = [handler EXCEPT ![h] =
                         [node |-> m.node, version |-> node[m.node].version,
                          used |-> m.used, count |-> m.count]]
     \/ /\ m.epoch # node[m.node].epoch
        /\ UNCHANGED handler
  /\ UNCHANGED <<node, placement, caller, silent, changes, clashed>>

\* Mutant of Beaten: the heartbeat brings the node back.
BeatenOnline(row, h) ==
  [row EXCEPT !.used = handler[h].used, !.count = handler[h].count,
              !.beat = Fresh, !.version = @ + 1, !.status = "online"]

\* The columns record_heartbeat sets.
Beaten(row, h) ==
  [row EXCEPT !.used = handler[h].used, !.count = handler[h].count,
              !.beat = Fresh, !.version = @ + 1]

\* UPDATE nodes ... WHERE version = the version read.
HeartbeatWrite(h) ==
  LET n == handler[h].node IN
  /\ handler[h] # IdleHandler
  /\ \/ /\ node[n].version = handler[h].version
        /\ node' = [node EXCEPT ![n] = Beaten(@, h)]
     \/ /\ node[n].version # handler[h].version
        /\ UNCHANGED node
  /\ handler' = [handler EXCEPT ![h] = IdleHandler]
  /\ UNCHANGED <<placement, caller, report, silent, changes, clashed>>

\* evaluate_health_and_expiry: the rows whose status has to change.
EvaluateScan ==
  LET target(n) == IF node[n].beat >= Lost THEN "offline" ELSE "degraded"
      found == {n \in Node : /\ node[n].status \notin {"none", "offline"}
                             /\ node[n].beat >= Late
                             /\ target(n) # node[n].status}
  IN
  /\ silent = {}
  /\ found # {}
  /\ silent' = {[id |-> n, to |-> target(n)] : n \in found}
  /\ UNCHANGED <<node, placement, caller, report, handler, changes, clashed>>

EvaluateRow(row) ==
  /\ node' = [node EXCEPT ![row.id].status = row.to]
  /\ silent' = silent \ {row}
  /\ UNCHANGED <<placement, caller, report, handler, changes, clashed>>

\* A statement fails, and the rows that are left are not written.
EvaluateFails ==
  /\ silent # {}
  /\ silent' = {}
  /\ UNCHANGED <<node, placement, caller, report, handler, changes, clashed>>

-----------------------------------------------------------------------------

CallerStep(c) ==
  \/ \E r \in Release, avoid \in SUBSET Node : Schedule(c, r, avoid)
  \/ \E r \in Release : ReleasePlacement(c, r)
  \/ \E r \in Release, failed \in Node, avoid \in SUBSET Node :
       Reschedule(c, r, failed, avoid)
  \/ Reserve(c) \/ GiveBack(c) \/ GiveBackFails(c)
  \/ RescheduleChoose(c)
  \/ ReconcileScan(c) \/ \E i \in caller[c].rows : ReconcileRow(c, i)
  \/ CallerCrash(c)

RegistryStep ==
  \/ \E n \in Node :
       \/ \E total \in Totals, slots \in Slots :
            RegisterNode(n, total, slots)
       \/ RotateNodeIdentity(n) \/ Silence(n) \/ SendHeartbeat(n)
       \/ \E b \in BOOLEAN : SetDrain(n, b) \/ SetEnabled(n, b)
  \/ \E h \in Handler :
       HeartbeatWrite(h) \/ \E m \in report : HeartbeatRead(h, m)
  \/ EvaluateScan \/ \E row \in silent : EvaluateRow(row)
  \/ EvaluateFails

Next ==
  \/ \E c \in Caller : CallerStep(c)
  \/ \E i \in DOMAIN placement : LeaseExpires(i)
  \/ RegistryStep

Spec == Init /\ [][Next]_vars

-----------------------------------------------------------------------------
(* Properties                                                              *)

\* What a node is said to use covers what its live placements hold, until a
\* heartbeat overwrites it: no interleaving of operations, no placement made
\* twice by a repeated schedule_release, no lease that expires and no
\* operation interrupted anywhere gives an allocation back twice, because of
\* the early return of release_placement (scheduler.rs:266).  The exception is
\* two operations that have read the same placement before either wrote it.
LedgerCovers ==
  ~clashed =>
    \A n \in Node :
      node[n].version = 1 =>
        /\ Load(n) <= node[n].used
        /\ Cardinality(LiveOn(n)) <= node[n].count

\* release_placement looks at the newest placement of a release alone
\* (scheduler.rs:258): when that one has ended, so has every older one, also
\* where repeated calls and dropped errors left the release on several nodes
\* and whichever of its leases expired.
NewestDecides ==
  \A i, j \in DOMAIN placement :
    /\ Newest(j, placement[i].release)
    /\ placement[j].status \notin Live
    => placement[i].status \notin Live

\* The columns list_active_nodes filters on, but for the heartbeat's age.
Open(n) ==
  node[n].status = "online" /\ node[n].enabled /\ ~node[n].draining

\* A node that was drained, disabled or found silent is offered to the
\* scheduler again only by an operator or by its agent registering again:
\* neither heartbeats nor a monitor that writes from an old snapshot
\* (node_registry.rs:412) reopen it.
ReopenedOnPurpose ==
  [][\A n \in Node :
       ~Open(n) /\ Open(n)' =>
         \/ \E total \in Totals, slots \in Slots :
              RegisterNode(n, total, slots)
         \/ SetDrain(n, FALSE) \/ SetEnabled(n, TRUE)]_vars
=============================================================================
