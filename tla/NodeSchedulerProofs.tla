------------------------ MODULE NodeSchedulerProofs ------------------------
(***************************************************************************)
(* Proofs about NodeScheduler, for every set of nodes and releases, every  *)
(* size and every number of operations under way: types, that a node taken *)
(* out of service returns on purpose only, that the account of a node      *)
(* covers its live placements, and that the newest placement of a release  *)
(* tells whether any is live.                                              *)
(***************************************************************************)
EXTENDS NodeScheduler, SequenceTheorems, FiniteSetTheorems, TLAPS

---------------------------------------------------------------------------
(* Steps                                                                   *)

\* A step is one of the actions, with its arguments.
LEMMA StepCases ==
  ASSUME Next, NEW P,
         \A c \in Caller, r \in Release, avoid \in SUBSET Node : Schedule(c, r, avoid) => P,
         \A c \in Caller, r \in Release : ReleasePlacement(c, r) => P,
         \A c \in Caller, r \in Release, failed \in Node, avoid \in SUBSET Node : Reschedule(c, r, failed, avoid) => P,
         \A c \in Caller : Reserve(c) => P,
         \A c \in Caller : GiveBack(c) => P,
         \A c \in Caller : GiveBackFails(c) => P,
         \A c \in Caller : RescheduleChoose(c) => P,
         \A c \in Caller : ReconcileScan(c) => P,
         \A c \in Caller : \A i \in caller[c].rows : ReconcileRow(c, i) => P,
         \A c \in Caller : CallerCrash(c) => P,
         \A i \in DOMAIN placement : LeaseExpires(i) => P,
         RegistryStep => P
  PROVE  P
  BY DEF Next, CallerStep

---------------------------------------------------------------------------
(* Counting                                                                *)

\* w[i] cells for each i of S.
Cells(w, S) == UNION {{i} \X (1 .. w[i]) : i \in S}

\* The cells of one member.
LEMMA CellsOne ==
  ASSUME NEW w, NEW i, w[i] \in Nat
  PROVE  /\ IsFiniteSet({i} \X (1 .. w[i]))
         /\ Cardinality({i} \X (1 .. w[i])) = w[i]
  <1>1. IsFiniteSet(1 .. w[i]) /\ Cardinality(1 .. w[i]) = w[i]
    BY FS_Interval
  <1>2. IsFiniteSet({i}) /\ Cardinality({i}) = 1
    BY FS_Singleton
  <1>3. Cardinality({i} \X (1 .. w[i])) = 1 * w[i] /\ IsFiniteSet({i} \X (1 .. w[i]))
    BY <1>1, <1>2, FS_Product
  <1> QED BY <1>3

\* Finitely many members have finitely many cells.
LEMMA CellsFinite ==
  ASSUME NEW w, NEW S, IsFiniteSet(S), \A i \in S : w[i] \in Nat
  PROVE  IsFiniteSet(Cells(w, S)) /\ Cardinality(Cells(w, S)) \in Nat
  <1> DEFINE T == {{i} \X (1 .. w[i]) : i \in S}
             f == [i \in S |-> {i} \X (1 .. w[i])]
  <1>1. f \in Surjection(S, T)
    BY DEF Surjection
  <1>2. IsFiniteSet(T)
    BY <1>1, FS_Surjection
  <1>3. \A U \in T : IsFiniteSet(U)
    BY CellsOne
  <1>4. IsFiniteSet(UNION T)
    BY <1>2, <1>3, FS_UNION
  <1> QED BY <1>4, FS_CardinalityType DEF Cells

\* One more member brings its cells.
LEMMA CellsAdd ==
  ASSUME NEW w, NEW S, IsFiniteSet(S), NEW x, x \notin S, \A i \in S \cup {x} : w[i] \in Nat
  PROVE  Cardinality(Cells(w, S \cup {x})) = Cardinality(Cells(w, S)) + w[x]
  <1> DEFINE own == {x} \X (1 .. w[x])
  <1>1. Cells(w, S \cup {x}) = Cells(w, S) \cup own
    BY DEF Cells
  <1>2. Cells(w, S) \cap own = {}
    BY DEF Cells
  <1>3. IsFiniteSet(own) /\ Cardinality(own) = w[x] /\ IsFiniteSet(Cells(w, S))
        /\ Cardinality(Cells(w, S)) \in Nat /\ w[x] \in Nat
    BY CellsOne, CellsFinite
  <1>4. Cardinality(Cells(w, S) \cup own) = Cardinality(Cells(w, S)) + Cardinality(own) - Cardinality({})
    <2> HIDE DEF own
    <2> QED BY <1>2, <1>3, FS_Union
  <1>5. Cardinality({}) = 0
    BY FS_EmptySet
  <1> HIDE DEF own
  <1>6. PICK a, b : a = Cardinality(Cells(w, S)) /\ b = w[x]
    OBVIOUS
  <1>7. Cardinality(Cells(w, S) \cup own) = a + b - 0 /\ a \in Nat /\ b \in Nat
    BY <1>3, <1>4, <1>5, <1>6
  <1>8. a + b - 0 = a + b
    BY <1>7
  <1> QED BY <1>1, <1>6, <1>7, <1>8, Zenon

\* Without one of them its cells are gone.
LEMMA CellsRemove ==
  ASSUME NEW w, NEW S, IsFiniteSet(S), NEW x \in S, \A i \in S : w[i] \in Nat
  PROVE  /\ Cardinality(Cells(w, S)) = Cardinality(Cells(w, S \ {x})) + w[x]
         /\ Cardinality(Cells(w, S \ {x})) \in Nat
  <1>1. IsFiniteSet(S \ {x}) /\ x \notin S \ {x} /\ S = (S \ {x}) \cup {x}
    BY FS_RemoveElement
  <1>2. Cardinality(Cells(w, (S \ {x}) \cup {x})) = Cardinality(Cells(w, S \ {x})) + w[x]
    BY <1>1, CellsAdd
  <1> QED BY <1>1, <1>2, CellsFinite

\* Fewer members have no more cells.
LEMMA CellsSubset ==
  ASSUME NEW w, NEW S, IsFiniteSet(S), NEW T, T \subseteq S, \A i \in S : w[i] \in Nat
  PROVE  Cardinality(Cells(w, T)) <= Cardinality(Cells(w, S))
  <1>1. Cells(w, T) \subseteq Cells(w, S)
    BY DEF Cells
  <1> QED BY <1>1, CellsFinite, FS_Subset

---------------------------------------------------------------------------
(* Types                                                                   *)

\* The columns a statement sets on the row of a node.
LEMMA UsingRow ==
  ASSUME NEW row \in NodeRow, NEW used \in Nat, NEW count \in Nat
  PROVE  /\ Using(row, used, count) \in NodeRow
         /\ Using(row, used, count).used = used /\ Using(row, used, count).count = count
         /\ Using(row, used, count).version = row.version
         /\ Using(row, used, count).status = row.status
         /\ Using(row, used, count).draining = row.draining
         /\ Using(row, used, count).enabled = row.enabled
  <1>1. Using(row, used, count) \in NodeRow
    BY Zenon DEF Using, NodeRow
  <1> QED BY <1>1 DEF Using, NodeRow

\* register_node leaves the account and the version of a row alone.
LEMMA OnlineRow ==
  ASSUME NEW row \in NodeRow, NEW total \in Totals, NEW slots \in Slots
  PROVE  /\ Online(row, total, slots) \in NodeRow
         /\ Online(row, total, slots).used = row.used
         /\ Online(row, total, slots).count = row.count
         /\ Online(row, total, slots).version = row.version
  <1>1. "online" \in NodeStatus /\ Fresh \in Fresh .. Forgotten /\ total \in Nat /\ slots \in Nat
    BY NodeSchedulerAssumption DEF NodeStatus, Fresh, Forgotten
  <1>2. Online(row, total, slots) \in NodeRow
    BY <1>1, Zenon DEF Online, NodeRow
  <1> QED BY <1>2 DEF Online, NodeRow

\* set_drain leaves them alone too.
LEMMA DrainedRow ==
  ASSUME NEW row \in NodeRow, NEW b \in BOOLEAN
  PROVE  /\ Drained(row, b) \in NodeRow
         /\ Drained(row, b).used = row.used /\ Drained(row, b).count = row.count
         /\ Drained(row, b).version = row.version
         /\ Drained(row, b).status = (IF b THEN "draining" ELSE "online")
  <1>1. (IF b THEN "draining" ELSE "online") \in NodeStatus
    BY DEF NodeStatus
  <1>2. Drained(row, b) \in NodeRow
    BY <1>1, Zenon DEF Drained, NodeRow
  <1> QED BY <1>2 DEF Drained, NodeRow

\* A heartbeat raises the version and opens nothing.
LEMMA BeatenRow ==
  ASSUME NEW row \in NodeRow, NEW h \in Handler, handler \in [Handler -> HandlerState]
  PROVE  /\ Beaten(row, h) \in NodeRow
         /\ Beaten(row, h).version = row.version + 1
         /\ Beaten(row, h).status = row.status /\ Beaten(row, h).enabled = row.enabled
         /\ Beaten(row, h).draining = row.draining
  <1>1. handler[h].used \in Nat /\ handler[h].count \in Nat
    BY DEF HandlerState
  <1>2. row.version + 1 \in Nat /\ Fresh \in Fresh .. Forgotten
    BY DEF NodeRow, Fresh, Forgotten
  <1>3. Beaten(row, h) \in NodeRow
    BY <1>1, <1>2, Zenon DEF Beaten, NodeRow
  <1> QED BY <1>3 DEF Beaten, NodeRow

\* The local variables of an operation of the scheduler, at each of its points.
Reserving(r, n) == [IdleCaller EXCEPT !.pc = "reserve", !.release = r, !.node = n]
Choosing(r, avoid, next) == [IdleCaller EXCEPT !.pc = next, !.release = r, !.avoid = avoid]
Returning(r, i, avoid, next) ==
  [IdleCaller EXCEPT !.pc = "giveBack", !.release = r, !.row = i, !.avoid = avoid, !.next = next]
Reconciling(rows) == [IdleCaller EXCEPT !.pc = "rows", !.rows = rows]

\* The fields of these records that the steps below look at.
LEMMA IdleFacts ==
  /\ IdleCaller \in CallerState
  /\ IdleCaller.pc = "idle" /\ IdleCaller.rows = {}
  <1>1. 0 \in 0 .. MaxPlacements
    BY NodeSchedulerAssumption
  <1> QED BY <1>1 DEF IdleCaller, CallerState

\* An operation that has chosen a node.
LEMMA ReservingFacts ==
  ASSUME NEW r \in Release, NEW n \in Node
  PROVE  /\ Reserving(r, n) \in CallerState
         /\ Reserving(r, n).pc = "reserve" /\ Reserving(r, n).release = r
         /\ Reserving(r, n).node = n /\ Reserving(r, n).rows = {}
  <1>1. Reserving(r, n) \in CallerState
    BY IdleFacts, Zenon DEF Reserving, CallerState
  <1> QED BY <1>1 DEF Reserving, IdleCaller

\* An operation that is about to choose one.
LEMMA ChoosingFacts ==
  ASSUME NEW r \in Release, NEW avoid \in SUBSET Node
  PROVE  /\ Choosing(r, avoid, "choose") \in CallerState
         /\ Choosing(r, avoid, "choose").pc = "choose" /\ Choosing(r, avoid, "choose").release = r
         /\ Choosing(r, avoid, "choose").rows = {}
  <1>1. Choosing(r, avoid, "choose") \in CallerState
    BY IdleFacts, Zenon DEF Choosing, CallerState
  <1> QED BY <1>1 DEF Choosing, IdleCaller

\* An operation that is about to give a placement back.
LEMMA ReturningFacts ==
  ASSUME NEW r \in Release, NEW i \in 0 .. MaxPlacements, NEW avoid \in SUBSET Node,
         NEW next \in {"idle", "choose"}
  PROVE  /\ Returning(r, i, avoid, next) \in CallerState
         /\ Returning(r, i, avoid, next).pc = "giveBack"
         /\ Returning(r, i, avoid, next).release = r
         /\ Returning(r, i, avoid, next).row = i
         /\ Returning(r, i, avoid, next).rows = {}
  <1>1. Returning(r, i, avoid, next) \in CallerState
    BY IdleFacts, Zenon DEF Returning, CallerState
  <1> QED BY <1>1 DEF Returning, IdleCaller

\* An operation that has rows to reconcile.
LEMMA ReconcilingFacts ==
  ASSUME NEW rows \in SUBSET (1 .. MaxPlacements)
  PROVE  /\ Reconciling(rows) \in CallerState
         /\ Reconciling(rows).pc = "rows" /\ Reconciling(rows).rows = rows
  <1>1. Reconciling(rows) \in CallerState
    BY IdleFacts, Zenon DEF Reconciling, CallerState
  <1> QED BY <1>1 DEF Reconciling, IdleCaller

\* What an operation knows at each point is of the right kind, and so is what a
\* handler of a heartbeat knows.
CallerKnows ==
  \A c \in Caller :
    /\ caller[c].pc \in {"reserve", "giveBack", "choose"} => caller[c].release \in Release
    /\ caller[c].pc = "reserve" => caller[c].node \in Node
    /\ caller[c].pc = "giveBack" => caller[c].row \in DOMAIN placement
    /\ caller[c].rows \subseteq DOMAIN placement
    /\ caller[c].pc # "rows" => caller[c].rows = {}

HandlerKnows == \A h \in Handler : handler[h] # IdleHandler => handler[h].node \in Node

PlacementType == placement \in Seq(PlacementRow) /\ Len(placement) <= MaxPlacements

\* Rows of placements: there is one for each number up to their count.
LEMMA PlacementFacts ==
  ASSUME TypeOK
  PROVE  /\ Len(placement) \in Nat /\ DOMAIN placement = 1 .. Len(placement)
         /\ DOMAIN placement \subseteq 1 .. MaxPlacements
         /\ \A i \in DOMAIN placement : placement[i] \in PlacementRow
         /\ IsFiniteSet(DOMAIN placement)
  <1>1. placement \in Seq(PlacementRow) /\ Len(placement) <= MaxPlacements
    BY DEF TypeOK
  <1>2. Len(placement) \in Nat /\ DOMAIN placement = 1 .. Len(placement)
        /\ \A i \in DOMAIN placement : placement[i] \in PlacementRow
    BY <1>1, LenProperties, ElementOfSeq
  <1>3. IsFiniteSet(DOMAIN placement)
    BY <1>2, FS_Interval
  <1> QED BY <1>1, <1>2, <1>3, NodeSchedulerAssumption

\* What the live placements of a node hold is a natural number.
LEMMA LoadType ==
  ASSUME TypeOK, NEW n \in Node
  PROVE  Load(n) \in Nat /\ Cardinality(LiveOn(n)) \in Nat /\ IsFiniteSet(LiveOn(n))
  <1> DEFINE w == [i \in DOMAIN placement |-> Size[placement[i].release]]
  <1>1. IsFiniteSet(LiveOn(n))
    BY PlacementFacts, FS_Subset DEF LiveOn
  <1>2. \A i \in LiveOn(n) : w[i] \in Nat
    BY PlacementFacts, NodeSchedulerAssumption DEF LiveOn, PlacementRow
  <1>3. Units(LiveOn(n)) = Cells(w, LiveOn(n))
    BY DEF Units, Cells, LiveOn
  <1>4. Cardinality(Cells(w, LiveOn(n))) \in Nat
    <2> HIDE DEF w
    <2> QED BY <1>1, <1>2, CellsFinite
  <1> QED BY <1>1, <1>3, <1>4, FS_CardinalityType DEF Load

\* The type invariant with what makes it inductive.
Typed == TypeOK /\ CallerKnows /\ HandlerKnows

\* Who else is at work, and what they wrote, is untouched by a caller.
LEMMA CallerSet ==
  ASSUME Typed, NEW c \in Caller, NEW value \in CallerState,
         caller' = [caller EXCEPT ![c] = value],
         DOMAIN placement \subseteq DOMAIN placement',
         /\ value.pc \in {"reserve", "giveBack", "choose"} => value.release \in Release
         /\ value.pc = "reserve" => value.node \in Node
         /\ value.pc = "giveBack" => value.row \in DOMAIN placement'
         /\ value.rows \subseteq DOMAIN placement'
         /\ value.pc # "rows" => value.rows = {}
  PROVE  caller' \in [Caller -> CallerState] /\ CallerKnows'
  <1>1. caller \in [Caller -> CallerState]
    BY DEF Typed, TypeOK
  <1>2. \A d \in Caller : caller'[d] = IF d = c THEN value ELSE caller[d]
    BY <1>1
  <1>3. caller' \in [Caller -> CallerState]
    BY <1>1
  <1>4. ASSUME NEW d \in Caller
        PROVE  /\ caller'[d].pc \in {"reserve", "giveBack", "choose"} => caller'[d].release \in Release
               /\ caller'[d].pc = "reserve" => caller'[d].node \in Node
               /\ caller'[d].pc = "giveBack" => caller'[d].row \in DOMAIN placement'
               /\ caller'[d].rows \subseteq DOMAIN placement'
               /\ caller'[d].pc # "rows" => caller'[d].rows = {}
    <2>1. CASE d = c
      BY <1>2, <2>1
    <2>2. CASE d # c
      BY <1>2, <2>2 DEF Typed, CallerKnows
    <2> QED BY <2>1, <2>2
  <1> QED BY <1>3, <1>4 DEF CallerKnows

\* The values choosing, returning and reading leave with a caller.
LEMMA ChooseType ==
  ASSUME Typed, UNCHANGED placement, NEW c \in Caller, NEW r \in Release, NEW avoid \in SUBSET Node,
         Choose(c, r, avoid)
  PROVE  caller' \in [Caller -> CallerState] /\ CallerKnows'
  <1>1. CASE caller' = [caller EXCEPT ![c] = IdleCaller]
    BY <1>1, IdleFacts, CallerSet
  <1>2. CASE \E n \in Node : caller' = [caller EXCEPT ![c] = Reserving(r, n)]
    <2>1. PICK n \in Node : caller' = [caller EXCEPT ![c] = Reserving(r, n)]
      BY <1>2
    <2>2. PICK v \in CallerState : v = Reserving(r, n) /\ v.pc = "reserve" /\ v.release = r
                                    /\ v.node = n /\ v.rows = {}
      BY ReservingFacts
    <2>3. caller' = [caller EXCEPT ![c] = v] /\ DOMAIN placement \subseteq DOMAIN placement'
      BY <2>1, <2>2
    <2> QED BY <2>2, <2>3, CallerSet
  <1> QED BY <1>1, <1>2 DEF Choose, Eligible, Reserving

\* What Return leaves with a caller is well typed.
LEMMA ReturnType ==
  ASSUME Typed, DOMAIN placement' = DOMAIN placement, NEW c \in Caller, NEW r \in Release,
         NEW avoid \in SUBSET Node, NEW next \in {"idle", "choose"}, Return(c, r, avoid, next)
  PROVE  caller' \in [Caller -> CallerState] /\ CallerKnows'
  <1>1. CASE caller' = [caller EXCEPT ![c] = IdleCaller]
    BY <1>1, IdleFacts, CallerSet
  <1>2. CASE caller' = [caller EXCEPT ![c] = Choosing(r, avoid, "choose")]
    BY <1>2, ChoosingFacts, CallerSet
  <1> QED BY <1>1, <1>2 DEF Return, Choosing

\* So is what ReadPlacement leaves.
LEMMA ReadType ==
  ASSUME Typed, UNCHANGED placement, NEW c \in Caller, NEW r \in Release,
         NEW avoid \in SUBSET Node, NEW next \in {"idle", "choose"},
         ReadPlacement(c, r, avoid, next)
  PROVE  caller' \in [Caller -> CallerState] /\ CallerKnows'
  <1>1. CASE Return(c, r, avoid, next)
    BY <1>1, ReturnType
  <1>2. ASSUME NEW i \in DOMAIN placement, Found(c, i, r, avoid, next)
        PROVE  caller' \in [Caller -> CallerState] /\ CallerKnows'
    <2>1. caller' = [caller EXCEPT ![c] = Returning(r, i, avoid, next)]
      BY <1>2 DEF Found, Returning
    <2>2. i \in 0 .. MaxPlacements
      BY PlacementFacts DEF Typed
    <2>3. PICK v : v = Returning(r, i, avoid, next)
      OBVIOUS
    <2>4. v \in CallerState /\ v.pc = "giveBack" /\ v.release = r /\ v.row = i /\ v.rows = {}
      BY <2>2, <2>3, ReturningFacts
    <2>5. caller' = [caller EXCEPT ![c] = v]
      BY <2>1, <2>3
    <2> QED BY <2>4, <2>5, CallerSet
  <1> QED BY <1>1, <1>2 DEF ReadPlacement

\* What the subtraction of an allocation writes.
SubtractFrom(n, used) ==
  \E v \in NodeRow :
    /\ node' = [node EXCEPT ![n] = v]
    /\ v.used = Minus(node[n].used, used) /\ v.count = Minus(node[n].count, 1)
    /\ v.version = node[n].version /\ v.status = node[n].status
    /\ v.enabled = node[n].enabled /\ v.draining = node[n].draining

\* What Subtract writes.
LEMMA SubtractFacts ==
  ASSUME Typed, NEW i \in DOMAIN placement, Subtract(i)
  PROVE  /\ placement[i].node \in Node /\ Size[placement[i].release] \in Nat
         /\ SubtractFrom(placement[i].node, Size[placement[i].release])
  <1>1. placement[i].node \in Node /\ Size[placement[i].release] \in Nat
    BY PlacementFacts, NodeSchedulerAssumption DEF Typed, PlacementRow
  <1>2. PICK n \in Node, s \in Nat : n = placement[i].node /\ s = Size[placement[i].release]
    BY <1>1
  <1>3. node[n] \in NodeRow /\ node[n].used \in Nat /\ node[n].count \in Nat
    BY DEF Typed, TypeOK, NodeRow
  <1>4. PICK u \in Nat, k \in Nat : u = Minus(node[n].used, s) /\ k = Minus(node[n].count, 1)
    BY <1>3 DEF Minus
  <1>5. PICK v \in NodeRow :
          /\ v = Using(node[n], u, k)
          /\ v.used = u /\ v.count = k /\ v.version = node[n].version /\ v.status = node[n].status
          /\ v.enabled = node[n].enabled /\ v.draining = node[n].draining
    <2>1. PICK row \in NodeRow : row = node[n]
      BY <1>3
    <2> QED BY <2>1, UsingRow
  <1>6. node' = [node EXCEPT ![n] = v]
    BY <1>2, <1>4, <1>5 DEF Subtract
  <1>8. SubtractFrom(n, s)
    BY <1>4, <1>5, <1>6 DEF SubtractFrom
  <1> QED BY <1>1, <1>2, <1>8

\* What is subtracted stays a natural number.
LEMMA SubtractType ==
  ASSUME Typed, NEW i \in DOMAIN placement, Subtract(i)
  PROVE  node' \in [Node -> NodeRow]
  BY SubtractFacts DEF SubtractFrom, Typed, TypeOK

\* Rewriting rows of placements keeps their number.
LEMMA RewriteType ==
  ASSUME Typed, NEW p, placement' = [j \in DOMAIN placement |-> p[j]],
         \A j \in DOMAIN placement : p[j] \in PlacementRow
  PROVE  PlacementType' /\ DOMAIN placement' = DOMAIN placement
  <1>1. PICK k \in Nat : k = Len(placement) /\ DOMAIN placement = 1 .. k /\ k <= MaxPlacements
    BY PlacementFacts DEF Typed, TypeOK
  <1>2. placement' \in [1 .. k -> PlacementRow]
    BY <1>1
  <1>3. placement' \in Seq(PlacementRow) /\ Len(placement') = k
    BY <1>2, SeqDef
  <1> QED BY <1>1, <1>2, <1>3 DEF PlacementType

\* A step that counts a change keeps the history variables within their bounds.
LEMMA CountsType ==
  ASSUME Typed, Change \/ UNCHANGED changes, UNCHANGED clashed
  PROVE  changes' \in 0 .. MaxChanges /\ clashed' \in BOOLEAN
  BY NodeSchedulerAssumption DEF Typed, TypeOK, Change

\* An operation of the scheduler keeps the types when it keeps those of nodes,
\* placements and its own variables.
LEMMA CallerStepType ==
  ASSUME Typed, UNCHANGED <<report, handler, silent, changes>>, clashed' \in BOOLEAN,
         node' \in [Node -> NodeRow], PlacementType',
         caller' \in [Caller -> CallerState] /\ CallerKnows'
  PROVE  Typed'
  <1>1. TypeOK'
    BY DEF Typed, TypeOK, PlacementType
  <1>2. HandlerKnows'
    BY DEF Typed, HandlerKnows
  <1> QED BY <1>1, <1>2 DEF Typed

\* Types: the steps that choose a node.
LEMMA ChoosingType ==
  ASSUME Typed, NEW c \in Caller,
         \/ \E r \in Release, avoid \in SUBSET Node : Schedule(c, r, avoid)
         \/ RescheduleChoose(c)
         \/ \E r \in Release : ReleasePlacement(c, r)
         \/ \E r \in Release, failed \in Node, avoid \in SUBSET Node : Reschedule(c, r, failed, avoid)
         \/ CallerCrash(c)
  PROVE  Typed'
  <1>1. UNCHANGED <<node, placement, report, handler, silent, changes>>
    BY DEF Schedule, RescheduleChoose, ReleasePlacement, Reschedule, CallerCrash
  <1>2. caller' \in [Caller -> CallerState] /\ CallerKnows'
    <2>1. ASSUME NEW r \in Release, NEW avoid \in SUBSET Node, Schedule(c, r, avoid)
          PROVE  caller' \in [Caller -> CallerState] /\ CallerKnows'
      BY <1>1, <2>1, ChooseType DEF Schedule
    <2>2. ASSUME RescheduleChoose(c) PROVE caller' \in [Caller -> CallerState] /\ CallerKnows'
      <3>1. caller[c].release \in Release /\ caller[c].avoid \in SUBSET Node
        BY <2>2 DEF Typed, TypeOK, CallerKnows, CallerState, RescheduleChoose
      <3> QED BY <1>1, <2>2, <3>1, ChooseType DEF RescheduleChoose
    <2>3. ASSUME NEW r \in Release, ReleasePlacement(c, r)
          PROVE  caller' \in [Caller -> CallerState] /\ CallerKnows'
      BY <1>1, <2>3, ReadType DEF ReleasePlacement
    <2>4. ASSUME NEW r \in Release, NEW failed \in Node, NEW avoid \in SUBSET Node,
                 Reschedule(c, r, failed, avoid)
          PROVE  caller' \in [Caller -> CallerState] /\ CallerKnows'
      BY <1>1, <2>4, ReadType DEF Reschedule
    <2>5. ASSUME CallerCrash(c) PROVE caller' \in [Caller -> CallerState] /\ CallerKnows'
      BY <1>1, <2>5, IdleFacts, CallerSet DEF CallerCrash
    <2> QED BY <2>1, <2>2, <2>3, <2>4, <2>5
  <1>3. node' \in [Node -> NodeRow] /\ PlacementType'
    BY <1>1 DEF Typed, TypeOK, PlacementType
  <1>4. clashed' \in BOOLEAN
    BY Zenon DEF Schedule, RescheduleChoose, ReleasePlacement, Reschedule, CallerCrash,
       ReadPlacement, Found, Take, Typed, TypeOK
  <1> QED BY <1>1, <1>2, <1>3, <1>4, CallerStepType

\* What Reserve writes: row k + 1 of placements and row v of node n.
ReserveWrites(c, r, n, k, v) ==
  /\ r = caller[c].release /\ n = caller[c].node /\ caller[c].pc = "reserve"
  /\ k = Len(placement) /\ k < MaxPlacements /\ DOMAIN placement = 1 .. k
  /\ PlacementType' /\ DOMAIN placement' = 1 .. (k + 1)
  /\ \A i \in 1 .. k : placement'[i] = placement[i]
  /\ placement'[k + 1] = [release |-> r, node |-> n, status |-> "placed", expired |-> FALSE]
  /\ node' = [node EXCEPT ![n] = v]
  /\ v.used = node[n].used + Size[r] /\ v.count = node[n].count + 1
  /\ v.version = node[n].version /\ v.status = node[n].status
  /\ v.enabled = node[n].enabled /\ v.draining = node[n].draining
  /\ caller' = [caller EXCEPT ![c] = IdleCaller]
  /\ UNCHANGED <<report, handler, silent, changes, clashed>>

\* What Reserve writes, with names for what it read.
LEMMA ReserveFacts ==
  ASSUME Typed, NEW c \in Caller, Reserve(c)
  PROVE  \E r \in Release, n \in Node, k \in Nat, v \in NodeRow : ReserveWrites(c, r, n, k, v)
  <1>1. caller[c].pc = "reserve"
    BY DEF Reserve
  <1>2. PICK r \in Release, n \in Node : r = caller[c].release /\ n = caller[c].node
    BY <1>1 DEF Typed, CallerKnows
  <1>3. PICK k \in Nat : k = Len(placement) /\ DOMAIN placement = 1 .. k /\ placement \in Seq(PlacementRow)
    BY PlacementFacts DEF Typed, TypeOK
  <1>4. PICK row : row = [release |-> r, node |-> n, status |-> "placed", expired |-> FALSE]
    OBVIOUS
  <1>5. row \in PlacementRow
    BY <1>4 DEF PlacementRow, PlacementStatus
  <1>6. placement' = Append(placement, row) /\ k < MaxPlacements
    BY <1>2, <1>3, <1>4 DEF Reserve
  <1>7. /\ placement' \in Seq(PlacementRow) /\ Len(placement') = k + 1
        /\ \A i \in 1 .. k : placement'[i] = placement[i]
        /\ placement'[k + 1] = row
    BY <1>3, <1>5, <1>6, AppendProperties
  <1>8. DOMAIN placement' = 1 .. (k + 1)
    BY <1>7, LenProperties
  <1>9. PlacementType'
    BY <1>6, <1>7, NodeSchedulerAssumption DEF PlacementType
  <1>10. /\ Size[r] \in Nat /\ node[n] \in NodeRow /\ node[n].used \in Nat /\ node[n].count \in Nat
    BY NodeSchedulerAssumption DEF Typed, TypeOK, NodeRow
  <1>11. PICK u \in Nat, m \in Nat : u = node[n].used + Size[r] /\ m = node[n].count + 1
    BY <1>10
  <1>12. PICK v \in NodeRow :
          /\ v = Using(node[n], u, m)
          /\ v.used = u /\ v.count = m /\ v.version = node[n].version /\ v.status = node[n].status
          /\ v.enabled = node[n].enabled /\ v.draining = node[n].draining
    <2>1. PICK old \in NodeRow : old = node[n]
      BY <1>10
    <2> QED BY <2>1, UsingRow
  <1>13. node' = [node EXCEPT ![n] = v]
    BY <1>2, <1>11, <1>12 DEF Reserve
  <1>14. ReserveWrites(c, r, n, k, v)
    BY <1>1, <1>2, <1>3, <1>4, <1>6, <1>7, <1>8, <1>9, <1>11, <1>12, <1>13 DEF Reserve, ReserveWrites
  <1> QED BY <1>14

\* Types: the reservation.
LEMMA ReserveType ==
  ASSUME Typed, NEW c \in Caller, Reserve(c)
  PROVE  Typed'
  <1>1. PICK r \in Release, n \in Node, k \in Nat, v \in NodeRow : ReserveWrites(c, r, n, k, v)
    BY ReserveFacts
  <1>2. node' \in [Node -> NodeRow]
    BY <1>1 DEF Typed, TypeOK, ReserveWrites
  <1>3. caller' \in [Caller -> CallerState] /\ CallerKnows'
    <2>1. DOMAIN placement \subseteq DOMAIN placement'
      BY <1>1 DEF ReserveWrites
    <2> QED BY <1>1, <2>1, IdleFacts, CallerSet DEF ReserveWrites
  <1>4. clashed' \in BOOLEAN
    BY <1>1 DEF Typed, TypeOK, ReserveWrites
  <1> QED BY <1>1, <1>2, <1>3, <1>4, CallerStepType DEF ReserveWrites

\* Types: a placement is given back.
LEMMA GiveBackType ==
  ASSUME Typed, NEW c \in Caller, GiveBack(c) \/ GiveBackFails(c)
  PROVE  Typed'
  <1>1. /\ caller[c].release \in Release /\ caller[c].row \in DOMAIN placement
        /\ caller[c].avoid \in SUBSET Node /\ caller[c].next \in {"idle", "choose"}
    BY DEF Typed, TypeOK, CallerKnows, CallerState, GiveBack, GiveBackFails
  <1>2. CASE GiveBack(c)
    <2> DEFINE p == [j \in DOMAIN placement |->
                      IF placement[j].release = caller[c].release
                      THEN [placement[j] EXCEPT !.status = "stopped"] ELSE placement[j]]
    <2>1. \A j \in DOMAIN placement : p[j] \in PlacementRow
      BY PlacementFacts DEF Typed, PlacementRow, PlacementStatus
    <2>2. placement' = [j \in DOMAIN placement |-> p[j]]
      BY <1>2 DEF GiveBack, StopAll
    <2>3. PlacementType' /\ DOMAIN placement' = DOMAIN placement
      <3> HIDE DEF p
      <3> QED BY <2>1, <2>2, RewriteType
    <2>4. node' \in [Node -> NodeRow]
      BY <1>1, <1>2, SubtractType DEF GiveBack
    <2>5. caller' \in [Caller -> CallerState] /\ CallerKnows'
      BY <1>1, <1>2, <2>3, ReturnType DEF GiveBack
    <2>6. clashed' \in BOOLEAN
      BY <1>2 DEF GiveBack, Typed, TypeOK
    <2> QED BY <1>2, <2>3, <2>4, <2>5, <2>6, CallerStepType DEF GiveBack
  <1>3. CASE GiveBackFails(c)
    <2>1. caller' \in [Caller -> CallerState] /\ CallerKnows'
      BY <1>1, <1>3, ReturnType DEF GiveBackFails
    <2>2. node' \in [Node -> NodeRow] /\ PlacementType' /\ clashed' \in BOOLEAN
      BY <1>3, NodeSchedulerAssumption DEF GiveBackFails, Typed, TypeOK, PlacementType
    <2> QED BY <1>3, <2>1, <2>2, CallerStepType DEF GiveBackFails
  <1> QED BY <1>2, <1>3

\* Types: the scan for expired leases.
LEMMA ScanType ==
  ASSUME Typed, NEW c \in Caller, ReconcileScan(c)
  PROVE  Typed'
  <1>1. PICK found \in SUBSET DOMAIN placement : caller' = [caller EXCEPT ![c] = Reconciling(found)]
    BY DEF ReconcileScan, Reconciling
  <1>2. UNCHANGED <<node, placement, report, handler, silent, changes>>
    BY DEF ReconcileScan
  <1>3. found \in SUBSET (1 .. MaxPlacements)
    BY PlacementFacts DEF Typed
  <1>4. caller' \in [Caller -> CallerState] /\ CallerKnows'
    BY <1>1, <1>2, <1>3, ReconcilingFacts, CallerSet
  <1>5. node' \in [Node -> NodeRow] /\ PlacementType'
    BY <1>2 DEF Typed, TypeOK, PlacementType
  <1>6. clashed' \in BOOLEAN
    BY DEF ReconcileScan, Take
  <1> QED BY <1>2, <1>4, <1>5, <1>6, CallerStepType

\* What is left to an operation that reconciles after one of its rows.
LEMMA RowsLeft ==
  ASSUME Typed, NEW c \in Caller, caller[c].pc = "rows", NEW i \in caller[c].rows,
         NEW v, v = IF caller[c].rows = {i} THEN IdleCaller ELSE [caller[c] EXCEPT !.rows = @ \ {i}]
  PROVE  /\ v \in CallerState /\ v.rows = caller[c].rows \ {i}
         /\ v.pc \in {"idle", "rows"} /\ (v.pc = "idle" => v.rows = {})
  <1>1. CASE caller[c].rows = {i}
    BY <1>1, IdleFacts
  <1>2. CASE caller[c].rows # {i}
    <2>1. v = [caller[c] EXCEPT !.rows = caller[c].rows \ {i}] /\ caller[c] \in CallerState
      BY <1>2 DEF Typed, TypeOK
    <2> QED BY <2>1 DEF CallerState
  <1> QED BY <1>1, <1>2

\* Types: one expired row.
LEMMA ReconcileRowType ==
  ASSUME Typed, NEW c \in Caller, NEW i \in caller[c].rows, ReconcileRow(c, i)
  PROVE  Typed'
  <1>1. i \in DOMAIN placement /\ caller[c].rows \subseteq DOMAIN placement
    BY DEF Typed, CallerKnows
  <1> DEFINE p == [j \in DOMAIN placement |->
                     IF /\ placement[j].release = placement[i].release
                        /\ placement[j].status = "placed"
                     THEN [placement[j] EXCEPT !.status = "failed"]
                     ELSE placement[j]]
  <1>2. \A j \in DOMAIN placement : p[j] \in PlacementRow
    BY PlacementFacts DEF Typed, PlacementRow, PlacementStatus
  <1>3. placement' = [j \in DOMAIN placement |-> p[j]]
    BY DEF ReconcileRow, FailPlaced
  <1>4. PlacementType' /\ DOMAIN placement' = DOMAIN placement
    <2> HIDE DEF p
    <2> QED BY <1>2, <1>3, RewriteType
  <1>5. node' \in [Node -> NodeRow]
    BY <1>1, SubtractType DEF ReconcileRow
  <1>6. PICK v : v = IF caller[c].rows = {i} THEN IdleCaller ELSE [caller[c] EXCEPT !.rows = @ \ {i}]
    OBVIOUS
  <1>7. caller' = [caller EXCEPT ![c] = v] /\ caller[c].pc = "rows"
    BY <1>6 DEF ReconcileRow
  <1>8. /\ v \in CallerState /\ v.rows = caller[c].rows \ {i}
        /\ v.pc \in {"idle", "rows"} /\ (v.pc = "idle" => v.rows = {})
    BY <1>6, <1>7, RowsLeft
  <1>9. caller' \in [Caller -> CallerState] /\ CallerKnows'
    BY <1>1, <1>4, <1>7, <1>8, CallerSet
  <1>10. clashed' \in BOOLEAN /\ UNCHANGED <<report, handler, silent, changes>>
    BY DEF ReconcileRow, Typed, TypeOK
  <1> QED BY <1>4, <1>5, <1>9, <1>10, CallerStepType

\* Types: a lease expires.
LEMMA LeaseType ==
  ASSUME Typed, NEW i \in DOMAIN placement, LeaseExpires(i)
  PROVE  Typed'
  <1> DEFINE p == [placement EXCEPT ![i].expired = TRUE]
  <1>1. \A j \in DOMAIN placement : p[j] \in PlacementRow
    BY PlacementFacts DEF Typed, PlacementRow
  <1>2. placement' = [j \in DOMAIN placement |-> p[j]]
    <2>1. placement \in [DOMAIN placement -> PlacementRow]
      BY PlacementFacts, LenProperties DEF Typed, TypeOK
    <2> QED BY <2>1 DEF LeaseExpires
  <1>3. PlacementType' /\ DOMAIN placement' = DOMAIN placement
    <2> HIDE DEF p
    <2> QED BY <1>1, <1>2, RewriteType
  <1>4. UNCHANGED <<node, caller, report, handler, silent, changes, clashed>>
    BY DEF LeaseExpires
  <1>5. caller' \in [Caller -> CallerState] /\ CallerKnows'
    BY <1>3, <1>4 DEF Typed, TypeOK, CallerKnows
  <1>6. node' \in [Node -> NodeRow] /\ clashed' \in BOOLEAN
    BY <1>4 DEF Typed, TypeOK
  <1> QED BY <1>3, <1>4, <1>5, <1>6, CallerStepType

\* The registry's statements on one row of nodes keep its type.
LEMMA RowsType ==
  ASSUME Typed, NEW n \in Node, NEW b \in BOOLEAN,
         \/ \E total \in Totals, slots \in Slots : RegisterNode(n, total, slots)
         \/ SetDrain(n, b) \/ SetEnabled(n, b)
         \/ RotateNodeIdentity(n) \/ Silence(n)
  PROVE  Typed'
  <1>1. UNCHANGED <<placement, caller, report, handler, silent, clashed>> /\ (Change \/ UNCHANGED changes)
    BY DEF RegisterNode, SetDrain, SetEnabled, RotateNodeIdentity, Silence
  <1>2. node \in [Node -> NodeRow]
    BY DEF Typed, TypeOK
  <1>3. node' \in [Node -> NodeRow]
    <2>1. ASSUME NEW total \in Totals, NEW slots \in Slots, RegisterNode(n, total, slots)
          PROVE  node' \in [Node -> NodeRow]
      <3>1. node' = [node EXCEPT ![n] = Online(node[n], total, slots)]
        BY <2>1 DEF RegisterNode
      <3> QED BY <1>2, <3>1, OnlineRow
    <2>2. CASE SetDrain(n, b)
      <3>1. node' = [node EXCEPT ![n] = Drained(node[n], b)]
        BY <2>2 DEF SetDrain
      <3> QED BY <1>2, <3>1, DrainedRow
    <2>3. CASE SetEnabled(n, b)
      BY <1>2, <2>3 DEF SetEnabled, NodeRow
    <2>4. CASE RotateNodeIdentity(n)
      BY <1>2, <2>4 DEF RotateNodeIdentity, NodeRow
    <2>5. CASE Silence(n)
      <3>1. node[n].beat + 1 \in Fresh .. Forgotten
        BY <1>2, <2>5 DEF Silence, NodeRow, Fresh, Forgotten
      <3>2. node' = [node EXCEPT ![n].beat = node[n].beat + 1]
        BY <2>5 DEF Silence
      <3> QED BY <1>2, <3>1, <3>2 DEF NodeRow
    <2> QED BY <2>1, <2>2, <2>3, <2>4, <2>5
  <1>4. changes' \in 0 .. MaxChanges /\ clashed' \in BOOLEAN
    BY <1>1, CountsType
  <1>5. TypeOK'
    BY <1>1, <1>3, <1>4 DEF Typed, TypeOK
  <1>6. CallerKnows' /\ HandlerKnows'
    BY <1>1 DEF Typed, CallerKnows, HandlerKnows
  <1> QED BY <1>5, <1>6 DEF Typed

\* Types: an agent reports.
LEMMA SendHeartbeatType ==
  ASSUME Typed, NEW n \in Node, SendHeartbeat(n)
  PROVE  Typed'
  <1>1. Load(n) \in Nat /\ Cardinality(LiveOn(n)) \in Nat
    BY LoadType DEF Typed
  <1>2. node[n].epoch \in Nat
    BY DEF Typed, TypeOK, NodeRow
  <1>3. report' \subseteq Report
    BY <1>1, <1>2 DEF SendHeartbeat, Report, Typed, TypeOK
  <1>4. TypeOK'
    BY <1>3 DEF SendHeartbeat, Typed, TypeOK
  <1>5. CallerKnows' /\ HandlerKnows'
    BY DEF SendHeartbeat, Typed, CallerKnows, HandlerKnows
  <1> QED BY <1>4, <1>5 DEF Typed

\* Types: a heartbeat is read.
LEMMA HeartbeatReadType ==
  ASSUME Typed, NEW h \in Handler, NEW m \in report, HeartbeatRead(h, m)
  PROVE  Typed'
  <1>1. m.node \in Node /\ m.used \in Nat /\ m.count \in Nat
    BY DEF Typed, TypeOK, Report
  <1>2. PICK v : v = [node |-> m.node, version |-> node[m.node].version, used |-> m.used, count |-> m.count]
    OBVIOUS
  <1>3. v \in HandlerState /\ v.node \in Node
    BY <1>1, <1>2 DEF Typed, TypeOK, HandlerState, NodeRow
  <1>4. handler' = [handler EXCEPT ![h] = v] \/ UNCHANGED handler
    BY <1>2 DEF HeartbeatRead
  <1>5. handler' \in [Handler -> HandlerState] /\ HandlerKnows'
    BY <1>3, <1>4 DEF Typed, TypeOK, HandlerKnows
  <1>6. TypeOK'
    BY <1>5 DEF HeartbeatRead, Typed, TypeOK
  <1>7. CallerKnows'
    BY DEF HeartbeatRead, Typed, CallerKnows
  <1> QED BY <1>5, <1>6, <1>7 DEF Typed

\* What HeartbeatWrite writes.
LEMMA HeartbeatWriteFacts ==
  ASSUME Typed, NEW h \in Handler, HeartbeatWrite(h)
  PROVE  \E n \in Node :
           /\ node' = [node EXCEPT ![n] = Beaten(node[n], h)] \/ UNCHANGED node
           /\ node[n] \in NodeRow
           /\ Beaten(node[n], h) \in NodeRow
           /\ Beaten(node[n], h).version = node[n].version + 1
           /\ Beaten(node[n], h).status = node[n].status
           /\ Beaten(node[n], h).enabled = node[n].enabled
           /\ Beaten(node[n], h).draining = node[n].draining
  <1>1. PICK n \in Node : n = handler[h].node
    BY DEF Typed, HandlerKnows, HeartbeatWrite
  <1>2. node[n] \in NodeRow /\ handler \in [Handler -> HandlerState]
    BY DEF Typed, TypeOK
  <1>3. node' = [node EXCEPT ![n] = Beaten(node[n], h)] \/ UNCHANGED node
    BY <1>1 DEF HeartbeatWrite
  <1> QED BY <1>2, <1>3, BeatenRow

\* Types: a heartbeat is written.
LEMMA HeartbeatWriteType ==
  ASSUME Typed, NEW h \in Handler, HeartbeatWrite(h)
  PROVE  Typed'
  <1>1. PICK n \in Node :
           /\ node' = [node EXCEPT ![n] = Beaten(node[n], h)] \/ UNCHANGED node
           /\ Beaten(node[n], h) \in NodeRow
    BY HeartbeatWriteFacts
  <1>2. node' \in [Node -> NodeRow]
    BY <1>1 DEF Typed, TypeOK
  <1>3. IdleHandler \in HandlerState
    BY DEF IdleHandler, HandlerState
  <1>4. handler' \in [Handler -> HandlerState] /\ HandlerKnows'
    BY <1>3 DEF HeartbeatWrite, Typed, TypeOK, HandlerKnows
  <1>5. TypeOK'
    BY <1>2, <1>4 DEF HeartbeatWrite, Typed, TypeOK
  <1>6. CallerKnows'
    BY DEF HeartbeatWrite, Typed, CallerKnows
  <1> QED BY <1>4, <1>5, <1>6 DEF Typed

\* Types: the monitor.
LEMMA EvaluateType ==
  ASSUME Typed, EvaluateScan \/ EvaluateFails \/ \E row \in silent : EvaluateRow(row)
  PROVE  Typed'
  <1>1. UNCHANGED <<placement, caller, report, handler, changes, clashed>>
    BY DEF EvaluateScan, EvaluateFails, EvaluateRow
  <1>2. silent' \subseteq [id : Node, to : {"degraded", "offline"}]
    <2>1. CASE EvaluateScan
      <3>1. PICK found \in SUBSET Node :
              silent' = {[id |-> n, to |-> IF node[n].beat >= Lost THEN "offline" ELSE "degraded"] : n \in found}
        BY <2>1 DEF EvaluateScan
      <3> QED BY <3>1
    <2>2. CASE silent' \subseteq silent
      BY <2>2 DEF Typed, TypeOK
    <2> QED BY <2>1, <2>2 DEF EvaluateFails, EvaluateRow
  <1>3. node' \in [Node -> NodeRow]
    <2>1. ASSUME NEW row \in silent, EvaluateRow(row) PROVE node' \in [Node -> NodeRow]
      <3>1. row.id \in Node /\ row.to \in {"degraded", "offline"}
        BY DEF Typed, TypeOK
      <3>2. PICK m \in Node, t \in NodeStatus : m = row.id /\ t = row.to
        BY <3>1 DEF NodeStatus
      <3>3. node' = [node EXCEPT ![m].status = t]
        BY <2>1, <3>2 DEF EvaluateRow
      <3> QED BY <3>3, ZenonT(40) DEF Typed, TypeOK, NodeRow
    <2>2. ASSUME UNCHANGED node PROVE node' \in [Node -> NodeRow]
      BY <2>2 DEF Typed, TypeOK
    <2> QED BY <2>1, <2>2 DEF EvaluateScan, EvaluateFails
  <1>4. TypeOK'
    BY <1>1, <1>2, <1>3 DEF Typed, TypeOK
  <1>5. CallerKnows' /\ HandlerKnows'
    BY <1>1 DEF Typed, CallerKnows, HandlerKnows
  <1> QED BY <1>4, <1>5 DEF Typed

\* Types: the registry.
LEMMA RegistryType ==
  ASSUME Typed, RegistryStep
  PROVE  Typed'
  BY RowsType, SendHeartbeatType, HeartbeatReadType, HeartbeatWriteType, EvaluateType DEF RegistryStep

\* Every step keeps the types.
LEMMA TypedStep ==
  ASSUME Typed, Next
  PROVE  Typed'
  BY StepCases, ChoosingType, ReserveType, GiveBackType, ScanType, ReconcileRowType, LeaseType,
     RegistryType

\* They hold at the start.
LEMMA TypedInit ==
  ASSUME Init
  PROVE  Typed
  <1> USE NodeSchedulerAssumption
  <1>1. node \in [Node -> NodeRow]
    BY DEF Init, NodeRow, NodeStatus, Fresh, Forgotten
  <1>2. placement = <<>> /\ placement \in Seq(PlacementRow) /\ Len(placement) <= MaxPlacements
    BY DEF Init
  <1>3. caller \in [Caller -> CallerState] /\ handler \in [Handler -> HandlerState]
    BY IdleFacts DEF Init, IdleHandler, HandlerState
  <1>4. /\ report \subseteq Report /\ silent \subseteq [id : Node, to : {"degraded", "offline"}]
        /\ changes \in 0 .. MaxChanges
    BY DEF Init
  <1>7. clashed \in BOOLEAN
    BY Zenon DEF Init
  <1>6. TypeOK
    BY <1>1, <1>2, <1>3, <1>4, <1>7, Zenon DEF TypeOK
  <1>5. CallerKnows /\ HandlerKnows
    BY IdleFacts DEF Init, CallerKnows, HandlerKnows
  <1> QED BY <1>5, <1>6 DEF Typed

\* A stuttering step keeps them.
LEMMA TypedStutter ==
  ASSUME Typed, UNCHANGED vars
  PROVE  Typed'
  BY DEF Typed, TypeOK, CallerKnows, HandlerKnows, vars

\* The types hold in every state.
LEMMA TypesHold == Spec => []Typed
  <1>1. Typed /\ [Next]_vars => Typed'
    BY TypedStep, TypedStutter
  <1> QED BY <1>1, TypedInit, PTL DEF Spec

\* TypeOK: rows of nodes and placements stay well formed; what a node is said to
\* use never falls below zero, whatever reports and subtractions meet.
THEOREM TypeCorrect == Spec => []TypeOK
  <1>1. Typed => TypeOK
    BY DEF Typed
  <1> QED BY <1>1, TypesHold, PTL

---------------------------------------------------------------------------
(* Reopening                                                               *)

\* A step that leaves the columns alone that list_active_nodes filters on.
SameFilters(n) ==
  /\ node'[n].status = node[n].status /\ node'[n].enabled = node[n].enabled
  /\ node'[n].draining = node[n].draining

\* The scheduler writes none of them.
LEMMA SchedulerOpensNothing ==
  ASSUME Typed, NEW c \in Caller, CallerStep(c), NEW n \in Node
  PROVE  SameFilters(n)
  <1>1. node \in [Node -> NodeRow]
    BY DEF Typed, TypeOK
  <1>2. ASSUME UNCHANGED node PROVE SameFilters(n)
    BY <1>2 DEF SameFilters
  <1>3. ASSUME NEW i \in DOMAIN placement, Subtract(i) PROVE SameFilters(n)
    BY <1>1, <1>3, SubtractFacts DEF SubtractFrom, SameFilters
  <1>4. ASSUME Reserve(c) PROVE SameFilters(n)
    <2>1. PICK r \in Release, m \in Node, k \in Nat, v \in NodeRow : ReserveWrites(c, r, m, k, v)
      BY <1>4, ReserveFacts
    <2> QED BY <1>1, <2>1 DEF SameFilters, ReserveWrites
  <1>5. \/ UNCHANGED node \/ Reserve(c)
        \/ GiveBack(c) \/ \E i \in caller[c].rows : ReconcileRow(c, i)
    BY DEF CallerStep, Schedule, ReleasePlacement, Reschedule, GiveBackFails, RescheduleChoose,
       ReconcileScan, CallerCrash
  <1>6. ASSUME GiveBack(c) PROVE SameFilters(n)
    BY <1>3, <1>6 DEF GiveBack, Typed, CallerKnows
  <1>7. ASSUME NEW i \in caller[c].rows, ReconcileRow(c, i) PROVE SameFilters(n)
    BY <1>3, <1>7 DEF ReconcileRow, Typed, CallerKnows
  <1> QED BY <1>2, <1>4, <1>5, <1>6, <1>7

\* Of the registry's statements those of an operator and of a registration open.
LEMMA RegistryOpens ==
  ASSUME Typed, RegistryStep, NEW n \in Node, ~ Open(n), Open(n)'
  PROVE  (\E total \in Totals, slots \in Slots : RegisterNode(n, total, slots)) \/ SetDrain(n, FALSE) \/ SetEnabled(n, TRUE)
  <1>1. node \in [Node -> NodeRow]
    BY DEF Typed, TypeOK
  <1>2. ~ SameFilters(n)
    BY DEF SameFilters, Open
  <1>3. UNCHANGED node => SameFilters(n)
    BY DEF SameFilters
  <1>4. ASSUME NEW m \in Node, m # n, NEW v, node' = [node EXCEPT ![m] = v] PROVE FALSE
    BY <1>1, <1>2, <1>4 DEF SameFilters
  <1>5. ASSUME NEW m \in Node, NEW total \in Totals, NEW slots \in Slots, RegisterNode(m, total, slots)
        PROVE  m = n
    BY <1>4, <1>5 DEF RegisterNode
  <1>6. ASSUME NEW m \in Node, NEW b \in BOOLEAN, SetDrain(m, b) PROVE SetDrain(n, FALSE)
    <2>1. m = n
      BY <1>4, <1>6 DEF SetDrain
    <2>2. node'[n] = Drained(node[n], b)
      BY <1>1, <1>6, <2>1 DEF SetDrain
    <2>3. b = FALSE
      <3>1. PICK row \in NodeRow : row = node[n]
        BY <1>1
      <3>2. node'[n].status = IF b THEN "draining" ELSE "online"
        BY <2>2, <3>1, DrainedRow
      <3>3. node'[n].status = "online"
        BY DEF Open
      <3> QED BY <3>2, <3>3
    <2> QED BY <1>6, <2>1, <2>3
  <1>7. ASSUME NEW m \in Node, NEW b \in BOOLEAN, SetEnabled(m, b) PROVE SetEnabled(n, TRUE)
    <2>1. node' = [node EXCEPT ![m] = [node[m] EXCEPT !.enabled = b]]
      BY <1>7 DEF SetEnabled
    <2>2. m = n
      BY <1>4, <2>1
    <2>3. node'[n].enabled = b /\ node'[n].enabled = TRUE
      <3>1. node'[n].enabled = b
        BY <1>1, <2>1, <2>2 DEF NodeRow
      <3>2. node'[n].enabled
        BY Zenon DEF Open
      <3> QED BY <3>1, <3>2
    <2>4. b = TRUE
      BY <2>3
    <2> QED BY <1>7, <2>2, <2>4
  <1>8. ASSUME NEW m \in Node, RotateNodeIdentity(m) \/ Silence(m) PROVE FALSE
    <2>1. SameFilters(n)
      BY <1>1, <1>8 DEF RotateNodeIdentity, Silence, SameFilters, NodeRow
    <2> QED BY <1>2, <2>1
  <1>9. ASSUME NEW h \in Handler, HeartbeatWrite(h) PROVE FALSE
    <2>1. PICK m \in Node :
            /\ node' = [node EXCEPT ![m] = Beaten(node[m], h)] \/ UNCHANGED node
            /\ Beaten(node[m], h).status = node[m].status
            /\ Beaten(node[m], h).enabled = node[m].enabled
            /\ Beaten(node[m], h).draining = node[m].draining
      BY <1>9, HeartbeatWriteFacts
    <2>2. SameFilters(n)
      BY <1>1, <1>3, <2>1 DEF SameFilters
    <2> QED BY <1>2, <2>2
  <1>10. ASSUME NEW row \in silent, EvaluateRow(row) PROVE FALSE
    <2>1. row.id \in Node /\ row.to \in {"degraded", "offline"}
      BY DEF Typed, TypeOK
    <2>2. node'[n].status \in {node[n].status, "degraded", "offline"} /\ (row.id # n => SameFilters(n))
          /\ (row.id = n => node'[n].status = row.to)
      BY <1>1, <1>10, <2>1 DEF EvaluateRow, SameFilters, NodeRow
    <2>3. node'[n].status = "online"
      BY DEF Open
    <2> QED BY <1>2, <2>1, <2>2, <2>3
  <1>11. ~ UNCHANGED node
    BY <1>2, <1>3
  <1>12. \/ \E m \in Node : \/ \E total \in Totals, slots \in Slots : RegisterNode(m, total, slots)
                            \/ RotateNodeIdentity(m) \/ Silence(m)
                            \/ \E b \in BOOLEAN : SetDrain(m, b) \/ SetEnabled(m, b)
         \/ \E h \in Handler : HeartbeatWrite(h)
         \/ \E row \in silent : EvaluateRow(row)
    BY <1>11 DEF RegistryStep, SendHeartbeat, HeartbeatRead, EvaluateScan, EvaluateFails
  <1> QED BY <1>5, <1>6, <1>7, <1>8, <1>9, <1>10, <1>12

\* ReopenedOnPurpose: only an operator or a registration offers a node to the
\* scheduler again that was drained, disabled or found silent.
THEOREM ReopenedOnlyOnPurpose == Spec => ReopenedOnPurpose
  <1> DEFINE A == \A n \in Node :
                    ~Open(n) /\ Open(n)' =>
                      \/ \E total \in Totals, slots \in Slots :
                           RegisterNode(n, total, slots)
                      \/ SetDrain(n, FALSE) \/ SetEnabled(n, TRUE)
  <1>1. Typed /\ [Next]_vars => [A]_vars
    <2> SUFFICES ASSUME Typed, Next, NEW n \in Node, ~ Open(n), Open(n)'
                 PROVE  (\E total \in Totals, slots \in Slots : RegisterNode(n, total, slots)) \/ SetDrain(n, FALSE) \/ SetEnabled(n, TRUE)
      BY DEF A
    <2>1. ~ SameFilters(n)
      BY DEF SameFilters, Open
    <2>2. ASSUME NEW i \in DOMAIN placement, LeaseExpires(i) PROVE FALSE
      BY <2>1, <2>2 DEF LeaseExpires, SameFilters
    <2> QED BY <2>1, <2>2, SchedulerOpensNothing, RegistryOpens DEF Next
  <1>2. Spec => []Typed
    BY TypesHold
  <1>3. Spec => [][A]_vars
    BY <1>1, <1>2, PTL DEF Spec
  <1> QED BY <1>3 DEF ReopenedOnPurpose

---------------------------------------------------------------------------
(* The account of a node                                                   *)

\* What each placement holds.
Weight == [i \in DOMAIN placement |-> Size[placement[i].release]]

\* The placements on node n whose allocation is still to be given back: the live
\* ones and those an operation has before it.
Held(n) ==
  LiveOn(n) \cup {i \in DOMAIN placement :
                    placement[i].node = n /\ \E c \in Caller : i \in Holds(c)}

\* What an operation knows about the placement it will give back.
CallerReady ==
  \A c \in Caller :
    caller[c].pc = "giveBack" => placement[caller[c].row].release = caller[c].release

\* No statement makes a placement active.
NeverActive == \A i \in DOMAIN placement : placement[i].status # "active"

Versions == \A n \in Node : node[n].version >= 1

\* No placement is in the hands of two operations.
Apart == \A c, d \in Caller : c # d => Holds(c) \cap Holds(d) = {}

\* The account of a node covers what it holds.
Covered(n) ==
  node[n].version = 1 =>
    /\ Cardinality(Cells(Weight, Held(n))) <= node[n].used
    /\ Cardinality(Held(n)) <= node[n].count

LedgerInv ==
  /\ CallerReady /\ NeverActive /\ Versions
  /\ ~clashed => Apart /\ \A n \in Node : Covered(n)

\* The facts about a set of held placements that the steps below need.
LEMMA HeldFacts ==
  ASSUME Typed, NEW n \in Node
  PROVE  /\ Held(n) \subseteq DOMAIN placement /\ LiveOn(n) \subseteq Held(n)
         /\ IsFiniteSet(Held(n)) /\ Cardinality(Held(n)) \in Nat
         /\ \A i \in Held(n) : Weight[i] \in Nat
         /\ Cardinality(Cells(Weight, Held(n))) \in Nat
         /\ node[n].used \in Nat /\ node[n].count \in Nat /\ node[n].version \in Nat
  <1>1. Held(n) \subseteq DOMAIN placement /\ LiveOn(n) \subseteq Held(n)
    BY DEF Held, LiveOn
  <1>2. IsFiniteSet(Held(n))
    BY <1>1, PlacementFacts, FS_Subset DEF Typed
  <1>3. \A i \in Held(n) : Weight[i] \in Nat
    BY <1>1, PlacementFacts, NodeSchedulerAssumption DEF Typed, PlacementRow, Weight
  <1>4. Cardinality(Cells(Weight, Held(n))) \in Nat
    BY <1>2, <1>3, CellsFinite
  <1>5. /\ node[n].used \in Nat /\ node[n].count \in Nat /\ node[n].version \in Nat
    BY NodeSchedulerAssumption DEF Typed, TypeOK, NodeRow
  <1> QED BY <1>1, <1>2, <1>3, <1>4, <1>5, FS_CardinalityType

\* No statement changes the release of a placement, so weights stay.
SameReleases ==
  /\ DOMAIN placement \subseteq DOMAIN placement'
  /\ \A i \in DOMAIN placement : placement'[i].release = placement[i].release

\* The cells of old placements stay.
LEMMA CellsKept ==
  ASSUME SameReleases, NEW S, S \subseteq DOMAIN placement
  PROVE  Cells(Weight', S) = Cells(Weight, S)
  <1>1. \A i \in S : Weight'[i] = Weight[i]
    BY DEF SameReleases, Weight
  <1> QED BY <1>1 DEF Cells

\* A node whose account is left alone stays covered when it holds no more.
LEMMA CoveredKept ==
  ASSUME Typed, SameReleases, NEW n \in Node, Covered(n), Held(n)' \subseteq Held(n),
         node'[n].used = node[n].used, node'[n].count = node[n].count,
         node'[n].version = 1 => node[n].version = 1
  PROVE  Covered(n)'
  <1> DEFINE S == Held(n)
             T == Held(n)'
  <1>1. S \subseteq DOMAIN placement /\ IsFiniteSet(S) /\ \A i \in S : Weight[i] \in Nat
    BY HeldFacts
  <1>2. T \subseteq S
    OBVIOUS
  <1>3. Cardinality(Cells(Weight, T)) <= Cardinality(Cells(Weight, S)) /\ Cardinality(T) <= Cardinality(S)
        /\ Cardinality(Cells(Weight, T)) \in Nat /\ Cardinality(T) \in Nat
    <2> HIDE DEF S, T
    <2>1. IsFiniteSet(T) /\ Cardinality(T) <= Cardinality(S)
      BY <1>1, <1>2, FS_Subset
    <2> QED BY <1>1, <1>2, <2>1, CellsSubset, CellsFinite, FS_CardinalityType
  <1>4. Cells(Weight', T) = Cells(Weight, T)
    <2> HIDE DEF S, T
    <2> QED BY <1>1, <1>2, CellsKept
  <1>5. Cardinality(Cells(Weight', T)) <= Cardinality(Cells(Weight, S))
    BY <1>3, <1>4
  <1>6. node'[n].version = 1 =>
          /\ Cardinality(Cells(Weight', T)) <= node'[n].used
          /\ Cardinality(T) <= node'[n].count
    <2> HIDE DEF T
    <2>1. Cardinality(Cells(Weight', T)) \in Nat
      BY <1>3, <1>4
    <2> QED BY <1>3, <1>5, <2>1, HeldFacts DEF Covered
  <1> QED BY <1>6 DEF Covered

\* Giving back an allocation that the node held leaves the rest covered.
LEMMA CoveredSubtract ==
  ASSUME Typed, SameReleases, NEW n \in Node, Covered(n), NEW i \in Held(n),
         Held(n)' \subseteq Held(n) \ {i},
         node'[n].used = Minus(node[n].used, Weight[i]),
         node'[n].count = Minus(node[n].count, 1),
         node'[n].version = node[n].version
  PROVE  Covered(n)'
  <1> DEFINE S == Held(n)
             T == Held(n)'
  <1>1. S \subseteq DOMAIN placement /\ IsFiniteSet(S) /\ \A j \in S : Weight[j] \in Nat
    BY HeldFacts
  <1>2. T \subseteq S \ {i} /\ i \in S
    OBVIOUS
  <1> HIDE DEF S, T
  <1>3. IsFiniteSet(S \ {i}) /\ Cardinality(S \ {i}) = Cardinality(S) - 1 /\ Cardinality(S) \in Nat
    BY <1>1, <1>2, FS_RemoveElement, FS_CardinalityType
  <1>4. /\ Cardinality(Cells(Weight, S)) = Cardinality(Cells(Weight, S \ {i})) + Weight[i]
        /\ Cardinality(Cells(Weight, S \ {i})) \in Nat /\ Weight[i] \in Nat
    BY <1>1, <1>2, CellsRemove
  <1>5. /\ IsFiniteSet(T) /\ Cardinality(T) <= Cardinality(S) - 1 /\ Cardinality(T) \in Nat
    BY <1>2, <1>3, FS_Subset, FS_CardinalityType
  <1>6. /\ Cardinality(Cells(Weight, T)) <= Cardinality(Cells(Weight, S \ {i}))
        /\ Cardinality(Cells(Weight, T)) \in Nat
    BY <1>1, <1>2, <1>3, <1>5, CellsSubset, CellsFinite
  <1>7. Cells(Weight', T) = Cells(Weight, T)
    BY <1>1, <1>2, CellsKept
  <1>8. PICK a, b, d, e, w : /\ a = Cardinality(Cells(Weight, S)) /\ b = Cardinality(Cells(Weight', T))
                             /\ d = Cardinality(S) /\ e = Cardinality(T) /\ w = Weight[i]
    OBVIOUS
  <1>9. a \in Nat /\ b \in Nat /\ d \in Nat /\ e \in Nat /\ w \in Nat /\ b + w <= a /\ e + 1 <= d
    BY <1>3, <1>4, <1>5, <1>6, <1>7, <1>8
  <1>10. node'[n].version = 1 => /\ b <= node'[n].used
                                /\ e <= node'[n].count
    <2> SUFFICES ASSUME node'[n].version = 1
                 PROVE  /\ b <= node'[n].used
                        /\ e <= node'[n].count
      OBVIOUS
    <2>1. a <= node[n].used /\ d <= node[n].count
      BY <1>8 DEF Covered, S
    <2>2. node'[n].used = Minus(node[n].used, w) /\ node'[n].count = Minus(node[n].count, 1)
      BY <1>8
    <2>3. /\ node[n].used \in Nat /\ node[n].count \in Nat
      BY HeldFacts
    <2>4. node'[n].used = node[n].used - w /\ node'[n].count = node[n].count - 1
      BY <1>9, <2>1, <2>2, <2>3 DEF Minus
    <2> QED BY <1>9, <2>1, <2>3, <2>4
  <1> QED BY <1>8, <1>10 DEF Covered, T

\* A reservation is covered.
LEMMA CoveredReserve ==
  ASSUME Typed, SameReleases, NEW n \in Node, Covered(n), NEW x, x \notin Held(n),
         NEW w \in Nat, Weight'[x] = w, Held(n)' \subseteq Held(n) \cup {x},
         node'[n].used = node[n].used + w, node'[n].count = node[n].count + 1,
         node'[n].version = node[n].version
  PROVE  Covered(n)'
  <1> DEFINE S == Held(n)
             T == Held(n)'
  <1>1. S \subseteq DOMAIN placement /\ IsFiniteSet(S) /\ \A j \in S : Weight[j] \in Nat
    BY HeldFacts
  <1>2. T \subseteq S \cup {x} /\ x \notin S
    OBVIOUS
  <1> HIDE DEF S, T
  <1>3. Cells(Weight', S) = Cells(Weight, S)
    BY <1>1, CellsKept
  <1>4. \A j \in S \cup {x} : Weight'[j] \in Nat
    BY <1>1 DEF SameReleases, Weight
  <1>5. /\ Cardinality(Cells(Weight', S \cup {x})) = Cardinality(Cells(Weight', S)) + w
        /\ Cardinality(Cells(Weight, S)) \in Nat
    BY <1>1, <1>2, <1>4, CellsAdd, CellsFinite
  <1>6. /\ IsFiniteSet(S \cup {x}) /\ Cardinality(S \cup {x}) = Cardinality(S) + 1
        /\ Cardinality(S) \in Nat
    BY <1>1, <1>2, FS_AddElement, FS_CardinalityType
  <1>7. IsFiniteSet(T) /\ Cardinality(T) <= Cardinality(S) + 1 /\ Cardinality(T) \in Nat
    BY <1>2, <1>6, FS_Subset, FS_CardinalityType
  <1>8. /\ Cardinality(Cells(Weight', T)) <= Cardinality(Cells(Weight', S \cup {x}))
        /\ Cardinality(Cells(Weight', T)) \in Nat
    BY <1>2, <1>4, <1>6, <1>7, CellsSubset, CellsFinite
  <1>9. PICK a, b, d, e : /\ a = Cardinality(Cells(Weight, S)) /\ b = Cardinality(Cells(Weight', T))
                          /\ d = Cardinality(S) /\ e = Cardinality(T)
    OBVIOUS
  <1>10. a \in Nat /\ b \in Nat /\ d \in Nat /\ e \in Nat /\ b <= a + w /\ e <= d + 1
    BY <1>3, <1>5, <1>6, <1>7, <1>8, <1>9
  <1>11. node'[n].version = 1 => /\ b <= node'[n].used
                                /\ e <= node'[n].count
    <2> SUFFICES ASSUME node'[n].version = 1
                 PROVE  /\ b <= node'[n].used
                        /\ e <= node'[n].count
      OBVIOUS
    <2>1. a <= node[n].used /\ d <= node[n].count
      BY <1>9 DEF Covered, S
    <2>2. /\ node[n].used \in Nat /\ node[n].count \in Nat
      BY HeldFacts
    <2> QED BY <1>10, <2>1, <2>2
  <1> QED BY <1>9, <1>11 DEF Covered, T

\* What a node holds does not grow unless a placement is added.
LEMMA HeldShrinks ==
  ASSUME Typed, DOMAIN placement' = DOMAIN placement,
         \A i \in DOMAIN placement :
           /\ placement'[i].node = placement[i].node
           /\ placement'[i].status \in Live => placement[i].status \in Live,
         \A c \in Caller : \A i \in Holds(c)' :
           i \in Holds(c) \/ (i \in DOMAIN placement /\ placement[i].status \in Live),
         NEW n \in Node
  PROVE  Held(n)' \subseteq Held(n)
  <1>1. ASSUME NEW i \in Held(n)' PROVE i \in Held(n)
    <2>1. i \in DOMAIN placement /\ placement[i].node = n
      BY DEF Held, LiveOn
    <2>2. CASE placement[i].status \in Live
      BY <2>1, <2>2 DEF Held, LiveOn
    <2>3. CASE placement[i].status \notin Live
      <3>1. PICK c \in Caller : i \in Holds(c)'
        BY <2>1, <2>3 DEF Held, LiveOn
      <3> QED BY <2>1, <2>3, <3>1 DEF Held
    <2> QED BY <2>2, <2>3
  <1> QED BY <1>1

\* The placements a caller with local variables v holds.
HoldsOf(v) == IF v.pc = "giveBack" THEN {v.row} ELSE v.rows

\* A step of one caller changes what it holds and nothing else.
LEMMA HoldsSet ==
  ASSUME Typed, NEW c \in Caller, NEW v, caller' = [caller EXCEPT ![c] = v]
  PROVE  /\ \A d \in Caller : caller'[d] = IF d = c THEN v ELSE caller[d]
         /\ \A d \in Caller : Holds(d)' = IF d = c THEN HoldsOf(v) ELSE Holds(d)
  <1>1. \A d \in Caller : caller'[d] = IF d = c THEN v ELSE caller[d]
    BY DEF Typed, TypeOK
  <1> QED BY <1>1 DEF Holds, HoldsOf

\* What is held are placements.
LEMMA HoldsRows ==
  ASSUME Typed, NEW c \in Caller
  PROVE  Holds(c) \subseteq DOMAIN placement
  BY DEF Typed, CallerKnows, Holds

\* The account: a step of a caller that writes neither a node nor a placement.
\* It takes the placements of S, which are live.
LEMMA LedgerByCaller ==
  ASSUME Typed, LedgerInv, UNCHANGED <<node, placement>>, NEW c \in Caller, NEW v,
         caller' = [caller EXCEPT ![c] = v],
         v.pc = "giveBack" => placement[v.row].release = v.release,
         \/ HoldsOf(v) = {} /\ UNCHANGED clashed
         \/ Take(c, HoldsOf(v)),
         \A i \in HoldsOf(v) : i \in DOMAIN placement /\ placement[i].status \in Live
  PROVE  LedgerInv'
  <1>1. /\ \A d \in Caller : caller'[d] = IF d = c THEN v ELSE caller[d]
        /\ \A d \in Caller : Holds(d)' = IF d = c THEN HoldsOf(v) ELSE Holds(d)
    BY HoldsSet
  <1>2. CallerReady'
    BY <1>1 DEF LedgerInv, CallerReady
  <1>3. NeverActive' /\ Versions'
    BY DEF LedgerInv, NeverActive, Versions
  <1>4. ASSUME ~ clashed' PROVE Apart' /\ \A n \in Node : Covered(n)'
    <2>1. ~ clashed /\ \A d \in Caller \ {c} : Holds(d) \cap HoldsOf(v) = {}
      <3>1. CASE HoldsOf(v) = {} /\ UNCHANGED clashed
        BY <1>4, <3>1
      <3>2. CASE Take(c, HoldsOf(v))
        BY <1>4, <3>2 DEF Take
      <3> QED BY <3>1, <3>2
    <2>2. Apart'
      BY <1>1, <2>1 DEF LedgerInv, Apart
    <2>3. \A n \in Node : Held(n)' \subseteq Held(n)
      <3>1. \A d \in Caller : \A i \in Holds(d)' :
              i \in Holds(d) \/ (i \in DOMAIN placement /\ placement[i].status \in Live)
        BY <1>1
      <3> QED BY <3>1, HeldShrinks
    <2>4. SameReleases
      BY DEF SameReleases
    <2>5. \A n \in Node : Covered(n)'
      BY <2>1, <2>3, <2>4, CoveredKept DEF LedgerInv
    <2> QED BY <2>2, <2>5
  <1> QED BY <1>2, <1>3, <1>4 DEF LedgerInv

\* The account: a caller that holds nothing afterwards.
LEMMA LedgerLetGo ==
  ASSUME Typed, LedgerInv, UNCHANGED <<node, placement, clashed>>, NEW c \in Caller, NEW v,
         caller' = [caller EXCEPT ![c] = v], v.pc # "giveBack", v.rows = {}
  PROVE  LedgerInv'
  <1>1. HoldsOf(v) = {}
    BY DEF HoldsOf
  <1> QED BY <1>1, LedgerByCaller

\* The values Return can leave with a caller.
LEMMA ReturnFacts ==
  ASSUME Typed, NEW c \in Caller, NEW r \in Release, NEW avoid \in SUBSET Node,
         NEW next \in {"idle", "choose"}, Return(c, r, avoid, next)
  PROVE  \E v \in CallerState :
           v.pc = next /\ v.rows = {} /\ caller' = [caller EXCEPT ![c] = v]
  <1>1. CASE next = "idle"
    <2>1. caller' = [caller EXCEPT ![c] = IdleCaller]
      BY <1>1 DEF Return
    <2> QED BY <1>1, <2>1, IdleFacts
  <1>2. CASE next = "choose"
    <2>1. PICK v : v = Choosing(r, avoid, "choose")
      OBVIOUS
    <2>2. caller' = [caller EXCEPT ![c] = v]
      BY <1>2, <2>1 DEF Return, Choosing
    <2>3. v \in CallerState /\ v.pc = "choose" /\ v.rows = {}
      BY <2>1, ChoosingFacts
    <2> QED BY <1>2, <2>2, <2>3
  <1> QED BY <1>1, <1>2

\* The account: the placement read is live, so its node holds it already.
LEMMA LedgerRead ==
  ASSUME Typed, LedgerInv, UNCHANGED <<node, placement>>, NEW c \in Caller, NEW r \in Release,
         NEW avoid \in SUBSET Node, NEW next \in {"idle", "choose"}, ReadPlacement(c, r, avoid, next)
  PROVE  LedgerInv'
  <1>1. CASE Return(c, r, avoid, next) /\ UNCHANGED clashed
    <2>1. PICK v : v.pc = next /\ v.rows = {} /\ caller' = [caller EXCEPT ![c] = v]
      BY <1>1, ReturnFacts
    <2>2. v.pc # "giveBack"
      BY <2>1
    <2> QED BY <1>1, <2>1, <2>2, LedgerLetGo
  <1>2. ASSUME NEW i \in DOMAIN placement, Newest(i, r), placement[i].status \in Live,
               Found(c, i, r, avoid, next)
        PROVE  LedgerInv'
    <2>1. i \in 0 .. MaxPlacements
      BY PlacementFacts DEF Typed
    <2>2. PICK v : v = Returning(r, i, avoid, next)
      OBVIOUS
    <2>3. v.pc = "giveBack" /\ v.release = r /\ v.row = i
      BY <2>1, <2>2, ReturningFacts
    <2>4. caller' = [caller EXCEPT ![c] = v] /\ Take(c, {i})
      BY <1>2, <2>2 DEF Found, Returning
    <2>5. HoldsOf(v) = {i}
      BY <2>3 DEF HoldsOf
    <2>6. placement[v.row].release = v.release
      BY <1>2, <2>3 DEF Newest
    <2>7. Take(c, HoldsOf(v))
      BY <2>4, <2>5
    <2> QED BY <1>2, <2>4, <2>5, <2>6, <2>7, LedgerByCaller
  <1> QED BY <1>1, <1>2 DEF ReadPlacement

\* The account: a node is chosen.
LEMMA LedgerChoose ==
  ASSUME Typed, LedgerInv, UNCHANGED <<node, placement, clashed>>, NEW c \in Caller,
         NEW r \in Release, NEW avoid \in SUBSET Node, Choose(c, r, avoid)
  PROVE  LedgerInv'
  <1>1. CASE caller' = [caller EXCEPT ![c] = IdleCaller]
    BY <1>1, IdleFacts, LedgerLetGo
  <1>2. ASSUME NEW n \in Node, caller' = [caller EXCEPT ![c] = Reserving(r, n)]
        PROVE  LedgerInv'
    <2>1. PICK v : v = Reserving(r, n)
      OBVIOUS
    <2>2. v.pc = "reserve" /\ v.rows = {}
      BY <2>1, ReservingFacts
    <2> QED BY <1>2, <2>1, <2>2, LedgerLetGo
  <1>3. \/ caller' = [caller EXCEPT ![c] = IdleCaller]
        \/ \E n \in Node : caller' = [caller EXCEPT ![c] = Reserving(r, n)]
    BY DEF Choose, Eligible, Reserving
  <1> QED BY <1>1, <1>2, <1>3

\* The account: the steps that write neither a node nor a placement.
LEMMA LedgerReading ==
  ASSUME Typed, LedgerInv, NEW c \in Caller,
         \/ \E r \in Release, avoid \in SUBSET Node : Schedule(c, r, avoid)
         \/ RescheduleChoose(c)
         \/ \E r \in Release : ReleasePlacement(c, r)
         \/ \E r \in Release, failed \in Node, avoid \in SUBSET Node : Reschedule(c, r, failed, avoid)
         \/ GiveBackFails(c) \/ ReconcileScan(c) \/ CallerCrash(c)
  PROVE  LedgerInv'
  <1>1. UNCHANGED <<node, placement>>
    BY DEF Schedule, RescheduleChoose, ReleasePlacement, Reschedule, GiveBackFails, ReconcileScan,
       CallerCrash
  <1>2. ASSUME NEW r \in Release, NEW avoid \in SUBSET Node, Schedule(c, r, avoid) PROVE LedgerInv'
    BY <1>1, <1>2, LedgerChoose DEF Schedule
  <1>3. ASSUME RescheduleChoose(c) PROVE LedgerInv'
    <2>1. caller[c].release \in Release /\ caller[c].avoid \in SUBSET Node
      BY <1>3 DEF Typed, TypeOK, CallerKnows, CallerState, RescheduleChoose
    <2> QED BY <1>1, <1>3, <2>1, LedgerChoose DEF RescheduleChoose
  <1>4. ASSUME NEW r \in Release, ReleasePlacement(c, r) PROVE LedgerInv'
    BY <1>1, <1>4, LedgerRead DEF ReleasePlacement
  <1>5. ASSUME NEW r \in Release, NEW failed \in Node, NEW avoid \in SUBSET Node,
               Reschedule(c, r, failed, avoid)
        PROVE  LedgerInv'
    BY <1>1, <1>5, LedgerRead DEF Reschedule
  <1>6. ASSUME GiveBackFails(c) PROVE LedgerInv'
    <2>1. caller[c].release \in Release /\ caller[c].avoid \in SUBSET Node /\ caller[c].next \in {"idle", "choose"}
      BY <1>6 DEF GiveBackFails, Typed, TypeOK, CallerKnows, CallerState
    <2>2. PICK v : v.pc \in {"idle", "choose"} /\ v.rows = {} /\ caller' = [caller EXCEPT ![c] = v]
      BY <1>6, <2>1, ReturnFacts DEF GiveBackFails
    <2>3. v.pc # "giveBack" /\ UNCHANGED clashed
      BY <1>6, <2>2 DEF GiveBackFails
    <2> QED BY <1>1, <2>2, <2>3, LedgerLetGo
  <1>7. ASSUME ReconcileScan(c) PROVE LedgerInv'
    <2>1. PICK found \in SUBSET DOMAIN placement :
            /\ caller' = [caller EXCEPT ![c] = Reconciling(found)]
            /\ Take(c, found)
            /\ \A i \in found : placement[i].status = "placed"
      BY <1>7 DEF ReconcileScan, Reconciling
    <2>2. PICK v : v = Reconciling(found)
      OBVIOUS
    <2>3. found \in SUBSET (1 .. MaxPlacements)
      BY PlacementFacts DEF Typed
    <2>4. v.pc = "rows" /\ v.rows = found
      BY <2>2, <2>3, ReconcilingFacts
    <2>5. HoldsOf(v) = found
      BY <2>4 DEF HoldsOf
    <2>6. \A i \in HoldsOf(v) : i \in DOMAIN placement /\ placement[i].status \in Live
      BY <2>1, <2>5 DEF Live
    <2>7. Take(c, HoldsOf(v))
      BY <2>1, <2>5
    <2>8. v.pc # "giveBack"
      BY <2>4
    <2> QED BY <1>1, <2>1, <2>2, <2>6, <2>7, <2>8, LedgerByCaller
  <1>8. ASSUME CallerCrash(c) PROVE LedgerInv'
    BY <1>1, <1>8, IdleFacts, LedgerLetGo DEF CallerCrash
  <1> QED BY <1>2, <1>3, <1>4, <1>5, <1>6, <1>7, <1>8

\* Expiry sets a column that nothing here looks at.
LEMMA LeaseFacts ==
  ASSUME Typed, NEW i \in DOMAIN placement, LeaseExpires(i)
  PROVE  /\ DOMAIN placement' = DOMAIN placement /\ UNCHANGED <<node, caller, clashed>>
         /\ \A j \in DOMAIN placement : /\ placement'[j].release = placement[j].release
                                        /\ placement'[j].node = placement[j].node
                                        /\ placement'[j].status = placement[j].status
  <1>1. \A j \in DOMAIN placement : placement[j] \in PlacementRow
    BY PlacementFacts DEF Typed
  <1>2. placement' = [placement EXCEPT ![i] = [placement[i] EXCEPT !.expired = TRUE]]
    BY DEF LeaseExpires
  <1>3. placement \in [DOMAIN placement -> PlacementRow]
    BY PlacementFacts, LenProperties DEF Typed, TypeOK
  <1> QED BY <1>1, <1>2, <1>3 DEF LeaseExpires, PlacementRow

\* The account: a lease expires.
LEMMA LedgerLease ==
  ASSUME Typed, LedgerInv, NEW i \in DOMAIN placement, LeaseExpires(i)
  PROVE  LedgerInv'
  <1>1. /\ DOMAIN placement' = DOMAIN placement /\ UNCHANGED <<node, caller, clashed>>
        /\ \A j \in DOMAIN placement : /\ placement'[j].release = placement[j].release
                                       /\ placement'[j].node = placement[j].node
                                       /\ placement'[j].status = placement[j].status
    BY LeaseFacts
  <1>2. \A c \in Caller : Holds(c)' = Holds(c)
    BY <1>1 DEF Holds
  <1>3. \A n \in Node : Held(n)' \subseteq Held(n)
    BY <1>1, <1>2, HeldShrinks
  <1>4. SameReleases
    BY <1>1 DEF SameReleases
  <1>5. CallerReady'
    BY <1>1 DEF LedgerInv, CallerReady, Typed, CallerKnows
  <1>6. NeverActive' /\ Versions'
    BY <1>1 DEF LedgerInv, NeverActive, Versions
  <1>7. ASSUME ~ clashed' PROVE Apart' /\ \A n \in Node : Covered(n)'
    BY <1>1, <1>2, <1>3, <1>4, <1>7, CoveredKept DEF LedgerInv, Apart
  <1> QED BY <1>5, <1>6, <1>7 DEF LedgerInv

\* A subtraction touches one node.
LEMMA SubtractNodes ==
  ASSUME Typed, NEW i \in DOMAIN placement, Subtract(i), NEW n \in Node
  PROVE  /\ node'[n].version = node[n].version
         /\ n # placement[i].node => node'[n] = node[n]
         /\ n = placement[i].node => /\ node'[n].used = Minus(node[n].used, Weight[i])
                                     /\ node'[n].count = Minus(node[n].count, 1)
  <1>1. Weight[i] = Size[placement[i].release]
    BY DEF Weight
  <1>2. node \in [Node -> NodeRow]
    BY DEF Typed, TypeOK
  <1> QED BY <1>1, <1>2, SubtractFacts DEF SubtractFrom

\* The account: operation c gives placement i back, which it alone holds.
LEMMA LedgerSubtract ==
  ASSUME Typed, LedgerInv, NEW c \in Caller, NEW i \in DOMAIN placement, i \in Holds(c),
         DOMAIN placement' = DOMAIN placement, Subtract(i), UNCHANGED clashed,
         \A j \in DOMAIN placement :
           /\ placement'[j].node = placement[j].node
           /\ placement'[j].release = placement[j].release
           /\ placement'[j].status \in {placement[j].status, "stopped", "failed"},
         placement'[i].status \notin Live,
         NEW v, caller' = [caller EXCEPT ![c] = v],
         v.pc # "giveBack", HoldsOf(v) \subseteq Holds(c) \ {i}
  PROVE  LedgerInv'
  <1>1. /\ \A d \in Caller : caller'[d] = IF d = c THEN v ELSE caller[d]
        /\ \A d \in Caller : Holds(d)' = IF d = c THEN HoldsOf(v) ELSE Holds(d)
    BY HoldsSet
  <1>2. SameReleases
    BY DEF SameReleases
  <1>3. CallerReady'
    <2>1. \A d \in Caller : caller'[d].pc = "giveBack" =>
            caller'[d] = caller[d] /\ caller[d].row \in DOMAIN placement
      BY <1>1 DEF Typed, CallerKnows
    <2> QED BY <2>1 DEF LedgerInv, CallerReady
  <1>4. NeverActive'
    BY DEF LedgerInv, NeverActive
  <1>5. Versions'
    BY SubtractNodes DEF LedgerInv, Versions
  <1>6. ASSUME ~ clashed' PROVE Apart' /\ \A n \in Node : Covered(n)'
    <2>1. Apart /\ \A n \in Node : Covered(n)
      BY <1>6 DEF LedgerInv
    <2>2. \A d \in Caller : Holds(d)' \subseteq Holds(d) /\ i \notin Holds(d)'
      BY <1>1, <2>1 DEF Apart
    <2>3. Apart'
      BY <2>1, <2>2 DEF Apart
    <2>4. \A j \in DOMAIN placement : placement'[j].status \in Live => placement[j].status \in Live
      BY DEF Live
    <2>5. ASSUME NEW n \in Node PROVE Covered(n)'
      <3>1. Held(n)' \subseteq Held(n)
        BY <2>2, <2>4, HeldShrinks
      <3>2. i \notin Held(n)'
        BY <2>2 DEF Held, LiveOn
      <3>3. CASE n = placement[i].node
        <4>1. i \in Held(n)
          BY <3>3 DEF Held
        <4> QED BY <1>2, <2>1, <3>1, <3>2, <3>3, <4>1, SubtractNodes, CoveredSubtract
      <3>4. CASE n # placement[i].node
        BY <1>2, <2>1, <3>1, <3>4, SubtractNodes, CoveredKept
      <3> QED BY <3>3, <3>4
    <2> QED BY <2>3, <2>5
  <1> QED BY <1>3, <1>4, <1>5, <1>6 DEF LedgerInv

\* What StopAll writes.
LEMMA StopAllFacts ==
  ASSUME Typed, NEW r, StopAll(r)
  PROVE  /\ DOMAIN placement' = DOMAIN placement
         /\ \A j \in DOMAIN placement :
              /\ placement'[j].node = placement[j].node /\ placement'[j].release = placement[j].release
              /\ placement'[j].status = IF placement[j].release = r THEN "stopped" ELSE placement[j].status
  BY PlacementFacts DEF StopAll, PlacementRow, Typed

\* What FailPlaced writes.
LEMMA FailPlacedFacts ==
  ASSUME Typed, NEW i \in DOMAIN placement, FailPlaced(i)
  PROVE  /\ DOMAIN placement' = DOMAIN placement
         /\ \A j \in DOMAIN placement :
              /\ placement'[j].node = placement[j].node /\ placement'[j].release = placement[j].release
              /\ placement'[j].status =
                   IF placement[j].release = placement[i].release /\ placement[j].status = "placed"
                   THEN "failed" ELSE placement[j].status
  BY PlacementFacts DEF FailPlaced, PlacementRow, Typed

\* The account: release_placement gives a placement back.
LEMMA LedgerGiveBack ==
  ASSUME Typed, LedgerInv, NEW c \in Caller, GiveBack(c)
  PROVE  LedgerInv'
  <1>1. PICK r \in Release, i \in DOMAIN placement : r = caller[c].release /\ i = caller[c].row
    BY DEF GiveBack, Typed, CallerKnows
  <1>2. PICK avoid \in SUBSET Node, next \in {"idle", "choose"} : avoid = caller[c].avoid /\ next = caller[c].next
    BY DEF Typed, TypeOK, CallerState
  <1>3. Return(c, r, avoid, next) /\ Subtract(i) /\ StopAll(r) /\ caller[c].pc = "giveBack" /\ UNCHANGED clashed
    BY <1>1, <1>2 DEF GiveBack
  <1>4. PICK v : v.pc = next /\ v.rows = {} /\ caller' = [caller EXCEPT ![c] = v]
    BY <1>3, ReturnFacts
  <1>5. v.pc # "giveBack" /\ HoldsOf(v) = {}
    BY <1>4 DEF HoldsOf
  <1>6. placement[i].release = r /\ i \in Holds(c)
    BY <1>1, <1>3 DEF LedgerInv, CallerReady, Holds
  <1>7. /\ DOMAIN placement' = DOMAIN placement
        /\ \A j \in DOMAIN placement :
              /\ placement'[j].node = placement[j].node /\ placement'[j].release = placement[j].release
              /\ placement'[j].status = IF placement[j].release = r THEN "stopped" ELSE placement[j].status
    BY <1>3, StopAllFacts
  <1>8. /\ placement'[i].status \notin Live
        /\ \A j \in DOMAIN placement : placement'[j].status \in {placement[j].status, "stopped", "failed"}
    BY <1>6, <1>7 DEF Live
  <1> QED BY <1>3, <1>4, <1>5, <1>6, <1>7, <1>8, LedgerSubtract

\* The account: an expired row is reconciled.
LEMMA LedgerReconcile ==
  ASSUME Typed, LedgerInv, NEW c \in Caller, NEW i \in caller[c].rows, ReconcileRow(c, i)
  PROVE  LedgerInv'
  <1>1. i \in DOMAIN placement
    BY DEF Typed, CallerKnows
  <1>2. PICK v : v = IF caller[c].rows = {i} THEN IdleCaller ELSE [caller[c] EXCEPT !.rows = @ \ {i}]
    OBVIOUS
  <1>3. /\ caller' = [caller EXCEPT ![c] = v] /\ caller[c].pc = "rows" /\ Subtract(i)
        /\ FailPlaced(i) /\ UNCHANGED clashed
    BY <1>2 DEF ReconcileRow
  <1>4. v.rows = caller[c].rows \ {i} /\ v.pc \in {"idle", "rows"}
    BY <1>2, <1>3, RowsLeft
  <1>5. i \in Holds(c) /\ v.pc # "giveBack" /\ HoldsOf(v) \subseteq Holds(c) \ {i}
    BY <1>3, <1>4 DEF Holds, HoldsOf
  <1>6. /\ DOMAIN placement' = DOMAIN placement
        /\ \A j \in DOMAIN placement :
              /\ placement'[j].node = placement[j].node /\ placement'[j].release = placement[j].release
              /\ placement'[j].status =
                   IF placement[j].release = placement[i].release /\ placement[j].status = "placed"
                   THEN "failed" ELSE placement[j].status
    BY <1>1, <1>3, FailPlacedFacts
  <1>7. /\ placement'[i].status \notin Live
        /\ \A j \in DOMAIN placement : placement'[j].status \in {placement[j].status, "stopped", "failed"}
    BY <1>1, <1>6 DEF Live, LedgerInv, NeverActive
  <1> QED BY <1>1, <1>3, <1>5, <1>6, <1>7, LedgerSubtract

\* What a reservation changes for node n, which gets placement k + 1.
ReserveKeeps(r, n, k, v) ==
  /\ SameReleases /\ k + 1 \notin DOMAIN placement
  /\ DOMAIN placement' = DOMAIN placement \cup {k + 1}
  /\ \A i \in DOMAIN placement : placement'[i] = placement[i]
  /\ placement'[k + 1].release = r /\ placement'[k + 1].node = n
  /\ placement'[k + 1].status = "placed"
  /\ \A d \in Caller : Holds(d)' \subseteq Holds(d)
  /\ \A d \in Caller : caller'[d].pc = "giveBack" => caller'[d] = caller[d]
  /\ \A m \in Node : Held(m)' \subseteq (IF m = n THEN Held(m) \cup {k + 1} ELSE Held(m))
  /\ Weight'[k + 1] = Size[r] /\ Size[r] \in Nat
  /\ \A m \in Node : m # n => node'[m] = node[m]
  /\ node'[n] = v

\* A reservation adds one placement and leaves the others alone.
LEMMA ReserveHeld ==
  ASSUME Typed, NEW c \in Caller, NEW r \in Release, NEW n \in Node, NEW k \in Nat,
         NEW v \in NodeRow, ReserveWrites(c, r, n, k, v)
  PROVE  ReserveKeeps(r, n, k, v)
  <1>1. \A i \in DOMAIN placement : i \in DOMAIN placement' /\ placement'[i] = placement[i]
    BY DEF ReserveWrites
  <1>2. k + 1 \notin DOMAIN placement /\ k + 1 \in DOMAIN placement'
        /\ DOMAIN placement' = DOMAIN placement \cup {k + 1}
    BY DEF ReserveWrites
  <1>3. /\ placement'[k + 1].release = r /\ placement'[k + 1].node = n
        /\ placement'[k + 1].status = "placed"
    BY DEF ReserveWrites
  <1>4. SameReleases
    BY <1>1 DEF SameReleases
  <1>5. caller' = [caller EXCEPT ![c] = IdleCaller]
    BY DEF ReserveWrites
  <1>6. HoldsOf(IdleCaller) = {} /\ IdleCaller.pc # "giveBack"
    BY IdleFacts DEF HoldsOf
  <1>7. /\ \A d \in Caller : Holds(d)' \subseteq Holds(d)
        /\ \A d \in Caller : caller'[d].pc = "giveBack" => caller'[d] = caller[d]
    <2>1. PICK w : w = IdleCaller /\ HoldsOf(w) = {} /\ w.pc # "giveBack"
      BY <1>6
    <2>2. /\ \A d \in Caller : caller'[d] = IF d = c THEN w ELSE caller[d]
          /\ \A d \in Caller : Holds(d)' = IF d = c THEN HoldsOf(w) ELSE Holds(d)
      <3>1. caller' = [caller EXCEPT ![c] = w]
        BY <1>5, <2>1
      <3> HIDE DEF HoldsOf
      <3> QED BY <3>1, HoldsSet, Zenon
    <2> QED BY <2>1, <2>2
  <1>8. ASSUME NEW m \in Node, NEW i \in Held(m)'
        PROVE  i \in Held(m) \/ (m = n /\ i = k + 1)
    <2>1. i \in DOMAIN placement' /\ placement'[i].node = m
      BY DEF Held, LiveOn
    <2>2. CASE i = k + 1
      BY <1>3, <2>1, <2>2
    <2>3. CASE i \in DOMAIN placement
      <3>1. placement[i].node = m
        BY <1>1, <2>1, <2>3
      <3>2. CASE placement[i].status \in Live
        BY <2>3, <3>1, <3>2 DEF Held, LiveOn
      <3>3. CASE placement[i].status \notin Live
        <4>1. PICK d \in Caller : i \in Holds(d)'
          BY <1>1, <2>3, <3>3 DEF Held, LiveOn
        <4> QED BY <1>7, <2>3, <3>1, <4>1 DEF Held
      <3> QED BY <3>2, <3>3
    <2> QED BY <1>2, <2>1, <2>2, <2>3
  <1>9. Weight'[k + 1] = Size[r] /\ Size[r] \in Nat
    BY <1>2, <1>3, NodeSchedulerAssumption DEF Weight
  <1>10. (\A m \in Node : m # n => node'[m] = node[m]) /\ node'[n] = v
    BY DEF ReserveWrites, Typed, TypeOK
  <1>11. \A m \in Node : Held(m)' \subseteq (IF m = n THEN Held(m) \cup {k + 1} ELSE Held(m))
    BY <1>8
  <1> QED BY <1>1, <1>2, <1>3, <1>4, <1>7, <1>9, <1>10, <1>11 DEF ReserveKeeps

\* The account: a reservation.
LEMMA LedgerReserve ==
  ASSUME Typed, LedgerInv, NEW c \in Caller, Reserve(c)
  PROVE  LedgerInv'
  <1>1. PICK r \in Release, n \in Node, k \in Nat, v \in NodeRow : ReserveWrites(c, r, n, k, v)
    BY ReserveFacts
  <1>2. /\ SameReleases /\ k + 1 \notin DOMAIN placement
        /\ DOMAIN placement' = DOMAIN placement \cup {k + 1}
        /\ \A i \in DOMAIN placement : placement'[i] = placement[i]
        /\ placement'[k + 1].status = "placed"
        /\ \A d \in Caller : Holds(d)' \subseteq Holds(d)
        /\ \A d \in Caller : caller'[d].pc = "giveBack" => caller'[d] = caller[d]
        /\ \A m \in Node : Held(m)' \subseteq (IF m = n THEN Held(m) \cup {k + 1} ELSE Held(m))
        /\ Weight'[k + 1] = Size[r] /\ Size[r] \in Nat
        /\ \A m \in Node : m # n => node'[m] = node[m]
        /\ node'[n] = v
    <2>1. ReserveKeeps(r, n, k, v)
      BY <1>1, ReserveHeld
    <2> QED BY <2>1 DEF ReserveKeeps
  <1>3. /\ v.used = node[n].used + Size[r] /\ v.count = node[n].count + 1 /\ v.version = node[n].version
        /\ UNCHANGED clashed
    BY <1>1 DEF ReserveWrites
  <1>4. CallerReady'
    <2>1. \A d \in Caller : caller'[d].pc = "giveBack" =>
            caller'[d] = caller[d] /\ caller[d].row \in DOMAIN placement
      BY <1>2 DEF Typed, CallerKnows
    <2> QED BY <1>2, <2>1 DEF LedgerInv, CallerReady
  <1>5. NeverActive'
    BY <1>2 DEF LedgerInv, NeverActive
  <1>6. Versions'
    BY <1>2, <1>3 DEF LedgerInv, Versions
  <1>7. ASSUME ~ clashed' PROVE Apart' /\ \A m \in Node : Covered(m)'
    <2>1. Apart /\ \A m \in Node : Covered(m)
      BY <1>3, <1>7 DEF LedgerInv
    <2>2. Apart'
      BY <1>2, <2>1 DEF Apart
    <2>3. ASSUME NEW m \in Node PROVE Covered(m)'
      <3>1. CASE m = n
        <4>1. k + 1 \notin Held(m)
          BY <1>2, HeldFacts
        <4>2. Held(m)' \subseteq Held(m) \cup {k + 1}
          BY <1>2, <3>1
        <4> QED BY <1>2, <1>3, <2>1, <3>1, <4>1, <4>2, CoveredReserve
      <3>2. CASE m # n
        <4>1. Held(m)' \subseteq Held(m) /\ node'[m] = node[m]
          BY <1>2, <3>2
        <4> QED BY <1>2, <2>1, <4>1, CoveredKept
      <3> QED BY <3>1, <3>2
    <2> QED BY <2>2, <2>3
  <1> QED BY <1>4, <1>5, <1>6, <1>7 DEF LedgerInv

\* The registry moves no placement; it leaves the account of a node alone or
\* overwrites it and raises the version.
LEMMA RegistryFacts ==
  ASSUME Typed, RegistryStep
  PROVE  /\ UNCHANGED <<placement, caller, clashed>>
         /\ \A n \in Node :
              \/ /\ node'[n].used = node[n].used /\ node'[n].count = node[n].count
                 /\ node'[n].version = node[n].version
              \/ node'[n].version = node[n].version + 1
  <1> DEFINE Fine == \A n \in Node :
              \/ /\ node'[n].used = node[n].used /\ node'[n].count = node[n].count
                 /\ node'[n].version = node[n].version
              \/ node'[n].version = node[n].version + 1
  <1>1. UNCHANGED <<placement, caller, clashed>>
    BY DEF RegistryStep, RegisterNode, RotateNodeIdentity, Silence, SendHeartbeat, SetDrain, SetEnabled,
       HeartbeatWrite, HeartbeatRead, EvaluateScan, EvaluateRow, EvaluateFails
  <1>2. node \in [Node -> NodeRow]
    BY DEF Typed, TypeOK
  <1>3. UNCHANGED node => Fine
    OBVIOUS
  <1>4. ASSUME NEW m \in Node, NEW v, node' = [node EXCEPT ![m] = v],
               \/ /\ v.used = node[m].used /\ v.count = node[m].count
                  /\ v.version = node[m].version
               \/ v.version = node[m].version + 1
        PROVE  Fine
    BY <1>2, <1>4
  <1>5. ASSUME NEW m \in Node, NEW total \in Totals, NEW slots \in Slots
        PROVE  RegisterNode(m, total, slots) => Fine
    <2>1. PICK row \in NodeRow : row = node[m]
      BY <1>2
    <2>2. PICK v : v = Online(row, total, slots)
      OBVIOUS
    <2>3. v.used = row.used /\ v.count = row.count /\ v.version = row.version
      BY <2>2, OnlineRow
    <2>4. RegisterNode(m, total, slots) => node' = [node EXCEPT ![m] = v]
      BY <2>1, <2>2 DEF RegisterNode
    <2> QED BY <1>4, <2>1, <2>3, <2>4
  <1>6. ASSUME NEW m \in Node, NEW b \in BOOLEAN PROVE SetDrain(m, b) => Fine
    <2>1. PICK row \in NodeRow : row = node[m]
      BY <1>2
    <2>2. PICK v : v = Drained(row, b)
      OBVIOUS
    <2>3. v.used = row.used /\ v.count = row.count /\ v.version = row.version
      BY <2>2, DrainedRow
    <2>4. SetDrain(m, b) => node' = [node EXCEPT ![m] = v]
      BY <2>1, <2>2 DEF SetDrain
    <2> QED BY <1>4, <2>1, <2>3, <2>4
  <1>7. ASSUME NEW m \in Node, NEW b \in BOOLEAN PROVE SetEnabled(m, b) => Fine
    BY <1>2 DEF SetEnabled, NodeRow
  <1>8. ASSUME NEW m \in Node PROVE RotateNodeIdentity(m) \/ Silence(m) => Fine
    BY <1>2 DEF RotateNodeIdentity, Silence, NodeRow
  <1>9. ASSUME NEW h \in Handler PROVE HeartbeatWrite(h) => Fine
    <2> SUFFICES ASSUME HeartbeatWrite(h) PROVE Fine
      OBVIOUS
    <2>1. PICK m \in Node :
            /\ node' = [node EXCEPT ![m] = Beaten(node[m], h)] \/ UNCHANGED node
            /\ Beaten(node[m], h).version = node[m].version + 1
      BY HeartbeatWriteFacts
    <2> QED BY <1>3, <1>4, <2>1
  <1>10. ASSUME NEW row \in silent PROVE EvaluateRow(row) => Fine
    <2>1. row.id \in Node
      BY DEF Typed, TypeOK
    <2> QED BY <1>2, <2>1 DEF EvaluateRow, NodeRow
  <1>11. Fine
    <2> HIDE DEF Fine
    <2> QED BY <1>3, <1>5, <1>6, <1>7, <1>8, <1>9, <1>10
         DEF RegistryStep, SendHeartbeat, HeartbeatRead, EvaluateScan, EvaluateFails
  <1> QED BY <1>1, <1>11

\* The account: the registry changes it only together with the version.
LEMMA LedgerRegistry ==
  ASSUME Typed, LedgerInv, RegistryStep
  PROVE  LedgerInv'
  <1>1. /\ UNCHANGED <<placement, caller, clashed>>
        /\ \A n \in Node :
              \/ /\ node'[n].used = node[n].used /\ node'[n].count = node[n].count
                 /\ node'[n].version = node[n].version
              \/ node'[n].version = node[n].version + 1
    BY RegistryFacts
  <1>2. \A c \in Caller : Holds(c)' = Holds(c)
    BY <1>1 DEF Holds
  <1>3. \A n \in Node : Held(n)' \subseteq Held(n)
    BY <1>1, <1>2, HeldShrinks
  <1>4. SameReleases
    BY <1>1 DEF SameReleases
  <1>5. \A n \in Node : node[n].version \in Nat /\ node[n].version >= 1
    BY HeldFacts DEF LedgerInv, Versions
  <1>6. \A n \in Node : node'[n].version = 1 =>
          /\ node'[n].used = node[n].used /\ node'[n].count = node[n].count /\ node[n].version = 1
    BY <1>1, <1>5
  <1>7. ASSUME ~ clashed' PROVE Apart' /\ \A n \in Node : Covered(n)'
    <2>1. Apart /\ \A n \in Node : Covered(n)
      BY <1>1, <1>7 DEF LedgerInv
    <2>2. ASSUME NEW n \in Node PROVE Covered(n)'
      <3>1. CASE node'[n].version = 1
        BY <1>3, <1>4, <1>6, <2>1, <3>1, CoveredKept
      <3>2. CASE node'[n].version # 1
        BY <3>2 DEF Covered
      <3> QED BY <3>1, <3>2
    <2>3. Apart'
      BY <1>2, <2>1 DEF Apart
    <2> QED BY <2>2, <2>3
  <1>8. CallerReady' /\ NeverActive'
    BY <1>1 DEF LedgerInv, CallerReady, NeverActive
  <1>9. Versions'
    BY <1>1, <1>5 DEF Versions
  <1> QED BY <1>7, <1>8, <1>9 DEF LedgerInv

\* Every step keeps the account above what is held.
LEMMA LedgerStep ==
  ASSUME Typed, LedgerInv, Next
  PROVE  LedgerInv'
  BY StepCases, LedgerReading, LedgerGiveBack, LedgerReconcile, LedgerReserve, LedgerLease,
     LedgerRegistry

\* A stuttering step keeps it.
LEMMA LedgerStutter ==
  ASSUME LedgerInv, UNCHANGED vars
  PROVE  LedgerInv'
  BY DEF LedgerInv, CallerReady, NeverActive, Versions, Apart, Covered, Held, Holds, LiveOn, Weight,
     vars

\* At the start nothing is held.
LEMMA LedgerInit ==
  ASSUME Init
  PROVE  LedgerInv
  <1>1. placement = <<>> /\ DOMAIN placement = {}
    BY DEF Init
  <1>2. \A c \in Caller : caller[c] = IdleCaller
    BY DEF Init
  <1>3. CallerReady /\ NeverActive
    BY <1>1, <1>2, IdleFacts DEF CallerReady, NeverActive
  <1>4. \A n \in Node : node[n].version = 1 /\ node[n].used = 0 /\ node[n].count = 0
    BY DEF Init
  <1>5. Apart
    BY <1>2, IdleFacts DEF Apart, Holds
  <1>6. ASSUME NEW n \in Node PROVE Covered(n)
    <2>1. Held(n) = {}
      BY <1>1 DEF Held, LiveOn
    <2>2. Cells(Weight, Held(n)) = {}
      BY <2>1 DEF Cells
    <2>3. Cardinality(Cells(Weight, Held(n))) = 0 /\ Cardinality(Held(n)) = 0
      BY <2>1, <2>2, FS_EmptySet
    <2> QED BY <1>4, <2>3 DEF Covered
  <1>7. Versions
    BY <1>4 DEF Versions
  <1> QED BY <1>3, <1>5, <1>6, <1>7 DEF LedgerInv

\* The types and the account together.
LEMMA LedgerHolds == Spec => [](Typed /\ LedgerInv)
  <1>1. Typed /\ LedgerInv /\ [Next]_vars => LedgerInv'
    BY LedgerStep, LedgerStutter
  <1> QED BY <1>1, LedgerInit, TypesHold, PTL DEF Spec

\* The load of a node in cells.
LEMMA LoadCells ==
  ASSUME NEW n \in Node
  PROVE  Load(n) = Cardinality(Cells(Weight, LiveOn(n)))
  <1>1. \A i \in LiveOn(n) : Weight[i] = Size[placement[i].release]
    BY DEF Weight, LiveOn
  <1> QED BY <1>1 DEF Load, Units, Cells

\* LedgerCovers: however operations interleave, repeat and stop half way, what a
\* node is said to use covers its live placements until a heartbeat overwrites
\* it, unless two operations have read the same placement before either wrote it.
THEOREM LedgerAlwaysCovers == Spec => []LedgerCovers
  <1>1. ASSUME Typed, LedgerInv PROVE LedgerCovers
    <2>1. SUFFICES ASSUME ~ clashed, NEW n \in Node, node[n].version = 1
                   PROVE  Load(n) <= node[n].used /\ Cardinality(LiveOn(n)) <= node[n].count
      BY DEF LedgerCovers
    <2> DEFINE S == Held(n)
               T == LiveOn(n)
    <2>2. S \subseteq DOMAIN placement /\ T \subseteq S /\ IsFiniteSet(S) /\ \A i \in S : Weight[i] \in Nat
      BY <1>1, HeldFacts
    <2>3. Cardinality(Cells(Weight, S)) <= node[n].used /\ Cardinality(S) <= node[n].count
      BY <1>1, <2>1 DEF LedgerInv, Covered
    <2>4. node[n].used \in Nat /\ node[n].count \in Nat /\ Cardinality(S) \in Nat
          /\ Cardinality(Cells(Weight, S)) \in Nat
      BY <1>1, HeldFacts
    <2>5. Load(n) = Cardinality(Cells(Weight, T)) /\ Load(n) \in Nat /\ Cardinality(T) \in Nat
      BY <1>1, LoadCells, LoadType DEF Typed
    <2> HIDE DEF S, T
    <2>6. Cardinality(T) <= Cardinality(S) /\ Cardinality(Cells(Weight, T)) <= Cardinality(Cells(Weight, S))
      BY <2>2, FS_Subset, CellsSubset
    <2>7. Load(n) <= node[n].used /\ Cardinality(T) <= node[n].count
      BY <2>3, <2>4, <2>5, <2>6
    <2> QED BY <2>7 DEF T
  <1> QED BY <1>1, LedgerHolds, PTL

---------------------------------------------------------------------------
(* The newest placement                                                    *)

\* A step that rewrites no placement.
LEMMA NewestKept ==
  ASSUME Typed, NewestDecides, DOMAIN placement' = DOMAIN placement,
         \A j \in DOMAIN placement : /\ placement'[j].release = placement[j].release
                                     /\ placement'[j].status = placement[j].status
  PROVE  NewestDecides'
  BY DEF NewestDecides, Newest

\* A step that ends every live placement of release r and no other.
LEMMA NewestEnd ==
  ASSUME Typed, NewestDecides, NEW r, DOMAIN placement' = DOMAIN placement,
         \A j \in DOMAIN placement :
           /\ placement'[j].release = placement[j].release
           /\ placement[j].release = r => placement'[j].status \notin Live
           /\ placement[j].release # r => placement'[j].status = placement[j].status
  PROVE  NewestDecides'
  <1> SUFFICES ASSUME NEW i \in DOMAIN placement, NEW j \in DOMAIN placement,
                      Newest(j, placement[i].release)', placement'[j].status \notin Live
               PROVE  placement'[i].status \notin Live
    BY DEF NewestDecides
  <1>1. Newest(j, placement[i].release)
    BY DEF Newest
  <1>2. CASE placement[i].release = r
    BY <1>2
  <1>3. CASE placement[i].release # r
    <2>1. placement[j].release # r
      BY <1>1, <1>3 DEF Newest
    <2> QED BY <1>1, <1>3, <2>1 DEF NewestDecides
  <1> QED BY <1>2, <1>3

\* A reservation makes a live placement the newest of its release.
LEMMA NewestReserve ==
  ASSUME Typed, NewestDecides, NEW c \in Caller, Reserve(c)
  PROVE  NewestDecides'
  <1>1. PICK r \in Release, n \in Node, k \in Nat, v \in NodeRow : ReserveWrites(c, r, n, k, v)
    BY ReserveFacts
  <1>2. /\ k + 1 \notin DOMAIN placement
        /\ DOMAIN placement' = DOMAIN placement \cup {k + 1}
        /\ \A i \in DOMAIN placement : placement'[i] = placement[i]
        /\ placement'[k + 1].release = r /\ placement'[k + 1].status = "placed"
    <2>1. ReserveKeeps(r, n, k, v)
      BY <1>1, ReserveHeld
    <2> QED BY <2>1 DEF ReserveKeeps
  <1>3. DOMAIN placement = 1 .. k
    BY <1>1 DEF ReserveWrites
  <1> SUFFICES ASSUME NEW i \in DOMAIN placement', NEW j \in DOMAIN placement',
                      Newest(j, placement[i].release)', placement'[j].status \notin Live
               PROVE  placement'[i].status \notin Live
    BY DEF NewestDecides
  <1>4. j \in DOMAIN placement
    BY <1>2 DEF Live
  <1>5. i \in DOMAIN placement
    <2>1. i # k + 1
      BY <1>2, <1>3, <1>4 DEF Newest
    <2> QED BY <1>2, <2>1
  <1>6. Newest(j, placement[i].release)
    BY <1>2, <1>4, <1>5 DEF Newest
  <1> QED BY <1>2, <1>4, <1>5, <1>6 DEF NewestDecides

\* Every step keeps the newest placement decisive.
LEMMA NewestStep ==
  ASSUME Typed, LedgerInv, NewestDecides, Next
  PROVE  NewestDecides'
  <1>1. UNCHANGED placement => NewestDecides'
    BY DEF NewestDecides, Newest
  <1>2. ASSUME NEW c \in Caller, GiveBack(c) PROVE NewestDecides'
    <2>1. StopAll(caller[c].release)
      BY <1>2 DEF GiveBack
    <2>2. PICK r : r = caller[c].release
      OBVIOUS
    <2>3. /\ DOMAIN placement' = DOMAIN placement
          /\ \A j \in DOMAIN placement :
              /\ placement'[j].release = placement[j].release
              /\ placement'[j].status = IF placement[j].release = r THEN "stopped" ELSE placement[j].status
      BY <2>1, <2>2, StopAllFacts
    <2>4. \A j \in DOMAIN placement :
           /\ placement'[j].release = placement[j].release
           /\ placement[j].release = r => placement'[j].status \notin Live
           /\ placement[j].release # r => placement'[j].status = placement[j].status
      BY <2>3 DEF Live
    <2> QED BY <2>3, <2>4, NewestEnd
  <1>3. ASSUME NEW c \in Caller, NEW i \in caller[c].rows, ReconcileRow(c, i) PROVE NewestDecides'
    <2>1. i \in DOMAIN placement /\ FailPlaced(i)
      BY <1>3 DEF ReconcileRow, Typed, CallerKnows
    <2>2. PICK r : r = placement[i].release
      OBVIOUS
    <2>3. /\ DOMAIN placement' = DOMAIN placement
          /\ \A j \in DOMAIN placement :
              /\ placement'[j].release = placement[j].release
              /\ placement'[j].status =
                   IF placement[j].release = r /\ placement[j].status = "placed"
                   THEN "failed" ELSE placement[j].status
      BY <2>1, <2>2, FailPlacedFacts
    <2>4. \A j \in DOMAIN placement :
           /\ placement'[j].release = placement[j].release
           /\ placement[j].release = r => placement'[j].status \notin Live
           /\ placement[j].release # r => placement'[j].status = placement[j].status
      BY <2>3 DEF Live, LedgerInv, NeverActive
    <2> QED BY <2>3, <2>4, NewestEnd
  <1>4. ASSUME NEW i \in DOMAIN placement, LeaseExpires(i) PROVE NewestDecides'
    BY <1>4, LeaseFacts, NewestKept
  <1>5. RegistryStep => UNCHANGED placement
    BY RegistryFacts
  <1> QED BY <1>1, <1>2, <1>3, <1>4, <1>5, StepCases, NewestReserve
       DEF Schedule, ReleasePlacement, Reschedule, GiveBackFails, RescheduleChoose, ReconcileScan,
           CallerCrash

\* NewestDecides: release_placement may go by the newest placement alone,
\* however often a release was placed and whichever of its leases expired.
THEOREM NewestAlwaysDecides == Spec => []NewestDecides
  <1>1. Init => NewestDecides
    BY DEF Init, NewestDecides
  <1>2. UNCHANGED vars /\ NewestDecides => NewestDecides'
    BY DEF NewestDecides, Newest, vars
  <1>3. Typed /\ LedgerInv /\ NewestDecides /\ [Next]_vars => NewestDecides'
    BY <1>2, NewestStep
  <1> QED BY <1>1, <1>3, LedgerHolds, PTL DEF Spec
=============================================================================
