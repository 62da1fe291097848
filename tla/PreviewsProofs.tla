--------------------------- MODULE PreviewsProofs ---------------------------
(***************************************************************************)
(* Proofs about Previews, for any number of deliveries, commits and        *)
(* operations under way: types, that a delivery makes one deployment at    *)
(* most, that a preview's build was queued, that an event does not replace *)
(* one received after it, and that operations which do not overlap leave   *)
(* the status of the preview that of its deployment.                       *)
(***************************************************************************)
EXTENDS Previews, FiniteSetTheorems, TLAPS

---------------------------------------------------------------------------
(* What an operation knows at each of its points                           *)

Pcs == {"idle", "record", "store", "push", "pushEnqueue", "find", "close",
        "closeCancel", "insert", "enqueue", "upsert", "ready", "failure", "failed",
        "stopCancel", "stopDeployment", "stopClose", "promoteImage",
        "promoteInsert", "promoteEnqueue"}

\* An operation that carries a delivery it has recorded.
Carrying == {"store", "push", "pushEnqueue", "find", "close", "closeCancel", "insert",
             "enqueue", "upsert"}

\* One that has found the preview, and one that has a deployment.
WithPreview == {"close", "closeCancel", "ready", "failure", "failed", "stopCancel",
                "stopDeployment", "stopClose", "promoteImage", "promoteInsert"}

WithDeployment == {"pushEnqueue", "enqueue", "upsert", "ready", "failure", "failed",
                   "stopCancel", "stopDeployment", "stopClose", "promoteImage",
                   "promoteEnqueue"}

\* Deployment i has its job, where there is a queue.
Queued(i) == HasQueue => i \in DOMAIN job

Knows(l) ==
  /\ l \in Local
  /\ l.pc = "record" => l.delivery \in received
  /\ l.pc \in Carrying => l.delivery \in delivery
  /\ l.pc \in WithPreview => preview # NoPreview
  /\ l.pc \in WithDeployment => l.deployment \in DOMAIN deployment
  /\ l.pc \in {"upsert", "ready"} => Queued(l.deployment)
  /\ l.pc \in {"enqueue", "upsert", "ready"} => l.deployment[1] \in Delivery
  /\ l.pc \in {"promoteImage", "promoteInsert"} => l.sha \in Commit

\* A preview's deployment has a job and was made for a delivery.
Sources ==
  preview # NoPreview => Queued(preview.deployment) /\ preview.deployment[1] \in Delivery

\* The type invariant with what makes it inductive.
Typed == TypeOK /\ Sources /\ \A a \in Actor : Knows(actor[a])

\* Its parts.
CountsType ==
  /\ clock \in Nat /\ repeats \in Nat /\ requests \in Nat /\ results \in Nat
  /\ failures \in Nat /\ overlaps \in Nat /\ applied \in Nat /\ current \subseteq Actor

DeliveriesType == received \subseteq Delivery /\ delivery \subseteq received /\ event \subseteq delivery

PreviewType ==
  \/ preview = NoPreview
  \/ preview \in [status : PreviewStatus, head : Commit,
                  deployment : DOMAIN deployment, updatedAt : Nat]

DeploymentRow ==
  [status : {"queued", "running", "failed", "stopped"}, commit : Commit,
   image : Commit \cup {None}]

DeploymentType == \A i \in DOMAIN deployment : deployment[i] \in DeploymentRow

JobType ==
  /\ DOMAIN job \subseteq DOMAIN deployment
  /\ \A i \in DOMAIN job : job[i] \in {"queued", "built", "cancelled"}

RowsType == CountsType /\ DeliveriesType /\ PreviewType /\ DeploymentType /\ JobType

\* The type invariant is the conjunction of its parts.
LEMMA TypeParts == TypeOK <=> RowsType /\ actor \in [Actor -> Local]
  BY DEF TypeOK, RowsType, CountsType, DeliveriesType, PreviewType, DeploymentType, DeploymentRow,
     JobType

\* No row of a table is deleted.
Grows ==
  /\ received \subseteq received' /\ delivery \subseteq delivery'
  /\ preview # NoPreview => preview' # NoPreview
  /\ DOMAIN deployment \subseteq DOMAIN deployment'
  /\ DOMAIN job \subseteq DOMAIN job'

\* What was well typed stays so when rows are added.
LEMMA LocalGrows ==
  ASSUME Grows, NEW l \in Local
  PROVE  l \in Local'
  BY DEF Grows, Local

\* What an operation knows stays true.
LEMMA KnowsGrows ==
  ASSUME Grows, NEW l, Knows(l)
  PROVE  Knows(l)'
  <1>1. l \in Local'
    BY LocalGrows DEF Knows
  <1> QED BY <1>1 DEF Knows, Grows, Queued

\* A step of operation a that leaves it with v.
LEMMA StepTyped ==
  ASSUME Typed, Grows, NEW a \in Actor, NEW v, Become(a, v), RowsType', Sources', Knows(v)'
  PROVE  Typed'
  <1>1. actor \in [Actor -> Local] /\ RowsType
    BY TypeParts DEF Typed
  <1>2. actor' = [actor EXCEPT ![a] = v]
    BY DEF Become
  <1>3. \A b \in Actor : Knows(actor[b])'
    <2> SUFFICES ASSUME NEW b \in Actor PROVE Knows(actor[b])'
      OBVIOUS
    <2>1. CASE b = a
      <3>1. actor'[b] = v
        BY <1>1, <1>2, <2>1
      <3> QED BY <3>1 DEF Knows
    <2>2. CASE b # a
      <3>1. PICK l : l = actor[b]
        OBVIOUS
      <3>2. actor'[b] = l
        BY <1>1, <1>2, <2>2, <3>1
      <3>3. Knows(l)
        BY <3>1 DEF Typed
      <3>4. Knows(l)'
        BY <1>1, <3>3, KnowsGrows DEF RowsType
      <3> QED BY <3>2, <3>4 DEF Knows
    <2> QED BY <2>1, <2>2
  <1>4. \A b \in Actor : actor'[b] \in Local'
    BY <1>3 DEF Knows
  <1>5. actor' \in [Actor -> Local']
    BY <1>1, <1>2, <1>4
  <1>6. TypeOK'
    BY <1>5 DEF TypeOK, RowsType, CountsType, DeliveriesType, PreviewType, DeploymentType,
       DeploymentRow, JobType
  <1> QED BY <1>3, <1>6 DEF Typed

---------------------------------------------------------------------------
(* The local variables that the steps leave                                *)

\* An operation that has ended.
LEMMA IdleIs == Idle \in Local /\ Idle.pc = "idle" /\ Idle.at = 0
  BY DEF Idle, Local

\* It knows nothing.
LEMMA IdleKnows ==
  ASSUME CountsType'
  PROVE  Knows(Idle)'
  <1>1. Idle \in Local'
    BY DEF Idle, Local
  <1> QED BY <1>1, IdleIs DEF Knows, Carrying, WithPreview, WithDeployment, CountsType

\* The fields of l but for the point the operation is at.
SameBut(v, l) ==
  /\ v.delivery = l.delivery /\ v.at = l.at /\ v.deployment = l.deployment
  /\ v.sha = l.sha /\ v.image = l.image

\* Goto changes the point alone.
LEMMA GotoFacts ==
  ASSUME Typed, NEW a \in Actor, NEW pc \in Pcs, Goto(a, pc)
  PROVE  \E v \in Local : Become(a, v) /\ v.pc = pc /\ SameBut(v, actor[a])
  <1>1. PICK l \in Local : l = actor[a]
    BY DEF Typed, TypeOK
  <1>2. PICK v : v = [l EXCEPT !.pc = pc]
    OBVIOUS
  <1>3. v \in Local
    BY <1>2, Zenon DEF Local, Pcs
  <1>4. v.pc = pc /\ SameBut(v, l)
    BY <1>2 DEF Local, SameBut
  <1> QED BY <1>1, <1>2, <1>3, <1>4 DEF Goto

\* The local variables of an operation are well typed, and it knows what it should.
LEMMA FieldsOf ==
  ASSUME Typed, NEW a \in Actor
  PROVE  /\ actor[a] \in Local /\ Knows(actor[a])
         /\ actor[a].pc \in Pcs /\ actor[a].at \in Nat
         /\ actor[a].delivery \in Delivery \cup {None}
         /\ actor[a].sha \in Commit \cup {None} /\ actor[a].image \in Commit \cup {None}
         /\ actor[a].deployment \in DOMAIN deployment \cup {NoDeployment}
  BY DEF Typed, Knows, Local, Pcs

\* An operation that starts with a delivery.
WithDelivery(pc, d, t) == [Idle EXCEPT !.pc = pc, !.delivery = d, !.at = t]

\* Its local variables.
LEMMA StartDelivery ==
  ASSUME NEW pc \in Pcs, NEW d \in Delivery, NEW t \in Nat
  PROVE  \E v \in Local : v = WithDelivery(pc, d, t) /\ v.pc = pc /\ v.delivery = d /\ v.at = t
  <1>1. PICK v : v = WithDelivery(pc, d, t)
    OBVIOUS
  <1>2. v \in Local
    BY <1>1, IdleIs, Zenon DEF Local, Pcs, WithDelivery
  <1>3. v.pc = pc /\ v.delivery = d /\ v.at = t
    BY <1>1 DEF Idle, WithDelivery
  <1> QED BY <1>1, <1>2, <1>3

\* One that starts with the result of a deployment.
WithResult(pc, i) == [Idle EXCEPT !.pc = pc, !.deployment = i]

\* Its local variables.
LEMMA StartResult ==
  ASSUME NEW pc \in Pcs, NEW i \in DOMAIN deployment
  PROVE  \E v \in Local : v = WithResult(pc, i) /\ v.pc = pc /\ v.deployment = i /\ v.at = 0
  <1>1. PICK v : v = WithResult(pc, i)
    OBVIOUS
  <1>2. v \in Local
    BY <1>1, IdleIs, Zenon DEF Local, Pcs, WithResult
  <1>3. v.pc = pc /\ v.deployment = i /\ v.at = 0
    BY <1>1 DEF Idle, WithResult
  <1> QED BY <1>1, <1>2, <1>3

\* One that starts to stop the preview.
Stopping(pc, i, t) == [Idle EXCEPT !.pc = pc, !.at = t, !.deployment = i]

\* Its local variables.
LEMMA StartStop ==
  ASSUME NEW pc \in Pcs, NEW i \in DOMAIN deployment, NEW t \in Nat
  PROVE  \E v \in Local : v = Stopping(pc, i, t) /\ v.pc = pc /\ v.deployment = i /\ v.at = t
  <1>1. PICK v : v = Stopping(pc, i, t)
    OBVIOUS
  <1>2. v \in Local
    BY <1>1, IdleIs, Zenon DEF Local, Pcs, Stopping
  <1>3. v.pc = pc /\ v.deployment = i /\ v.at = t
    BY <1>1 DEF Idle, Stopping
  <1> QED BY <1>1, <1>2, <1>3

\* One that starts to promote it.
Promoting(pc, i, s) == [Idle EXCEPT !.pc = pc, !.sha = s, !.deployment = i]

\* Its local variables.
LEMMA StartPromote ==
  ASSUME NEW pc \in Pcs, NEW i \in DOMAIN deployment, NEW s \in Commit
  PROVE  \E v \in Local : v = Promoting(pc, i, s) /\ v.pc = pc /\ v.deployment = i /\ v.sha = s /\ v.at = 0
  <1>1. PICK v : v = Promoting(pc, i, s)
    OBVIOUS
  <1>2. v \in Local
    BY <1>1, IdleIs, Zenon DEF Local, Pcs, Promoting
  <1>3. v.pc = pc /\ v.deployment = i /\ v.sha = s /\ v.at = 0
    BY <1>1 DEF Idle, Promoting
  <1> QED BY <1>1, <1>2, <1>3

---------------------------------------------------------------------------
(* Invariants                                                              *)

\* An operation with a delivery for which a deployment is still to be made.
Owed == {"store", "push", "find", "insert"}

\* A recorded delivery is carried by one operation at most, and until that one
\* inserts there is no deployment for it.
Once ==
  /\ \A a, b \in Actor :
       actor[a].pc \in Carrying /\ actor[b].pc \in Carrying /\ actor[a].delivery = actor[b].delivery
       => a = b
  /\ \A a \in Actor : actor[a].pc \in Owed => CausedBy(actor[a].delivery) = {}
  /\ \A d \in Delivery : d \notin delivery => CausedBy(d) = {}
  /\ \A d \in Delivery : \A i, j \in CausedBy(d) : i = j

\* A push is on its way to a deployment with a job, unless it has one.
UnderWay(d, l) ==
  \/ l.pc \in {"store", "push"} /\ l.delivery = d
  \/ l.pc = "pushEnqueue" /\ l.deployment \in CausedBy(d)

Pushed ==
  failures = 0 /\ HasQueue =>
    \A d \in delivery :
      Action(d) = "push" =>
        \/ \E i \in CausedBy(d) : i \in DOMAIN job
        \/ \E a \in Actor : UnderWay(d, actor[a])

\* The status of the preview is right.
Truthful ==
  preview # NoPreview =>
    /\ preview.status = "ready" => deployment[preview.deployment].status = "running"
    /\ preview.status = "failed" => deployment[preview.deployment].status = "failed"

\* An operation that is about to correct the status of the preview.
Correcting(l) ==
  \/ l.pc \in {"failed", "stopClose"}
  \/ l.pc = "failure" /\ preview.deployment = l.deployment

\* What is true while operation l is the only one under way.
Sound(l) ==
  /\ l.pc = "ready" => deployment[l.deployment].status = "running"
  /\ l.pc \in {"failure", "failed"} => deployment[l.deployment].status = "failed"
  /\ l.pc = "failed" => preview.deployment = l.deployment
  /\ l.pc \in {"pushEnqueue", "enqueue", "promoteEnqueue"} => deployment[l.deployment].status = "queued"
  /\ ~ Correcting(l) => Truthful

\* A job that was not built is that of a deployment that has no result.
JobFresh ==
  \A i \in DOMAIN job : job[i] = "queued" => deployment[i].status \in {"queued", "stopped"}

\* Nothing has overlapped and nothing was interrupted.
Calm == overlaps = 0 /\ failures = 0

Sequential ==
  Calm =>
    /\ \A a, b \in Actor : ~ At(a, "idle") /\ ~ At(b, "idle") => a = b
    /\ JobFresh
    /\ Quiet => Sound(Idle)
    /\ \A a \in Actor : ~ At(a, "idle") => Sound(actor[a])

Inv == Typed /\ Once /\ Pushed /\ Sequential

---------------------------------------------------------------------------
(* A step of operation a, which leaves it with v                           *)

\* A step that neither inserts a deployment nor records a delivery.
LEMMA StepOnce ==
  ASSUME Typed, Once, NEW a \in Actor, NEW v, Become(a, v),
         DOMAIN deployment' = DOMAIN deployment, UNCHANGED delivery,
         v.pc \in Carrying => actor[a].pc \in Carrying /\ v.delivery = actor[a].delivery,
         v.pc \in Owed => actor[a].pc \in Owed /\ v.delivery = actor[a].delivery
  PROVE  Once'
  <1>1. \A b \in Actor : actor'[b] = IF b = a THEN v ELSE actor[b]
    BY DEF Become, Typed, TypeOK
  <1>2. \A d : CausedBy(d)' = CausedBy(d)
    BY DEF CausedBy
  <1>3. \A b, c \in Actor :
         actor'[b].pc \in Carrying /\ actor'[c].pc \in Carrying /\ actor'[b].delivery = actor'[c].delivery
         => b = c
    <2> SUFFICES ASSUME NEW b \in Actor, NEW c \in Actor, actor'[b].pc \in Carrying,
                        actor'[c].pc \in Carrying, actor'[b].delivery = actor'[c].delivery
                 PROVE  b = c
      OBVIOUS
    <2>1. /\ actor[b].pc \in Carrying /\ actor[b].delivery = actor'[b].delivery
          /\ actor[c].pc \in Carrying /\ actor[c].delivery = actor'[c].delivery
      BY <1>1
    <2> QED BY <2>1 DEF Once
  <1>4. ASSUME NEW b \in Actor, actor'[b].pc \in Owed PROVE CausedBy(actor[b].delivery)' = {}
    <2>1. actor[b].pc \in Owed /\ actor[b].delivery = actor'[b].delivery
      BY <1>1, <1>4
    <2>2. CausedBy(actor[b].delivery) = {}
      BY <2>1 DEF Once
    <2> QED BY <2>1, <2>2 DEF CausedBy
  <1> QED BY <1>2, <1>3, <1>4 DEF Once

\* A step of an operation that is not on the way from a push to its job.
LEMMA StepPushed ==
  ASSUME Typed, Pushed, NEW a \in Actor, NEW v, Become(a, v), Grows, UNCHANGED <<delivery, failures>>,
         actor[a].pc \notin {"store", "push", "pushEnqueue"}
  PROVE  Pushed'
  <1> SUFFICES ASSUME failures = 0, HasQueue, NEW d \in delivery, Action(d) = "push"
               PROVE  \/ \E i \in CausedBy(d)' : i \in DOMAIN job'
                      \/ \E b \in Actor : UnderWay(d, actor[b])'
    BY DEF Pushed
  <1>1. CausedBy(d) \subseteq CausedBy(d)' /\ DOMAIN job \subseteq DOMAIN job'
    BY DEF Grows, CausedBy
  <1>2. CASE \E i \in CausedBy(d) : i \in DOMAIN job
    BY <1>1, <1>2
  <1>3. CASE \E b \in Actor : UnderWay(d, actor[b])
    <2>1. PICK b \in Actor : UnderWay(d, actor[b])
      BY <1>3
    <2>2. b # a
      BY <2>1 DEF UnderWay
    <2>3. actor'[b] = actor[b]
      BY <2>2 DEF Become, Typed, TypeOK
    <2>4. UnderWay(d, actor[b])'
      BY <1>1, <2>1, <2>3 DEF UnderWay
    <2> QED BY <2>4
  <1> QED BY <1>2, <1>3 DEF Pushed

\* What is known of an operation that makes a step after which all is still calm.
LEMMA SoundBefore ==
  ASSUME Typed, Sequential, NEW a \in Actor, Calm', UNCHANGED failures,
         Starts(a) \/ (~ At(a, "idle") /\ UNCHANGED overlaps)
  PROVE  /\ \A b \in Actor : b # a => At(b, "idle")
         /\ JobFresh /\ Sound(actor[a])
  <1>1. overlaps \in Nat
    BY DEF Typed, TypeOK
  <1>2. CASE ~ At(a, "idle") /\ UNCHANGED overlaps
    BY <1>2 DEF Sequential, Calm
  <1>3. CASE Starts(a)
    <2>1. Quiet /\ overlaps = 0
      BY <1>1, <1>3 DEF Starts, Quiet, Calm
    <2>2. Calm
      BY <2>1 DEF Calm
    <2>3. Sound(Idle) /\ JobFresh
      BY <2>1, <2>2 DEF Sequential
    <2>4. actor[a].pc = "idle"
      BY <2>1 DEF Quiet, At
    <2>5. Sound(actor[a])
      BY <2>3, <2>4, IdleIs DEF Sound, Correcting
    <2> QED BY <2>1, <2>3, <2>5 DEF Quiet
  <1> QED BY <1>2, <1>3

\* What it takes for the step to leave all sound.
LEMMA StepSequential ==
  ASSUME Typed, NEW a \in Actor, NEW v, Become(a, v),
         Calm' => (\A b \in Actor : b # a => At(b, "idle")) /\ JobFresh' /\ Sound(v)'
  PROVE  Sequential'
  <1> SUFFICES ASSUME Calm'
               PROVE  /\ \A b, c \in Actor : ~ At(b, "idle")' /\ ~ At(c, "idle")' => b = c
                      /\ JobFresh'
                      /\ Quiet' => Sound(Idle)'
                      /\ \A b \in Actor : ~ At(b, "idle")' => Sound(actor[b])'
    BY DEF Sequential
  <1>1. (\A b \in Actor : b # a => actor'[b].pc = "idle") /\ actor'[a] = v
    BY DEF Become, Typed, TypeOK, At
  <1>2. JobFresh' /\ Sound(v)'
    OBVIOUS
  <1>3. \A b, c \in Actor : ~ At(b, "idle")' /\ ~ At(c, "idle")' => b = c
    BY <1>1 DEF At
  <1>4. Quiet' => Sound(Idle)'
    <2>1. Quiet' => v.pc = "idle"
      BY <1>1 DEF Quiet, At
    <2> QED BY <1>2, <2>1, IdleIs DEF Sound, Correcting
  <1>5. \A b \in Actor : ~ At(b, "idle")' => Sound(actor[b])'
    <2> SUFFICES ASSUME NEW b \in Actor, ~ At(b, "idle")' PROVE Sound(actor[b])'
      OBVIOUS
    <2>1. actor'[b] = v
      BY <1>1 DEF At
    <2> QED BY <1>2, <2>1 DEF Sound, Correcting, Truthful
  <1> QED BY <1>2, <1>3, <1>4, <1>5

\* A step that neither inserts a deployment nor records a delivery, of an operation
\* that is not on the way from a push to its job.
LEMMA PlainStep ==
  ASSUME Inv, NEW a \in Actor, NEW v, Become(a, v), Grows, RowsType', Sources', Knows(v)',
         DOMAIN deployment' = DOMAIN deployment, UNCHANGED <<delivery, failures>>,
         v.pc \in Carrying => actor[a].pc \in Carrying /\ v.delivery = actor[a].delivery,
         v.pc \in Owed => actor[a].pc \in Owed /\ v.delivery = actor[a].delivery,
         actor[a].pc \notin {"store", "push", "pushEnqueue"},
         Starts(a) \/ (~ At(a, "idle") /\ UNCHANGED overlaps),
         Calm' /\ Sound(actor[a]) /\ JobFresh => Sound(v)' /\ JobFresh'
  PROVE  Inv'
  <1>1. Typed'
    BY StepTyped DEF Inv
  <1>2. Once'
    BY StepOnce DEF Inv
  <1>3. Pushed'
    BY StepPushed DEF Inv
  <1>4. Calm' => (\A b \in Actor : b # a => At(b, "idle")) /\ JobFresh' /\ Sound(v)'
    BY SoundBefore DEF Inv
  <1>5. Sequential'
    BY <1>4, StepSequential DEF Inv
  <1> QED BY <1>1, <1>2, <1>3, <1>5 DEF Inv

\* The rows stay well typed when they are left alone.
LEMMA RowsSame ==
  ASSUME Typed, CountsType', received \subseteq received', received' \subseteq Delivery,
         UNCHANGED <<delivery, event, preview, deployment, job>>
  PROVE  RowsType' /\ Grows /\ Sources'
  <1>1. RowsType /\ Sources
    BY TypeParts DEF Typed
  <1>2. PreviewType'
    BY <1>1 DEF PreviewType, RowsType
  <1>3. DeliveriesType'
    BY <1>1 DEF RowsType, DeliveriesType
  <1>4. DeploymentType' /\ JobType'
    BY <1>1 DEF RowsType, DeploymentType, JobType
  <1>5. Sources'
    BY <1>1 DEF Sources, Queued
  <1>6. Grows
    BY DEF Grows
  <1> QED BY <1>2, <1>3, <1>4, <1>5, <1>6 DEF RowsType

\* A reading of a clock.
LEMMA ReadingIs ==
  ASSUME clock' \in Nat, NEW s \in Skew
  PROVE  Reading(s) \in Nat
  <1>1. s \in Nat
    BY PreviewsAssumption, Zenon
  <1>2. Reading(s) = clock' + s
    BY DEF Reading
  <1>3. PICK c \in Nat : c = clock'
    OBVIOUS
  <1>4. c + s \in Nat
    BY <1>1
  <1> QED BY <1>2, <1>3, <1>4

\* The counters of a step.
LEMMA CountsKept ==
  ASSUME Typed, UNCHANGED <<repeats, requests, results, failures, overlaps>>,
         ReadClock \/ UNCHANGED clock, applied' = applied, UNCHANGED current \/ current' \subseteq Actor
  PROVE  CountsType'
  BY DEF Typed, TypeOK, CountsType, ReadClock

\* Those of a step that applies an event of operation a.
LEMMA CountsApply ==
  ASSUME Typed, UNCHANGED <<repeats, requests, results, failures, overlaps>>,
         ReadClock \/ UNCHANGED clock, NEW a \in Actor, applied' = actor[a].at, current' = {}
  PROVE  CountsType'
  <1>1. actor[a].at \in Nat
    BY DEF Typed, TypeOK, Local
  <1> QED BY <1>1 DEF Typed, TypeOK, CountsType, ReadClock

\* What is sound does not change while its rows stay.
LEMMA SoundKept ==
  ASSUME NEW l, UNCHANGED <<preview, deployment>>
  PROVE  Sound(l) <=> Sound(l)'
  BY DEF Sound, Correcting, Truthful

\* Nor is what is known of jobs and results.
LEMMA JobFreshKept ==
  ASSUME UNCHANGED <<job, deployment>>
  PROVE  JobFresh <=> JobFresh'
  BY DEF JobFresh

---------------------------------------------------------------------------
(* Steps that change local variables only                                  *)

\* Such a step.
LEMMA LocalStep ==
  ASSUME Inv, NEW a \in Actor, NEW v, Become(a, v), CountsType',
         received \subseteq received', received' \subseteq Delivery,
         UNCHANGED <<delivery, event, preview, deployment, job, failures>>, Knows(v)',
         v.pc \in Carrying => actor[a].pc \in Carrying /\ v.delivery = actor[a].delivery,
         v.pc \in Owed => actor[a].pc \in Owed /\ v.delivery = actor[a].delivery,
         actor[a].pc \notin {"store", "push", "pushEnqueue"},
         Starts(a) \/ (~ At(a, "idle") /\ UNCHANGED overlaps),
         Calm' /\ Sound(actor[a]) => Sound(v)
  PROVE  Inv'
  <1>1. RowsType' /\ Grows /\ Sources'
    BY RowsSame DEF Inv
  <1>2. Calm' /\ Sound(actor[a]) /\ JobFresh => Sound(v)' /\ JobFresh'
    BY SoundKept, JobFreshKept
  <1>3. DOMAIN deployment' = DOMAIN deployment
    OBVIOUS
  <1> QED BY <1>1, <1>2, <1>3, PlainStep

\* A webhook arrives.
LEMMA ReceiveStep ==
  ASSUME Inv, NEW a \in Actor, NEW d \in Delivery, Receive(a, d)
  PROVE  Inv'
  <1>1. Typed /\ actor[a].pc = "idle"
    BY DEF Inv, Receive, Starts, At
  <1>2. CountsType' /\ clock' \in Nat
    BY <1>1 DEF Receive, Starts, ReadClock, CountsType, Typed, TypeOK
  <1>s. PICK s \in Skew : Become(a, [Idle EXCEPT !.pc = "record", !.delivery = d, !.at = Reading(s)])
    BY DEF Receive
  <1>3. PICK pc \in Pcs, t \in Nat : pc = "record" /\ t = Reading(s)
    BY <1>2, ReadingIs DEF Pcs
  <1>4. PICK v \in Local : v = WithDelivery(pc, d, t) /\ v.pc = pc /\ v.delivery = d /\ v.at = t
    BY StartDelivery
  <1>5. Become(a, v)
    BY <1>s, <1>3, <1>4 DEF WithDelivery
  <1>6. received \subseteq received' /\ received' \subseteq Delivery /\ d \in received'
    BY <1>1 DEF Receive, Typed, TypeOK
  <1>7. Knows(v)'
    BY <1>2, <1>3, <1>4, <1>6 DEF Knows, Carrying, WithPreview, WithDeployment, Local, Receive
  <1>9. Sound(actor[a]) => Sound(v)
    BY <1>1, <1>3, <1>4 DEF Sound, Correcting
  <1>10. v.pc \notin Carrying /\ v.pc \notin Owed
    BY <1>3, <1>4 DEF Carrying, Owed
  <1> QED BY <1>1, <1>2, <1>5, <1>6, <1>7, <1>9, <1>10, LocalStep DEF Receive

\* The operation that ends has nothing left to do.
LEMMA EndStep ==
  ASSUME Inv, NEW a \in Actor, Become(a, Idle), CountsType',
         UNCHANGED <<received, delivery, event, preview, deployment, job, failures, overlaps>>,
         actor[a].pc \notin {"store", "push", "pushEnqueue"}, ~ At(a, "idle"),
         Calm' /\ Sound(actor[a]) => Truthful
  PROVE  Inv'
  <1>1. Knows(Idle)'
    BY IdleKnows
  <1>2. Idle.pc = "idle"
    BY IdleIs
  <1>3. Calm' /\ Sound(actor[a]) => Sound(Idle)
    BY <1>2 DEF Sound, Correcting
  <1>4. Idle.pc \notin Carrying /\ Idle.pc \notin Owed
    BY <1>2 DEF Carrying, Owed
  <1>5. received' \subseteq Delivery
    BY DEF Inv, Typed, TypeOK
  <1> QED BY <1>1, <1>3, <1>4, <1>5, LocalStep

\* The local variables l with another point and another deployment.
Moving(l, pc, i) == [l EXCEPT !.pc = pc, !.deployment = i]

\* Those are well typed, and the other fields stay.
LEMMA MovingFacts ==
  ASSUME NEW l \in Local, NEW pc \in Pcs, NEW i \in DOMAIN deployment
  PROVE  \E v \in Local : /\ v = Moving(l, pc, i) /\ v.pc = pc /\ v.deployment = i
                          /\ v.delivery = l.delivery /\ v.at = l.at /\ v.sha = l.sha /\ v.image = l.image
  <1>1. PICK v : v = Moving(l, pc, i)
    OBVIOUS
  <1>2. v \in Local
    BY <1>1, Zenon DEF Local, Pcs, Moving
  <1>3. /\ v.pc = pc /\ v.deployment = i
        /\ v.delivery = l.delivery /\ v.at = l.at /\ v.sha = l.sha /\ v.image = l.image
    BY <1>1 DEF Moving, Local
  <1> QED BY <1>1, <1>2, <1>3

\* The preview that was found, if any, tells what to do.
LEMMA FindByPrStep ==
  ASSUME Inv, NEW a \in Actor, FindByPr(a)
  PROVE  Inv'
  <1>1. Typed /\ actor[a].pc = "find" /\ ~ At(a, "idle")
    BY DEF Inv, FindByPr, At
  <1>2. PICK l \in Local : l = actor[a] /\ Knows(l) /\ l.pc = "find"
    BY <1>1, FieldsOf
  <1>3. CountsType' /\ received' \subseteq Delivery
    BY <1>1, CountsKept DEF FindByPr, Typed, TypeOK
  <1>4. /\ UNCHANGED <<received, delivery, event, preview, deployment, job, failures, overlaps>>
        /\ l.pc \notin {"store", "push", "pushEnqueue"} /\ l.pc \in Carrying /\ l.pc \in Owed
    BY <1>2 DEF FindByPr, Carrying, Owed
  <1>5. Sound(l) => Truthful
    BY <1>2 DEF Sound, Correcting
  <1>6. CASE Action(l.delivery) = "closed" /\ Become(a, Idle)
    BY <1>1, <1>2, <1>3, <1>4, <1>5, <1>6, EndStep
  <1>7. CASE /\ Action(l.delivery) = "closed" /\ preview # NoPreview
             /\ Become(a, Moving(l, "close", preview.deployment))
    <2>1. PICK pc \in Pcs, i \in DOMAIN deployment : pc = "close" /\ i = preview.deployment
      BY <1>1, <1>7 DEF Pcs, Typed, TypeOK
    <2>2. PICK v \in Local : /\ v = Moving(l, pc, i) /\ v.pc = pc /\ v.deployment = i
                             /\ v.delivery = l.delivery /\ v.at = l.at
      BY MovingFacts
    <2>3. Become(a, v)
      BY <1>7, <2>1, <2>2
    <2>4. Knows(v)
      BY <1>2, <1>4, <1>7, <2>1, <2>2 DEF Knows, Carrying, WithPreview, WithDeployment
    <2>5. Knows(v)'
      BY <1>3, <1>4, <2>4 DEF Knows, Local, Queued
    <2>6. Sound(l) => Sound(v)
      BY <1>2, <1>7, <2>1, <2>2 DEF Sound, Correcting
    <2>7. v.pc \notin Owed
      BY <2>1, <2>2 DEF Owed
    <2> QED BY <1>1, <1>2, <1>3, <1>4, <2>2, <2>3, <2>5, <2>6, <2>7, LocalStep
  <1>8. CASE Action(l.delivery) # "closed" /\ Become(a, Idle)
    BY <1>1, <1>2, <1>3, <1>4, <1>5, <1>8, EndStep
  <1>9. CASE Action(l.delivery) # "closed" /\ Goto(a, "insert")
    <2>1. PICK pc \in Pcs : pc = "insert"
      BY DEF Pcs
    <2>2. PICK v \in Local : Become(a, v) /\ v.pc = pc /\ SameBut(v, actor[a])
      BY <1>1, <1>9, <2>1, GotoFacts
    <2>3. Knows(v)
      BY <1>2, <1>4, <2>1, <2>2 DEF Knows, Carrying, WithPreview, WithDeployment, SameBut
    <2>4. Knows(v)'
      BY <1>3, <1>4, <2>3 DEF Knows, Local, Queued
    <2>5. Sound(l) => Sound(v)
      BY <1>2, <1>9, <2>1, <2>2 DEF Sound, Correcting, SameBut
    <2> QED BY <1>1, <1>2, <1>3, <1>4, <2>2, <2>4, <2>5, LocalStep DEF SameBut
  <1>10. \/ Action(l.delivery) = "closed" /\ Become(a, Idle)
         \/ /\ Action(l.delivery) = "closed" /\ preview # NoPreview
            /\ Become(a, Moving(l, "close", preview.deployment))
         \/ Action(l.delivery) # "closed" /\ Become(a, Idle)
         \/ Action(l.delivery) # "closed" /\ Goto(a, "insert")
    BY <1>2 DEF FindByPr, Moving, Applies
  <1> QED BY <1>6, <1>7, <1>8, <1>9, <1>10

\* A failure is held against the preview only when it points to that deployment.
LEMMA FindByIdStep ==
  ASSUME Inv, NEW a \in Actor, FindById(a)
  PROVE  Inv'
  <1>1. Typed /\ actor[a].pc = "failure" /\ ~ At(a, "idle")
    BY DEF Inv, FindById, At
  <1>2. PICK l \in Local : l = actor[a] /\ Knows(l) /\ l.pc = "failure"
    BY <1>1, FieldsOf
  <1>3. CountsType' /\ received' \subseteq Delivery
    BY <1>1, CountsKept DEF FindById, Typed, TypeOK
  <1>4. /\ UNCHANGED <<received, delivery, event, preview, deployment, job, failures, overlaps>>
        /\ l.pc \notin {"store", "push", "pushEnqueue"}
    BY <1>2 DEF FindById
  <1>5. CASE preview.deployment # l.deployment /\ Become(a, Idle)
    <2>1. Sound(l) => Truthful
      BY <1>2, <1>5 DEF Sound, Correcting
    <2> QED BY <1>1, <1>2, <1>3, <1>4, <1>5, <2>1, EndStep
  <1>6. CASE preview.deployment = l.deployment /\ Goto(a, "failed")
    <2>1. PICK pc \in Pcs : pc = "failed"
      BY DEF Pcs
    <2>2. PICK v \in Local : Become(a, v) /\ v.pc = pc /\ SameBut(v, actor[a])
      BY <1>1, <1>6, <2>1, GotoFacts
    <2>3. Knows(v)
      BY <1>2, <1>4, <2>1, <2>2 DEF Knows, Carrying, WithPreview, WithDeployment, SameBut
    <2>4. Knows(v)'
      BY <1>3, <1>4, <2>3 DEF Knows, Local, Queued
    <2>5. Sound(l) => Sound(v)
      BY <1>2, <1>6, <2>1, <2>2 DEF Sound, Correcting, SameBut
    <2>6. v.pc \notin Carrying /\ v.pc \notin Owed
      BY <2>1, <2>2 DEF Carrying, Owed
    <2> QED BY <1>1, <1>2, <1>3, <1>4, <2>2, <2>4, <2>5, <2>6, LocalStep
  <1> QED BY <1>2, <1>5, <1>6 DEF FindById

\* A request to stop the preview starts with the deployment it points to.
LEMMA StopStep ==
  ASSUME Inv, NEW a \in Actor, Stop(a)
  PROVE  Inv'
  <1>1. Typed /\ actor[a].pc = "idle"
    BY DEF Inv, Stop, Starts, At
  <1>2. CountsType' /\ clock' \in Nat
    BY <1>1 DEF Stop, Starts, ReadClock, CountsType, Typed, TypeOK
  <1>s. PICK s \in Skew : Become(a, [Idle EXCEPT !.pc = "stopCancel", !.at = Reading(s),
                                                !.deployment = preview.deployment])
    BY DEF Stop
  <1>3. PICK pc \in Pcs, t \in Nat, i \in DOMAIN deployment :
          pc = "stopCancel" /\ t = Reading(s) /\ i = preview.deployment
    BY <1>1, <1>2, ReadingIs DEF Pcs, Stop, Typed, TypeOK
  <1>4. PICK v \in Local : v = Stopping(pc, i, t) /\ v.pc = pc /\ v.deployment = i /\ v.at = t
    BY StartStop
  <1>5. Become(a, v)
    BY <1>s, <1>3, <1>4 DEF Stopping
  <1>6. /\ UNCHANGED <<received, delivery, event, preview, deployment, job, failures>>
        /\ preview # NoPreview /\ Starts(a) /\ received' \subseteq Delivery
    BY <1>1 DEF Stop, Typed, TypeOK
  <1>7. Knows(v)'
    BY <1>2, <1>3, <1>4, <1>6 DEF Knows, Carrying, WithPreview, WithDeployment, Local
  <1>8. Sound(actor[a]) => Sound(v)
    BY <1>1, <1>3, <1>4 DEF Sound, Correcting
  <1>9. v.pc \notin Carrying /\ v.pc \notin Owed
    BY <1>3, <1>4 DEF Carrying, Owed
  <1> QED BY <1>1, <1>2, <1>5, <1>6, <1>7, <1>8, <1>9, LocalStep

\* A request to promote it starts with its commit.
LEMMA PromoteStep ==
  ASSUME Inv, NEW a \in Actor, Promote(a)
  PROVE  Inv'
  <1>1. Typed /\ actor[a].pc = "idle"
    BY DEF Inv, Promote, Starts, At
  <1>2. CountsType'
    BY <1>1 DEF Promote, Starts, CountsType, Typed, TypeOK
  <1>3. PICK pc \in Pcs, s \in Commit, i \in DOMAIN deployment :
          pc = "promoteImage" /\ s = preview.head /\ i = preview.deployment
    BY <1>1 DEF Pcs, Promote, Typed, TypeOK
  <1>4. PICK v \in Local : v = Promoting(pc, i, s) /\ v.pc = pc /\ v.deployment = i /\ v.sha = s /\ v.at = 0
    BY StartPromote
  <1>5. Become(a, v)
    BY <1>3, <1>4 DEF Promote, Promoting
  <1>6. /\ UNCHANGED <<received, delivery, event, preview, deployment, job, failures>>
        /\ preview # NoPreview /\ Starts(a) /\ received' \subseteq Delivery
    BY <1>1 DEF Promote, Typed, TypeOK
  <1>7. Knows(v)'
    BY <1>2, <1>3, <1>4, <1>6 DEF Knows, Carrying, WithPreview, WithDeployment, Local
  <1>8. Sound(actor[a]) => Sound(v)
    BY <1>1, <1>3, <1>4 DEF Sound, Correcting
  <1>9. v.pc \notin Carrying /\ v.pc \notin Owed
    BY <1>3, <1>4 DEF Carrying, Owed
  <1> QED BY <1>1, <1>2, <1>5, <1>6, <1>7, <1>8, <1>9, LocalStep

\* The local variables l with another point and another image.
Imaged(l, pc, m) == [l EXCEPT !.pc = pc, !.image = m]

\* Those are well typed, and the other fields stay.
LEMMA ImagedFacts ==
  ASSUME NEW l \in Local, NEW pc \in Pcs, NEW m \in Commit \cup {None}
  PROVE  \E v \in Local : /\ v = Imaged(l, pc, m) /\ v.pc = pc /\ v.image = m
                          /\ v.delivery = l.delivery /\ v.at = l.at /\ v.sha = l.sha
                          /\ v.deployment = l.deployment
  <1>1. PICK v : v = Imaged(l, pc, m)
    OBVIOUS
  <1>2. v \in Local
    BY <1>1, Zenon DEF Local, Pcs, Imaged
  <1>3. /\ v.pc = pc /\ v.image = m
        /\ v.delivery = l.delivery /\ v.at = l.at /\ v.sha = l.sha /\ v.deployment = l.deployment
    BY <1>1 DEF Imaged, Local
  <1> QED BY <1>1, <1>2, <1>3

\* The image of the deployment is read.
LEMMA PromoteImageStep ==
  ASSUME Inv, NEW a \in Actor, PromoteImage(a)
  PROVE  Inv'
  <1>1. Typed /\ actor[a].pc = "promoteImage" /\ ~ At(a, "idle")
    BY DEF Inv, PromoteImage, At
  <1>2. PICK l \in Local : l = actor[a] /\ Knows(l) /\ l.pc = "promoteImage"
    BY <1>1, FieldsOf
  <1>3. CountsType' /\ received' \subseteq Delivery
    BY <1>1, CountsKept DEF PromoteImage, Typed, TypeOK
  <1>4. /\ UNCHANGED <<received, delivery, event, preview, deployment, job, failures, overlaps>>
        /\ l.pc \notin {"store", "push", "pushEnqueue"}
    BY <1>2 DEF PromoteImage
  <1>5. l.deployment \in DOMAIN deployment
    BY <1>2 DEF Knows, WithDeployment
  <1>6. PICK pc \in Pcs, m \in Commit \cup {None} : pc = "promoteInsert" /\ m = deployment[l.deployment].image
    BY <1>1, <1>5 DEF Pcs, Typed, TypeOK
  <1>7. PICK v \in Local : /\ v = Imaged(l, pc, m) /\ v.pc = pc /\ v.at = l.at /\ v.sha = l.sha
    BY ImagedFacts
  <1>8. Become(a, v)
    BY <1>2, <1>6, <1>7 DEF PromoteImage, Imaged
  <1>9. Knows(v)
    BY <1>2, <1>6, <1>7 DEF Knows, Carrying, WithPreview, WithDeployment
  <1>10. Knows(v)'
    BY <1>3, <1>4, <1>9 DEF Knows, Local, Queued
  <1>11. Sound(l) => Sound(v)
    BY <1>2, <1>6, <1>7 DEF Sound, Correcting
  <1>12. v.pc \notin Carrying /\ v.pc \notin Owed
    BY <1>6, <1>7 DEF Carrying, Owed
  <1> QED BY <1>1, <1>2, <1>3, <1>4, <1>8, <1>10, <1>11, <1>12, LocalStep

\* An interruption is the end of what is promised for operations in sequence.
LEMMA InterruptedStep ==
  ASSUME Inv, NEW a \in Actor, Interrupted(a)
  PROVE  Inv'
  <1>1. Typed /\ Once
    BY DEF Inv
  <1>2. /\ UNCHANGED <<received, delivery, event, preview, deployment, job, overlaps>>
        /\ failures' = failures + 1 /\ failures \in Nat /\ Become(a, Idle)
    BY <1>1 DEF Interrupted, Typed, TypeOK
  <1>3. failures' # 0
    BY <1>2
  <1>4. CountsType' /\ received' \subseteq Delivery
    BY <1>1 DEF Interrupted, CountsType, Typed, TypeOK
  <1>5. RowsType' /\ Grows /\ Sources'
    BY <1>1, <1>2, <1>4, RowsSame
  <1>6. Knows(Idle)'
    BY <1>4, IdleKnows
  <1>7. Typed'
    BY <1>1, <1>2, <1>5, <1>6, StepTyped
  <1>8. Idle.pc \notin Carrying /\ Idle.pc \notin Owed
    BY IdleIs DEF Carrying, Owed
  <1>9. DOMAIN deployment' = DOMAIN deployment
    BY <1>2
  <1>10. Once'
    BY <1>1, <1>2, <1>8, <1>9, StepOnce
  <1> QED BY <1>3, <1>7, <1>10 DEF Inv, Pushed, Sequential, Calm

---------------------------------------------------------------------------
(* Recording a delivery and its event                                      *)

\* A delivery is carried on by the one operation that recorded it.
LEMMA RecordDeliveryStep ==
  ASSUME Inv, NEW a \in Actor, RecordDelivery(a)
  PROVE  Inv'
  <1>1. Typed /\ actor[a].pc = "record" /\ ~ At(a, "idle") /\ Once /\ Pushed /\ Sequential
    BY DEF Inv, RecordDelivery, At
  <1>2. PICK l \in Local : l = actor[a] /\ Knows(l) /\ l.pc = "record"
    BY <1>1, FieldsOf
  <1>3. CountsType' /\ received' \subseteq Delivery
    BY <1>1, CountsKept DEF RecordDelivery, Typed, TypeOK
  <1>4. /\ UNCHANGED <<received, event, preview, deployment, job, failures, overlaps>>
        /\ delivery' = delivery \cup {l.delivery}
    BY <1>2 DEF RecordDelivery
  <1>5. CASE l.delivery \in delivery /\ Become(a, Idle)
    <2>1. delivery' = delivery
      BY <1>4, <1>5
    <2>2. Sound(l) => Truthful
      BY <1>2 DEF Sound, Correcting
    <2> QED BY <1>1, <1>2, <1>3, <1>4, <1>5, <2>1, <2>2, EndStep
  <1>6. CASE l.delivery \notin delivery /\ Goto(a, "store")
    <2>1. PICK pc \in Pcs : pc = "store"
      BY DEF Pcs
    <2>2. PICK v \in Local : Become(a, v) /\ v.pc = pc /\ SameBut(v, actor[a])
      BY <1>1, <1>6, <2>1, GotoFacts
    <2>3. PICK d \in Delivery : d = l.delivery /\ d \in received /\ v.delivery = d
      BY <1>1, <1>2, <2>2 DEF Knows, Typed, TypeOK, SameBut
    <2>4. \A b \in Actor : actor'[b] = IF b = a THEN v ELSE actor[b]
      BY <1>1, <2>2 DEF Become, Typed, TypeOK
    <2>5. \A e : CausedBy(e)' = CausedBy(e)
      BY <1>4 DEF CausedBy
    <2>6. Typed'
      <3>1. RowsType /\ Sources
        BY <1>1, TypeParts DEF Typed
      <3>2. RowsType' /\ Sources' /\ Grows
        BY <1>3, <1>4, <2>3, <3>1 DEF RowsType, PreviewType, DeliveriesType, DeploymentType, JobType,
           Sources, Grows, Queued
      <3>3. Knows(v)'
        BY <1>2, <1>3, <1>4, <2>1, <2>2, <2>3
           DEF Knows, Carrying, WithPreview, WithDeployment, SameBut, Local
      <3> QED BY <1>1, <2>2, <3>2, <3>3, StepTyped
    <2>7. Once'
      <3>1. \A b \in Actor : b # a /\ actor[b].pc \in Carrying => actor[b].delivery # d
        BY <1>1, <1>6, <2>3 DEF Typed, Knows
      <3>2. \A b, c \in Actor :
             /\ actor'[b].pc \in Carrying /\ actor'[c].pc \in Carrying
             /\ actor'[b].delivery = actor'[c].delivery
             => b = c
        BY <1>1, <2>3, <2>4, <3>1 DEF Once
      <3>3. ASSUME NEW b \in Actor, actor'[b].pc \in Owed PROVE CausedBy(actor[b].delivery)' = {}
        <4>1. CausedBy(d) = {}
          BY <1>1, <1>6, <2>3 DEF Once
        <4>2. CASE b = a
          BY <1>4, <2>3, <2>4, <4>1, <4>2 DEF CausedBy
        <4>3. CASE b # a
          <5>1. actor'[b] = actor[b] /\ CausedBy(actor[b].delivery) = {}
            BY <1>1, <2>4, <3>3, <4>3 DEF Once
          <5> QED BY <1>4, <5>1 DEF CausedBy
        <4> QED BY <4>2, <4>3
      <3> QED BY <1>1, <1>4, <2>5, <3>2, <3>3 DEF Once
    <2>8. Pushed'
      <3> SUFFICES ASSUME failures = 0, HasQueue, NEW e \in delivery', Action(e) = "push"
                   PROVE  \/ \E i \in CausedBy(e)' : i \in DOMAIN job'
                          \/ \E b \in Actor : UnderWay(e, actor[b])'
        BY <1>4 DEF Pushed
      <3>1. CASE e = d
        BY <2>1, <2>2, <2>3, <2>4, <3>1 DEF UnderWay
      <3>2. CASE e \in delivery
        <4>1. CASE \E i \in CausedBy(e) : i \in DOMAIN job
          BY <1>4, <2>5, <4>1
        <4>2. CASE \E b \in Actor : UnderWay(e, actor[b])
          <5>1. PICK b \in Actor : UnderWay(e, actor[b])
            BY <4>2
          <5>2. b # a /\ actor'[b] = actor[b]
            BY <1>1, <2>4, <5>1 DEF UnderWay
          <5>3. UnderWay(e, actor[b])'
            BY <2>5, <5>1, <5>2 DEF UnderWay
          <5> QED BY <5>3
        <4> QED BY <1>1, <3>2, <4>1, <4>2 DEF Pushed
      <3> QED BY <1>4, <2>3, <3>1, <3>2
    <2>9. Sequential'
      <3>1. ASSUME Calm' PROVE (\A b \in Actor : b # a => At(b, "idle")) /\ JobFresh' /\ Sound(v)'
        <4>1. (\A b \in Actor : b # a => At(b, "idle")) /\ JobFresh /\ Sound(l)
          BY <1>1, <1>2, <1>4, <3>1, SoundBefore
        <4>2. Sound(v)
          BY <1>2, <2>1, <2>2, <4>1 DEF Sound, Correcting, SameBut
        <4> QED BY <1>4, <4>1, <4>2, SoundKept, JobFreshKept
      <3> QED BY <1>1, <2>2, <3>1, StepSequential
    <2> QED BY <2>6, <2>7, <2>8, <2>9 DEF Inv
  <1> QED BY <1>2, <1>5, <1>6 DEF RecordDelivery

\* The event of a push goes on to its deployment, the others to the preview.
LEMMA RecordEventStep ==
  ASSUME Inv, NEW a \in Actor, RecordEvent(a)
  PROVE  Inv'
  <1>1. Typed /\ actor[a].pc = "store" /\ ~ At(a, "idle") /\ Once /\ Pushed /\ Sequential
    BY DEF Inv, RecordEvent, At
  <1>2. PICK l \in Local : l = actor[a] /\ Knows(l) /\ l.pc = "store"
    BY <1>1, FieldsOf
  <1>3. PICK d \in Delivery : d = l.delivery /\ d \in delivery
    BY <1>1, <1>2 DEF Knows, Carrying, Typed, TypeOK
  <1>4. CountsType'
    BY <1>1, CountsKept DEF RecordEvent
  <1>5. /\ UNCHANGED <<received, delivery, preview, deployment, job, failures, overlaps>>
        /\ event' \subseteq delivery'
    BY <1>1, <1>2, <1>3 DEF RecordEvent, Typed, TypeOK
  <1>7. PICK v \in Local :
          /\ Become(a, v)
          /\ \/ (Action(d) = "push" => ~ HasQueue) /\ v = Idle /\ v.pc = "idle"
             \/ Action(d) = "push" /\ v.pc = "push" /\ SameBut(v, l)
             \/ Action(d) \notin {"unsupported", "push"} /\ v.pc = "find" /\ SameBut(v, l)
    <2>1. CASE Action(d) = "unsupported"
      BY <1>2, <1>3, <2>1, IdleIs DEF RecordEvent
    <2>p. CASE Action(d) = "push" /\ ~ HasQueue
      BY <1>2, <1>3, <2>p, IdleIs DEF RecordEvent
    <2>2. CASE Action(d) = "push" /\ HasQueue
      <3>1. PICK pc \in Pcs : pc = "push"
        BY DEF Pcs
      <3>2. Goto(a, pc)
        BY <1>2, <1>3, <2>2, <3>1 DEF RecordEvent
      <3> QED BY <1>1, <1>2, <2>2, <3>1, <3>2, GotoFacts
    <2>3. CASE Action(d) \notin {"unsupported", "push"}
      <3>1. PICK pc \in Pcs : pc = "find"
        BY DEF Pcs
      <3>2. Goto(a, pc)
        BY <1>2, <1>3, <2>3, <3>1 DEF RecordEvent
      <3> QED BY <1>1, <1>2, <2>3, <3>1, <3>2, GotoFacts
    <2> QED BY <2>1, <2>p, <2>2, <2>3
  <1>8. RowsType' /\ Sources' /\ Grows
    <2>1. RowsType /\ Sources
      BY <1>1, TypeParts DEF Typed
    <2> QED BY <1>4, <1>5, <2>1 DEF RowsType, PreviewType, DeliveriesType, DeploymentType, JobType,
          Sources, Grows, Queued
  <1>9. Knows(v)'
    <2>1. CASE v = Idle
      BY <1>4, <2>1, IdleKnows
    <2>2. CASE v.pc \in {"push", "find"} /\ SameBut(v, l)
      BY <1>2, <1>3, <1>4, <1>5, <2>2 DEF Knows, Carrying, WithPreview, WithDeployment, SameBut, Local
    <2> QED BY <1>7, <2>1, <2>2
  <1>10. Typed'
    BY <1>1, <1>7, <1>8, <1>9, StepTyped
  <1>11. Once'
    <2>1. actor[a].pc \in Carrying /\ actor[a].pc \in Owed
      BY <1>1 DEF Carrying, Owed
    <2>2. v.pc \in Carrying \/ v.pc \in Owed => v.delivery = actor[a].delivery
      BY <1>2, <1>7 DEF SameBut, Carrying, Owed
    <2>3. DOMAIN deployment' = DOMAIN deployment
      BY <1>5
    <2> QED BY <1>1, <1>5, <1>7, <2>1, <2>2, <2>3, StepOnce
  <1>12. Pushed'
    <2> SUFFICES ASSUME failures = 0, HasQueue, NEW e \in delivery, Action(e) = "push"
                 PROVE  \/ \E i \in CausedBy(e)' : i \in DOMAIN job'
                        \/ \E b \in Actor : UnderWay(e, actor[b])'
      BY <1>5 DEF Pushed
    <2>1. CausedBy(e)' = CausedBy(e)
      BY <1>5 DEF CausedBy
    <2>2. \A b \in Actor : actor'[b] = IF b = a THEN v ELSE actor[b]
      BY <1>1, <1>7 DEF Become, Typed, TypeOK
    <2>3. ASSUME NEW b \in Actor, UnderWay(e, actor[b]) PROVE UnderWay(e, actor[b])'
      <3>1. CASE b = a
        <4>1. e = d
          BY <1>1, <1>2, <1>3, <2>3, <3>1 DEF UnderWay
        <4>2. v.pc = "push" /\ v.delivery = e
          BY <1>3, <1>7, <4>1 DEF SameBut
        <4> QED BY <2>2, <3>1, <4>2 DEF UnderWay
      <3>2. CASE b # a
        BY <2>1, <2>2, <2>3, <3>2 DEF UnderWay
      <3> QED BY <3>1, <3>2
    <2> QED BY <1>1, <1>5, <2>1, <2>3 DEF Pushed
  <1>13. Sequential'
    <2>1. ASSUME Calm' PROVE (\A b \in Actor : b # a => At(b, "idle")) /\ JobFresh' /\ Sound(v)'
      <3>1. (\A b \in Actor : b # a => At(b, "idle")) /\ JobFresh /\ Sound(l)
        BY <1>1, <1>2, <1>5, <2>1, SoundBefore
      <3>2. Truthful
        BY <1>2, <3>1 DEF Sound, Correcting
      <3>3. Truthful'
        BY <1>5, <3>2 DEF Truthful
      <3>4. v.pc \in {"idle", "push", "find"}
        BY <1>7
      <3> QED BY <1>5, <3>1, <3>3, <3>4, JobFreshKept DEF Sound, Correcting
    <2> QED BY <1>1, <1>7, <2>1, StepSequential
  <1> QED BY <1>10, <1>11, <1>12, <1>13 DEF Inv

---------------------------------------------------------------------------
(* Steps that write the preview                                            *)

\* A row of previews that points to a deployment of D.
PreviewRow(D) == [status : PreviewStatus, head : Commit, deployment : D, updatedAt : Nat]

\* The columns mark_closed and update_status_and_deployment set.
Marked(p, s, t) == [p EXCEPT !.status = s, !.updatedAt = t]
Pointed(p, s, i, t) == [p EXCEPT !.status = s, !.deployment = i, !.updatedAt = t]

\* A row whose status and time are set keeps its commit and deployment.
LEMMA MarkedFacts ==
  ASSUME NEW D, NEW p \in PreviewRow(D), NEW s \in PreviewStatus, NEW t \in Nat
  PROVE  /\ Marked(p, s, t) \in PreviewRow(D)
         /\ Marked(p, s, t).status = s /\ Marked(p, s, t).updatedAt = t
         /\ Marked(p, s, t).head = p.head /\ Marked(p, s, t).deployment = p.deployment
  <1>1. Marked(p, s, t) \in PreviewRow(D)
    BY Zenon DEF Marked, PreviewRow
  <1> QED BY <1>1 DEF Marked, PreviewRow

\* One whose deployment is set too keeps its commit.
LEMMA PointedFacts ==
  ASSUME NEW D, NEW p \in PreviewRow(D), NEW s \in PreviewStatus, NEW i \in D, NEW t \in Nat
  PROVE  /\ Pointed(p, s, i, t) \in PreviewRow(D)
         /\ Pointed(p, s, i, t).status = s /\ Pointed(p, s, i, t).updatedAt = t
         /\ Pointed(p, s, i, t).head = p.head /\ Pointed(p, s, i, t).deployment = i
  <1>1. Pointed(p, s, i, t) \in PreviewRow(D)
    BY Zenon DEF Pointed, PreviewRow
  <1> QED BY <1>1 DEF Pointed, PreviewRow

\* The row of a preview that exists.
LEMMA PreviewIs ==
  ASSUME Typed, preview # NoPreview
  PROVE  /\ preview \in PreviewRow(DOMAIN deployment)
         /\ Queued(preview.deployment) /\ preview.deployment[1] \in Delivery
  BY DEF Typed, TypeOK, Sources, PreviewRow

\* A step that writes row w.
LEMMA PreviewStep ==
  ASSUME Inv, NEW a \in Actor, NEW v, Become(a, v), CountsType',
         UNCHANGED <<received, delivery, event, deployment, job, failures, overlaps>>,
         NEW w \in PreviewRow(DOMAIN deployment), preview' = w,
         Queued(w.deployment), w.deployment[1] \in Delivery, Knows(v)',
         v.pc \in Carrying => actor[a].pc \in Carrying /\ v.delivery = actor[a].delivery,
         v.pc \notin Owed, actor[a].pc \notin {"store", "push", "pushEnqueue"}, ~ At(a, "idle"),
         Calm' /\ Sound(actor[a]) => Sound(v)'
  PROVE  Inv'
  <1>1. RowsType /\ Sources
    BY TypeParts DEF Typed, Inv
  <1>2. w \in [status : PreviewStatus, head : Commit, deployment : DOMAIN deployment, updatedAt : Nat]
    BY DEF PreviewRow
  <1>3. w # NoPreview
    BY PreviewsAssumption DEF PreviewRow, NoPreview
  <1>4. RowsType'
    BY <1>1, <1>2 DEF RowsType, PreviewType, DeliveriesType, DeploymentType, JobType
  <1>5. Sources'
    BY <1>1 DEF Sources, Queued
  <1>6. Grows
    BY <1>3 DEF Grows
  <1>7. DOMAIN deployment' = DOMAIN deployment
    OBVIOUS
  <1>8. Calm' /\ Sound(actor[a]) /\ JobFresh => Sound(v)' /\ JobFresh'
    BY JobFreshKept
  <1> QED BY <1>4, <1>5, <1>6, <1>7, <1>8, PlainStep

\* The preview of a pull request that was closed.
LEMMA CloseStep ==
  ASSUME Inv, NEW a \in Actor, Close(a)
  PROVE  Inv'
  <1>1. Typed /\ actor[a].pc = "close" /\ ~ At(a, "idle")
    BY DEF Inv, Close, At
  <1>2. PICK l \in Local : l = actor[a] /\ Knows(l) /\ l.pc = "close"
    BY <1>1, FieldsOf
  <1>3. CountsType'
    BY <1>1, CountsApply DEF Close
  <1>4. preview # NoPreview /\ l.at \in Nat /\ l.pc \in Carrying
    BY <1>2 DEF Knows, WithPreview, Local, Carrying
  <1>D. PICK D : D = DOMAIN deployment
    OBVIOUS
  <1>5. PICK p \in PreviewRow(D), s \in PreviewStatus, t \in Nat :
          /\ p = preview /\ s = "closed" /\ t = l.at
          /\ Queued(p.deployment) /\ p.deployment[1] \in Delivery
    BY <1>1, <1>D, <1>4, PreviewIs DEF PreviewStatus
  <1>6. PICK w \in PreviewRow(D) : /\ w = Marked(p, s, t) /\ w.status = s /\ w.updatedAt = t
                                   /\ w.head = p.head /\ w.deployment = p.deployment
    BY MarkedFacts
  <1>7. preview' = w
    BY <1>2, <1>5, <1>6 DEF Close, Marked
  <1>8. UNCHANGED <<received, delivery, event, deployment, job, failures, overlaps>>
    BY DEF Close
  <1>9. PICK v \in Local : Become(a, v) /\ v.pc = "closeCancel" /\ SameBut(v, l)
    <2>1. PICK pc \in Pcs : pc = "closeCancel"
      BY DEF Pcs
    <2>2. Goto(a, pc)
      BY <2>1 DEF Close
    <2> QED BY <1>1, <1>2, <2>1, <2>2, GotoFacts
  <1>10. w # NoPreview
    BY PreviewsAssumption DEF PreviewRow, NoPreview
  <1>11. Knows(v)'
    BY <1>2, <1>3, <1>4, <1>7, <1>8, <1>9, <1>10
       DEF Knows, Carrying, WithPreview, WithDeployment, SameBut, Local
  <1>12. Sound(l) => Sound(v)'
    <2> SUFFICES ASSUME Sound(l) PROVE Sound(v)'
      OBVIOUS
    <2>3. Truthful'
      BY <1>5, <1>6, <1>7 DEF Truthful
    <2> QED BY <1>8, <1>9, <2>3 DEF Sound, Correcting
  <1>13. v.pc \notin Owed /\ v.delivery = l.delivery
    BY <1>9 DEF Owed, SameBut
  <1> QED BY <1>1, <1>2, <1>3, <1>4, <1>5, <1>6, <1>7, <1>8, <1>9, <1>11, <1>12, <1>13, <1>D, PreviewStep

\* The preview that teardown_preview closes.
LEMMA StopCloseStep ==
  ASSUME Inv, NEW a \in Actor, StopClose(a)
  PROVE  Inv'
  <1>1. Typed /\ actor[a].pc = "stopClose" /\ ~ At(a, "idle")
    BY DEF Inv, StopClose, At
  <1>2. PICK l \in Local : l = actor[a] /\ Knows(l) /\ l.pc = "stopClose"
    BY <1>1, FieldsOf
  <1>3. CountsType'
    BY <1>1, CountsApply DEF StopClose
  <1>4. preview # NoPreview /\ l.at \in Nat
    BY <1>2 DEF Knows, WithPreview, Local
  <1>D. PICK D : D = DOMAIN deployment
    OBVIOUS
  <1>5. PICK p \in PreviewRow(D), s \in PreviewStatus, t \in Nat :
          /\ p = preview /\ s = "closed" /\ t = l.at
          /\ Queued(p.deployment) /\ p.deployment[1] \in Delivery
    BY <1>1, <1>D, <1>4, PreviewIs DEF PreviewStatus
  <1>6. PICK w \in PreviewRow(D) : /\ w = Marked(p, s, t) /\ w.status = s /\ w.updatedAt = t
                                   /\ w.head = p.head /\ w.deployment = p.deployment
    BY MarkedFacts
  <1>7. preview' = w
    BY <1>2, <1>5, <1>6 DEF StopClose, Marked
  <1>8. /\ UNCHANGED <<received, delivery, event, deployment, job, failures, overlaps>>
        /\ Become(a, Idle)
    BY DEF StopClose
  <1>10. Sound(l) => Sound(Idle)'
    <2> SUFFICES ASSUME Sound(l) PROVE Sound(Idle)'
      OBVIOUS
    <2>3. Truthful'
      BY <1>5, <1>6, <1>7 DEF Truthful
    <2> QED BY <2>3, IdleIs DEF Sound, Correcting
  <1>11. Knows(Idle)' /\ Idle.pc \notin Owed /\ Idle.pc \notin Carrying
    BY <1>3, IdleKnows, IdleIs DEF Owed, Carrying
  <1> QED BY <1>1, <1>2, <1>3, <1>4, <1>5, <1>6, <1>7, <1>8, <1>10, <1>11, <1>D, PreviewStep

\* A deployment that runs is the preview's, and the preview is ready.
LEMMA MarkReadyStep ==
  ASSUME Inv, NEW a \in Actor, MarkReady(a)
  PROVE  Inv'
  <1>1. Typed /\ actor[a].pc = "ready" /\ ~ At(a, "idle")
    BY DEF Inv, MarkReady, At
  <1>2. PICK l \in Local : l = actor[a] /\ Knows(l) /\ l.pc = "ready"
    BY <1>1, FieldsOf
  <1>3. CountsType' /\ clock' \in Nat
    BY <1>1, CountsKept DEF MarkReady, CountsType
  <1>s. PICK s \in Skew : preview' = [preview EXCEPT !.status = "ready", !.deployment = actor[a].deployment,
                                                    !.updatedAt = Reading(s)]
    BY DEF MarkReady
  <1>4. /\ preview # NoPreview /\ l.deployment \in DOMAIN deployment
        /\ Queued(l.deployment) /\ l.deployment[1] \in Delivery
    BY <1>2 DEF Knows, WithPreview, WithDeployment
  <1>D. PICK D : D = DOMAIN deployment
    OBVIOUS
  <1>5. PICK p \in PreviewRow(D), st \in PreviewStatus, i \in D, t \in Nat :
          p = preview /\ st = "ready" /\ i = l.deployment /\ t = Reading(s)
    BY <1>1, <1>3, <1>4, <1>D, PreviewIs, ReadingIs DEF PreviewStatus
  <1>6. PICK w \in PreviewRow(D) : /\ w = Pointed(p, st, i, t) /\ w.status = st /\ w.updatedAt = t
                                   /\ w.head = p.head /\ w.deployment = i
    BY PointedFacts
  <1>7. preview' = w
    BY <1>s, <1>2, <1>5, <1>6 DEF Pointed
  <1>8. /\ UNCHANGED <<received, delivery, event, deployment, job, failures, overlaps>>
        /\ Become(a, Idle)
    BY DEF MarkReady
  <1>9. Sound(l) => Sound(Idle)'
    <2> SUFFICES ASSUME Sound(l) PROVE Sound(Idle)'
      OBVIOUS
    <2>3. Truthful'
      <3>1. deployment[i].status = "running"
        BY <1>2, <1>5 DEF Sound
      <3> QED BY <1>5, <1>6, <1>7, <1>8, <3>1 DEF Truthful
    <2> QED BY <2>3, IdleIs DEF Sound, Correcting
  <1>10. Knows(Idle)' /\ Idle.pc \notin Owed /\ Idle.pc \notin Carrying
    BY <1>3, IdleKnows, IdleIs DEF Owed, Carrying
  <1> QED BY <1>1, <1>2, <1>3, <1>4, <1>5, <1>6, <1>7, <1>8, <1>9, <1>10, <1>D, PreviewStep

\* The preview whose deployment failed is marked so.
LEMMA MarkFailedStep ==
  ASSUME Inv, NEW a \in Actor, MarkFailed(a)
  PROVE  Inv'
  <1>1. Typed /\ actor[a].pc = "failed" /\ ~ At(a, "idle")
    BY DEF Inv, MarkFailed, At
  <1>2. PICK l \in Local : l = actor[a] /\ Knows(l) /\ l.pc = "failed"
    BY <1>1, FieldsOf
  <1>3. CountsType' /\ clock' \in Nat
    BY <1>1, CountsKept DEF MarkFailed, CountsType
  <1>s. PICK s \in Skew : preview' = [preview EXCEPT !.status = "failed", !.updatedAt = Reading(s)]
    BY DEF MarkFailed
  <1>4. preview # NoPreview
    BY <1>2 DEF Knows, WithPreview
  <1>D. PICK D : D = DOMAIN deployment
    OBVIOUS
  <1>5. PICK p \in PreviewRow(D), st \in PreviewStatus, t \in Nat :
          /\ p = preview /\ st = "failed" /\ t = Reading(s)
          /\ Queued(p.deployment) /\ p.deployment[1] \in Delivery
    BY <1>1, <1>3, <1>4, <1>D, PreviewIs, ReadingIs DEF PreviewStatus
  <1>6. PICK w \in PreviewRow(D) : /\ w = Marked(p, st, t) /\ w.status = st /\ w.updatedAt = t
                                   /\ w.head = p.head /\ w.deployment = p.deployment
    BY MarkedFacts
  <1>7. preview' = w
    BY <1>s, <1>2, <1>5, <1>6 DEF Marked
  <1>8. /\ UNCHANGED <<received, delivery, event, deployment, job, failures, overlaps>>
        /\ Become(a, Idle)
    BY DEF MarkFailed
  <1>9. Sound(l) => Sound(Idle)'
    <2> SUFFICES ASSUME Sound(l) PROVE Sound(Idle)'
      OBVIOUS
    <2>3. Truthful'
      <3>1. deployment[p.deployment].status = "failed"
        BY <1>2, <1>5 DEF Sound
      <3> QED BY <1>5, <1>6, <1>7, <1>8, <3>1 DEF Truthful
    <2> QED BY <2>3, IdleIs DEF Sound, Correcting
  <1>10. Knows(Idle)' /\ Idle.pc \notin Owed /\ Idle.pc \notin Carrying
    BY <1>3, IdleKnows, IdleIs DEF Owed, Carrying
  <1> QED BY <1>1, <1>2, <1>3, <1>4, <1>5, <1>6, <1>7, <1>8, <1>9, <1>10, <1>D, PreviewStep

\* The preview moves to the commit of the event, whose build is queued.
LEMMA UpsertStep ==
  ASSUME Inv, NEW a \in Actor, Upsert(a)
  PROVE  Inv'
  <1>1. Typed /\ actor[a].pc = "upsert" /\ ~ At(a, "idle")
    BY DEF Inv, Upsert, At
  <1>2. PICK l \in Local : l = actor[a] /\ Knows(l) /\ l.pc = "upsert"
    BY <1>1, FieldsOf
  <1>3. CountsType' /\ clock' \in Nat
    BY <1>1, CountsApply DEF Upsert, CountsType
  <1>s. PICK s \in Skew : preview' = [status |-> "building", head |-> Sha(actor[a].delivery),
                                      deployment |-> actor[a].deployment, updatedAt |-> Reading(s)]
    BY DEF Upsert
  <1>4. /\ l.delivery \in Delivery /\ l.deployment \in DOMAIN deployment
        /\ Queued(l.deployment) /\ l.deployment[1] \in Delivery
    BY <1>1, <1>2 DEF Knows, WithDeployment, Carrying, Typed, TypeOK
  <1>D. PICK D : D = DOMAIN deployment
    OBVIOUS
  <1>5. PICK h \in Commit, i \in D, t \in Nat : h = Sha(l.delivery) /\ i = l.deployment /\ t = Reading(s)
    BY <1>3, <1>4, <1>D, PreviewsAssumption, ReadingIs DEF Sha
  <1>6. PICK w \in PreviewRow(D) : /\ w = [status |-> "building", head |-> h, deployment |-> i, updatedAt |-> t]
                                   /\ w.status = "building" /\ w.head = h /\ w.deployment = i /\ w.updatedAt = t
    <2>1. [status |-> "building", head |-> h, deployment |-> i, updatedAt |-> t] \in PreviewRow(D)
      BY DEF PreviewRow, PreviewStatus
    <2>2. PICK w : w = [status |-> "building", head |-> h, deployment |-> i, updatedAt |-> t]
      OBVIOUS
    <2> QED BY <2>1, <2>2
  <1>7. preview' = w
    BY <1>s, <1>2, <1>5, <1>6
  <1>8. /\ UNCHANGED <<received, delivery, event, deployment, job, failures, overlaps>>
        /\ Become(a, Idle)
    BY DEF Upsert
  <1>9. Sound(l) => Sound(Idle)'
    <2> SUFFICES ASSUME Sound(l) PROVE Sound(Idle)'
      OBVIOUS
    <2>3. Truthful'
      BY <1>5, <1>6, <1>7 DEF Truthful
    <2> QED BY <2>3, IdleIs DEF Sound, Correcting
  <1>10. Knows(Idle)' /\ Idle.pc \notin Owed /\ Idle.pc \notin Carrying
    BY <1>3, IdleKnows, IdleIs DEF Owed, Carrying
  <1> QED BY <1>1, <1>2, <1>3, <1>4, <1>5, <1>6, <1>7, <1>8, <1>9, <1>10, <1>D, PreviewStep

---------------------------------------------------------------------------
(* Steps that write jobs                                                   *)

\* Such a step, but for that which enqueues the job of a push.
LEMMA JobStep ==
  ASSUME Inv, NEW a \in Actor, NEW v, Become(a, v), CountsType',
         UNCHANGED <<received, delivery, event, preview, deployment, failures, overlaps>>,
         JobType', DOMAIN job \subseteq DOMAIN job', Knows(v)',
         v.pc \in Carrying => actor[a].pc \in Carrying /\ v.delivery = actor[a].delivery,
         v.pc \notin Owed, actor[a].pc \notin {"store", "push", "pushEnqueue"}, ~ At(a, "idle"),
         Calm' /\ Sound(actor[a]) /\ JobFresh => Sound(v) /\ JobFresh'
  PROVE  Inv'
  <1>1. RowsType /\ Sources
    BY TypeParts DEF Typed, Inv
  <1>2. RowsType'
    <2>1. PreviewType'
      BY <1>1 DEF PreviewType, RowsType
    <2> QED BY <1>1, <2>1 DEF RowsType, DeliveriesType, DeploymentType
  <1>3. Sources'
    BY <1>1 DEF Sources, Queued
  <1>4. Grows
    BY DEF Grows
  <1>5. DOMAIN deployment' = DOMAIN deployment
    OBVIOUS
  <1>6. Calm' /\ Sound(actor[a]) /\ JobFresh => Sound(v)' /\ JobFresh'
    BY SoundKept
  <1> QED BY <1>2, <1>3, <1>4, <1>5, <1>6, PlainStep

\* What cancelling does to the jobs.
LEMMA CancelFacts ==
  ASSUME Typed, NEW id, CancelJob(id), UNCHANGED deployment
  PROVE  /\ DOMAIN job' = DOMAIN job /\ JobType' /\ (JobFresh => JobFresh')
  <1>1. DOMAIN job' = DOMAIN job
    BY DEF CancelJob
  <1>2. \A i \in DOMAIN job : job'[i] = job[i] \/ job'[i] = "cancelled"
    BY DEF CancelJob
  <1>3. JobType
    BY TypeParts DEF Typed, RowsType
  <1>4. JobType'
    BY <1>1, <1>2, <1>3 DEF JobType
  <1>5. JobFresh => JobFresh'
    BY <1>1, <1>2 DEF JobFresh
  <1> QED BY <1>1, <1>4, <1>5

\* The close of a pull request cancels.
LEMMA CloseCancelStep ==
  ASSUME Inv, NEW a \in Actor, CloseCancel(a)
  PROVE  Inv'
  <1>1. Typed /\ actor[a].pc = "closeCancel" /\ ~ At(a, "idle")
    BY DEF Inv, CloseCancel, At
  <1>2. CountsType'
    BY <1>1, CountsKept DEF CloseCancel
  <1>3. /\ UNCHANGED <<received, delivery, event, preview, deployment, failures, overlaps>>
        /\ Become(a, Idle) /\ CancelJob(DeploymentId(actor[a].deployment))
    BY DEF CloseCancel
  <1>4. PICK id : id = DeploymentId(actor[a].deployment)
    OBVIOUS
  <1>5. DOMAIN job \subseteq DOMAIN job' /\ JobType' /\ (JobFresh => JobFresh')
    <2>1. CancelJob(id)
      BY <1>3, <1>4
    <2> QED BY <1>1, <1>3, <2>1, CancelFacts
  <1>6. Sound(actor[a]) => Sound(Idle)
    BY <1>1, IdleIs DEF Sound, Correcting
  <1>7. Knows(Idle)' /\ Idle.pc \notin Owed /\ Idle.pc \notin Carrying
    BY <1>2, IdleKnows, IdleIs DEF Owed, Carrying
  <1> QED BY <1>1, <1>2, <1>3, <1>5, <1>6, <1>7, JobStep

\* So does a request to stop the preview.
LEMMA StopCancelStep ==
  ASSUME Inv, NEW a \in Actor, StopCancel(a)
  PROVE  Inv'
  <1>1. Typed /\ actor[a].pc = "stopCancel" /\ ~ At(a, "idle")
    BY DEF Inv, StopCancel, At
  <1>2. PICK l \in Local : l = actor[a] /\ Knows(l) /\ l.pc = "stopCancel"
    BY <1>1, FieldsOf
  <1>3. CountsType'
    BY <1>1, CountsKept DEF StopCancel
  <1>4. /\ UNCHANGED <<received, delivery, event, preview, deployment, failures, overlaps>>
        /\ Goto(a, "stopDeployment") /\ CancelJob(DeploymentId(l.deployment))
    BY <1>2 DEF StopCancel
  <1>5. PICK id : id = DeploymentId(l.deployment)
    OBVIOUS
  <1>6. DOMAIN job \subseteq DOMAIN job' /\ JobType' /\ (JobFresh => JobFresh')
    <2>1. CancelJob(id)
      BY <1>4, <1>5
    <2> QED BY <1>1, <1>4, <2>1, CancelFacts
  <1>7. PICK pc \in Pcs : pc = "stopDeployment"
    BY DEF Pcs
  <1>8. PICK v \in Local : Become(a, v) /\ v.pc = pc /\ SameBut(v, l)
    BY <1>1, <1>2, <1>4, <1>7, GotoFacts
  <1>9. Knows(v)'
    BY <1>2, <1>3, <1>4, <1>7, <1>8 DEF Knows, Carrying, WithPreview, WithDeployment, SameBut, Local
  <1>10. Sound(l) => Sound(v)
    BY <1>2, <1>7, <1>8 DEF Sound, Correcting, SameBut
  <1>11. v.pc \notin Carrying /\ v.pc \notin Owed
    BY <1>7, <1>8 DEF Carrying, Owed
  <1> QED BY <1>1, <1>2, <1>3, <1>4, <1>6, <1>8, <1>9, <1>10, <1>11, JobStep

\* What enqueueing does to the jobs.
LEMMA EnqueueFacts ==
  ASSUME Typed, NEW i \in DOMAIN deployment, EnqueueJob(i), UNCHANGED deployment
  PROVE  /\ DOMAIN job' = IF HasQueue THEN DOMAIN job \cup {i} ELSE DOMAIN job
         /\ JobType'
         /\ JobFresh /\ deployment[i].status = "queued" => JobFresh'
  <1>2. JobType
    BY TypeParts DEF Typed, RowsType
  <1>n. CASE ~ HasQueue
    BY <1>n, <1>2 DEF EnqueueJob, JobType, JobFresh
  <1>q. CASE HasQueue
    <2>1. /\ DOMAIN job' = DOMAIN job \cup {i} /\ job'[i] = "queued"
          /\ \A j \in DOMAIN job : job'[j] = IF j = i THEN "queued" ELSE job[j]
      BY <1>q DEF EnqueueJob, WithRow
    <2>2. JobType'
      BY <2>1, <1>2 DEF JobType
    <2>3. JobFresh /\ deployment[i].status = "queued" => JobFresh'
      BY <2>1 DEF JobFresh
    <2> QED BY <1>q, <2>1, <2>2, <2>3
  <1> QED BY <1>n, <1>q

\* The build of a preview is queued before the preview is written.
LEMMA PreviewEnqueueStep ==
  ASSUME Inv, NEW a \in Actor, PreviewEnqueue(a)
  PROVE  Inv'
  <1>1. Typed /\ actor[a].pc = "enqueue" /\ ~ At(a, "idle")
    BY DEF Inv, PreviewEnqueue, At
  <1>2. PICK l \in Local : l = actor[a] /\ Knows(l) /\ l.pc = "enqueue"
    BY <1>1, FieldsOf
  <1>3. CountsType'
    BY <1>1, CountsKept DEF PreviewEnqueue
  <1>4. PICK i \in DOMAIN deployment : i = l.deployment
    BY <1>2 DEF Knows, WithDeployment
  <1>5. /\ UNCHANGED <<received, delivery, event, preview, deployment, failures, overlaps>>
        /\ Goto(a, "upsert") /\ EnqueueJob(i)
    BY <1>2, <1>4 DEF PreviewEnqueue
  <1>6. /\ DOMAIN job' = IF HasQueue THEN DOMAIN job \cup {i} ELSE DOMAIN job
        /\ JobType'
        /\ JobFresh /\ deployment[i].status = "queued" => JobFresh'
    BY <1>1, <1>5, EnqueueFacts
  <1>7. PICK pc \in Pcs : pc = "upsert"
    BY DEF Pcs
  <1>8. PICK v \in Local : Become(a, v) /\ v.pc = pc /\ SameBut(v, l)
    BY <1>1, <1>2, <1>5, <1>7, GotoFacts
  <1>9. Knows(v)'
    BY <1>2, <1>3, <1>4, <1>5, <1>6, <1>7, <1>8
       DEF Knows, Carrying, WithPreview, WithDeployment, SameBut, Local, Queued
  <1>10. Sound(l) => Sound(v) /\ deployment[i].status = "queued"
    BY <1>2, <1>4, <1>7, <1>8 DEF Sound, Correcting, SameBut
  <1>11. v.pc \notin Owed /\ l.pc \in Carrying /\ v.delivery = l.delivery
    BY <1>2, <1>7, <1>8 DEF Carrying, Owed, SameBut
  <1>12. DOMAIN job \subseteq DOMAIN job' /\ actor[a].pc \notin {"store", "push", "pushEnqueue"}
    BY <1>1, <1>6
  <1>13. Sound(actor[a]) /\ JobFresh => Sound(v) /\ JobFresh'
    BY <1>2, <1>6, <1>10
  <1> QED BY <1>1, <1>2, <1>3, <1>5, <1>6, <1>8, <1>9, <1>11, <1>12, <1>13, JobStep

\* A promotion ends with a job.
LEMMA PromoteEnqueueStep ==
  ASSUME Inv, NEW a \in Actor, PromoteEnqueue(a)
  PROVE  Inv'
  <1>1. Typed /\ actor[a].pc = "promoteEnqueue" /\ ~ At(a, "idle")
    BY DEF Inv, PromoteEnqueue, At
  <1>2. PICK l \in Local : l = actor[a] /\ Knows(l) /\ l.pc = "promoteEnqueue"
    BY <1>1, FieldsOf
  <1>3. CountsType'
    BY <1>1, CountsKept DEF PromoteEnqueue
  <1>4. PICK i \in DOMAIN deployment : i = l.deployment
    BY <1>2 DEF Knows, WithDeployment
  <1>5. /\ UNCHANGED <<received, delivery, event, preview, deployment, failures, overlaps>>
        /\ Become(a, Idle) /\ EnqueueJob(i)
    BY <1>2, <1>4 DEF PromoteEnqueue
  <1>6. /\ DOMAIN job' = IF HasQueue THEN DOMAIN job \cup {i} ELSE DOMAIN job
        /\ JobType'
        /\ JobFresh /\ deployment[i].status = "queued" => JobFresh'
    BY <1>1, <1>5, EnqueueFacts
  <1>7. Sound(l) => Sound(Idle) /\ deployment[i].status = "queued"
    BY <1>2, <1>4, IdleIs DEF Sound, Correcting
  <1>8. Knows(Idle)' /\ Idle.pc \notin Owed /\ Idle.pc \notin Carrying
    BY <1>3, IdleKnows, IdleIs DEF Owed, Carrying
  <1>9. DOMAIN job \subseteq DOMAIN job' /\ actor[a].pc \notin {"store", "push", "pushEnqueue"}
    BY <1>1, <1>6
  <1>10. Sound(actor[a]) /\ JobFresh => Sound(Idle) /\ JobFresh'
    BY <1>2, <1>6, <1>7
  <1> QED BY <1>1, <1>3, <1>5, <1>6, <1>8, <1>9, <1>10, JobStep

\* A push ends with a job for its deployment.
LEMMA PushEnqueueStep ==
  ASSUME Inv, NEW a \in Actor, PushEnqueue(a)
  PROVE  Inv'
  <1>1. Typed /\ Once /\ Pushed /\ Sequential /\ actor[a].pc = "pushEnqueue" /\ ~ At(a, "idle")
    BY DEF Inv, PushEnqueue, At
  <1>2. PICK l \in Local : l = actor[a] /\ Knows(l) /\ l.pc = "pushEnqueue"
    BY <1>1, FieldsOf
  <1>3. CountsType'
    BY <1>1, CountsKept DEF PushEnqueue
  <1>4. PICK i \in DOMAIN deployment : i = l.deployment
    BY <1>2 DEF Knows, WithDeployment
  <1>5. /\ UNCHANGED <<received, delivery, event, preview, deployment, failures, overlaps>>
        /\ Become(a, Idle) /\ EnqueueJob(i)
    BY <1>2, <1>4 DEF PushEnqueue
  <1>6. /\ DOMAIN job' = IF HasQueue THEN DOMAIN job \cup {i} ELSE DOMAIN job
        /\ JobType'
        /\ JobFresh /\ deployment[i].status = "queued" => JobFresh'
    BY <1>1, <1>5, EnqueueFacts
  <1>7. RowsType' /\ Sources' /\ Grows
    <2>1. RowsType /\ Sources
      BY <1>1, TypeParts DEF Typed
    <2> QED BY <1>3, <1>5, <1>6, <2>1 DEF RowsType, PreviewType, DeliveriesType, DeploymentType,
          Sources, Grows, Queued
  <1>8. Knows(Idle)' /\ Idle.pc \notin Owed /\ Idle.pc \notin Carrying /\ Idle.pc = "idle"
    BY <1>3, IdleKnows, IdleIs DEF Owed, Carrying
  <1>9. Typed'
    BY <1>1, <1>5, <1>7, <1>8, StepTyped
  <1>10. Once'
    <2>1. DOMAIN deployment' = DOMAIN deployment
      BY <1>5
    <2> QED BY <1>1, <1>5, <1>8, <2>1, StepOnce
  <1>11. Pushed'
    <2> SUFFICES ASSUME failures = 0, HasQueue, NEW e \in delivery, Action(e) = "push"
                 PROVE  \/ \E j \in CausedBy(e)' : j \in DOMAIN job'
                        \/ \E b \in Actor : UnderWay(e, actor[b])'
      BY <1>5 DEF Pushed
    <2>1. CausedBy(e)' = CausedBy(e)
      BY <1>5 DEF CausedBy
    <2>2. \A b \in Actor : b # a => actor'[b] = actor[b]
      BY <1>1, <1>5 DEF Become, Typed, TypeOK
    <2>3. ASSUME NEW b \in Actor, UnderWay(e, actor[b])
          PROVE  UnderWay(e, actor[b])' \/ \E j \in CausedBy(e)' : j \in DOMAIN job'
      <3>1. CASE b = a
        BY <1>1, <1>2, <1>4, <1>6, <2>1, <2>3, <3>1 DEF UnderWay
      <3>2. CASE b # a
        BY <2>1, <2>2, <2>3, <3>2 DEF UnderWay
      <3> QED BY <3>1, <3>2
    <2>4. (\E j \in CausedBy(e) : j \in DOMAIN job) => \E j \in CausedBy(e)' : j \in DOMAIN job'
      BY <1>6, <2>1
    <2> QED BY <1>1, <2>3, <2>4 DEF Pushed
  <1>12. Sequential'
    <2>1. ASSUME Calm' PROVE (\A b \in Actor : b # a => At(b, "idle")) /\ JobFresh' /\ Sound(Idle)'
      <3>1. (\A b \in Actor : b # a => At(b, "idle")) /\ JobFresh /\ Sound(l)
        BY <1>1, <1>2, <1>5, <2>1, SoundBefore
      <3>2. Sound(Idle) /\ deployment[i].status = "queued"
        BY <1>2, <1>4, <3>1, IdleIs DEF Sound, Correcting
      <3> QED BY <1>5, <1>6, <3>1, <3>2, SoundKept
    <2> QED BY <1>1, <1>5, <2>1, StepSequential
  <1> QED BY <1>9, <1>10, <1>11, <1>12 DEF Inv

---------------------------------------------------------------------------
(* Steps that write deployments                                            *)

\* Deployment i gets another row.
LEMMA DeploymentStep ==
  ASSUME Inv, NEW a \in Actor, NEW v, Become(a, v), CountsType',
         UNCHANGED <<received, delivery, event, preview, failures>>,
         NEW i \in DOMAIN deployment, NEW u \in DeploymentRow,
         deployment' = [deployment EXCEPT ![i] = u],
         DOMAIN job' = DOMAIN job, \A j \in DOMAIN job : job'[j] \in {"queued", "built", "cancelled"},
         Knows(v)', v.pc \notin Carrying, v.pc \notin Owed,
         actor[a].pc \notin {"store", "push", "pushEnqueue"},
         Starts(a) \/ (~ At(a, "idle") /\ UNCHANGED overlaps),
         Calm' /\ Sound(actor[a]) /\ JobFresh => Sound(v)' /\ JobFresh'
  PROVE  Inv'
  <1>1. RowsType /\ Sources
    BY TypeParts DEF Typed, Inv
  <1>2. /\ DOMAIN deployment' = DOMAIN deployment
        /\ \A j \in DOMAIN deployment : deployment'[j] = IF j = i THEN u ELSE deployment[j]
    OBVIOUS
  <1>3. DeploymentType'
    BY <1>1, <1>2 DEF RowsType, DeploymentType
  <1>4. JobType'
    BY <1>1, <1>2 DEF RowsType, JobType
  <1>5. PreviewType'
    BY <1>1, <1>2 DEF PreviewType, RowsType
  <1>6. RowsType'
    BY <1>1, <1>3, <1>4, <1>5 DEF RowsType, DeliveriesType
  <1>7. Sources'
    BY <1>1, <1>2 DEF Sources, Queued
  <1>8. Grows
    BY <1>2 DEF Grows
  <1> QED BY <1>2, <1>6, <1>7, <1>8, PlainStep

\* The row of a deployment that runs.
LEMMA RunningFacts ==
  ASSUME NEW row \in DeploymentRow
  PROVE  Running(row) \in DeploymentRow /\ Running(row).status = "running"
  <1>1. row.commit \in Commit \cup {None}
    BY DEF DeploymentRow
  <1>2. Running(row) \in DeploymentRow
    BY <1>1, Zenon DEF Running, DeploymentRow
  <1> QED BY <1>2 DEF Running, DeploymentRow

\* The row of a deployment whose status alone changes.
LEMMA StatusFacts ==
  ASSUME NEW row \in DeploymentRow, NEW s \in {"queued", "running", "failed", "stopped"}
  PROVE  \E u \in DeploymentRow :
           u = [row EXCEPT !.status = s] /\ u.status = s
  <1>1. PICK u : u = [row EXCEPT !.status = s]
    OBVIOUS
  <1>2. u \in DeploymentRow
    BY <1>1, Zenon DEF DeploymentRow
  <1>3. u.status = s
    BY <1>1 DEF DeploymentRow
  <1> QED BY <1>1, <1>2, <1>3

\* A build succeeded: its deployment had no result before.
LEMMA RecordSuccessStep ==
  ASSUME Inv, NEW a \in Actor, NEW i \in DOMAIN job, RecordSuccess(a, i)
  PROVE  Inv'
  <1>1. Typed /\ actor[a].pc = "idle" /\ i \in DOMAIN deployment
    BY DEF Inv, RecordSuccess, Starts, At, Typed, TypeOK
  <1>2. CountsType'
    BY <1>1 DEF RecordSuccess, Starts, CountsType, Typed, TypeOK
  <1>3. PICK row \in DeploymentRow : row = deployment[i]
    BY <1>1 DEF Typed, TypeOK, DeploymentRow
  <1>4. PICK u \in DeploymentRow : u = Running(row) /\ u.status = "running"
    BY RunningFacts
  <1>5. /\ UNCHANGED <<received, delivery, event, preview, failures>>
        /\ deployment' = [deployment EXCEPT ![i] = u] /\ job' = [job EXCEPT ![i] = "built"]
        /\ preview # NoPreview /\ job[i] = "queued" /\ i[1] \in Delivery /\ Starts(a)
    BY <1>3, <1>4 DEF RecordSuccess, ForPreview
  <1>6. PICK pc \in Pcs : pc = "ready"
    BY DEF Pcs
  <1>7. PICK v \in Local : v = WithResult(pc, i) /\ v.pc = pc /\ v.deployment = i /\ v.at = 0
    BY <1>1, StartResult
  <1>8. Become(a, v)
    BY <1>6, <1>7 DEF RecordSuccess, WithResult
  <1>9. /\ DOMAIN deployment' = DOMAIN deployment /\ DOMAIN job' = DOMAIN job
        /\ \A j \in DOMAIN deployment : deployment'[j] = IF j = i THEN u ELSE deployment[j]
        /\ \A j \in DOMAIN job : job'[j] = IF j = i THEN "built" ELSE job[j]
    BY <1>5
  <1>10. \A j \in DOMAIN job : job'[j] \in {"queued", "built", "cancelled"}
    BY <1>1, <1>9 DEF Typed, TypeOK
  <1>12. Knows(v)'
    BY <1>1, <1>2, <1>5, <1>6, <1>7, <1>9 DEF Knows, Carrying, WithPreview, WithDeployment, Local, Queued
  <1>13. ASSUME Sound(actor[a]), JobFresh PROVE Sound(v)' /\ JobFresh'
    <2>1. Truthful
      BY <1>1, <1>13 DEF Sound, Correcting
    <2>2. deployment[i].status # "failed"
      BY <1>5, <1>13 DEF JobFresh
    <2>4. Truthful'
      <3>1. preview.deployment \in DOMAIN deployment
        BY <1>1, <1>5 DEF Typed, TypeOK
      <3> QED BY <1>4, <1>5, <1>9, <2>1, <2>2, <3>1 DEF Truthful
    <2>5. JobFresh'
      BY <1>1, <1>9, <1>13 DEF JobFresh, Typed, TypeOK
    <2>6. deployment'[v.deployment].status = "running"
      BY <1>1, <1>4, <1>7, <1>9
    <2>7. v.pc = "ready"
      BY <1>6, <1>7
    <2> QED BY <2>4, <2>5, <2>6, <2>7 DEF Sound, Correcting
  <1>14. v.pc \notin Carrying /\ v.pc \notin Owed
    BY <1>6, <1>7 DEF Carrying, Owed
  <1> QED BY <1>1, <1>2, <1>3, <1>4, <1>5, <1>8, <1>9, <1>10, <1>12, <1>13, <1>14, DeploymentStep

\* A build or the health check of what was built failed.
LEMMA RecordFailureStep ==
  ASSUME Inv, NEW a \in Actor, NEW i \in DOMAIN job, RecordFailure(a, i)
  PROVE  Inv'
  <1>1. Typed /\ actor[a].pc = "idle" /\ i \in DOMAIN deployment
    BY DEF Inv, RecordFailure, Starts, At, Typed, TypeOK
  <1>2. CountsType'
    BY <1>1 DEF RecordFailure, Starts, CountsType, Typed, TypeOK
  <1>3. PICK row \in DeploymentRow : row = deployment[i]
    BY <1>1 DEF Typed, TypeOK, DeploymentRow
  <1>s. PICK s \in {"queued", "running", "failed", "stopped"} : s = "failed"
    OBVIOUS
  <1>4. PICK u \in DeploymentRow :
          u = [row EXCEPT !.status = s] /\ u.status = s
    BY StatusFacts
  <1>5. /\ UNCHANGED <<received, delivery, event, preview, failures>>
        /\ deployment' = [deployment EXCEPT ![i] = u] /\ job' = [job EXCEPT ![i] = "built"]
        /\ preview # NoPreview /\ i[1] \in Delivery /\ Starts(a)
    BY <1>3, <1>4, <1>s DEF RecordFailure, ForPreview
  <1>6. PICK pc \in Pcs : pc = "failure"
    BY DEF Pcs
  <1>7. PICK v \in Local : v = WithResult(pc, i) /\ v.pc = pc /\ v.deployment = i /\ v.at = 0
    BY <1>1, StartResult
  <1>8. Become(a, v)
    BY <1>6, <1>7 DEF RecordFailure, WithResult
  <1>9. /\ DOMAIN deployment' = DOMAIN deployment /\ DOMAIN job' = DOMAIN job
        /\ \A j \in DOMAIN deployment : deployment'[j] = IF j = i THEN u ELSE deployment[j]
        /\ \A j \in DOMAIN job : job'[j] = IF j = i THEN "built" ELSE job[j]
    BY <1>5
  <1>10. \A j \in DOMAIN job : job'[j] \in {"queued", "built", "cancelled"}
    BY <1>1, <1>9 DEF Typed, TypeOK
  <1>11. Knows(v)'
    BY <1>1, <1>2, <1>5, <1>6, <1>7, <1>9 DEF Knows, Carrying, WithPreview, WithDeployment, Local, Queued
  <1>12. ASSUME Sound(actor[a]), JobFresh PROVE Sound(v)' /\ JobFresh'
    <2>1. Truthful
      BY <1>1, <1>12 DEF Sound, Correcting
    <2>3. preview.deployment # i => Truthful'
      <3>1. preview.deployment \in DOMAIN deployment
        BY <1>1, <1>5 DEF Typed, TypeOK
      <3> QED BY <1>5, <1>9, <2>1, <3>1 DEF Truthful
    <2>4. JobFresh'
      BY <1>1, <1>9, <1>12 DEF JobFresh, Typed, TypeOK
    <2>5. deployment'[v.deployment].status = "failed"
      BY <1>1, <1>4, <1>7, <1>9, <1>s
    <2>6. v.pc = "failure"
      BY <1>6, <1>7
    <2> QED BY <1>5, <1>7, <2>3, <2>4, <2>5, <2>6 DEF Sound, Correcting
  <1>13. v.pc \notin Carrying /\ v.pc \notin Owed
    BY <1>6, <1>7 DEF Carrying, Owed
  <1> QED BY <1>1, <1>2, <1>3, <1>4, <1>5, <1>8, <1>9, <1>10, <1>11, <1>12, <1>13, DeploymentStep, ZenonT(40)

\* The deployment of a preview that is stopped.
LEMMA StopDeploymentStep ==
  ASSUME Inv, NEW a \in Actor, StopDeployment(a)
  PROVE  Inv'
  <1>1. Typed /\ actor[a].pc = "stopDeployment" /\ ~ At(a, "idle")
    BY DEF Inv, StopDeployment, At
  <1>2. PICK l \in Local : l = actor[a] /\ Knows(l) /\ l.pc = "stopDeployment"
    BY <1>1, FieldsOf
  <1>3. CountsType'
    BY <1>1, CountsKept DEF StopDeployment
  <1>4. PICK i \in DOMAIN deployment : i = l.deployment
    BY <1>2 DEF Knows, WithDeployment
  <1>5. PICK row \in DeploymentRow : row = deployment[i]
    BY <1>1, <1>4 DEF Typed, TypeOK, DeploymentRow
  <1>s. PICK s \in {"queued", "running", "failed", "stopped"} : s = "stopped"
    OBVIOUS
  <1>6. PICK u \in DeploymentRow :
          u = [row EXCEPT !.status = s] /\ u.status = s
    BY StatusFacts
  <1>7. /\ UNCHANGED <<received, delivery, event, preview, job, failures, overlaps>>
        /\ deployment' = [deployment EXCEPT ![i] = u] /\ Goto(a, "stopClose")
    BY <1>2, <1>4, <1>5, <1>6, <1>s DEF StopDeployment
  <1>8. /\ DOMAIN deployment' = DOMAIN deployment
        /\ \A j \in DOMAIN deployment : deployment'[j] = IF j = i THEN u ELSE deployment[j]
    BY <1>7
  <1>9. PICK pc \in Pcs : pc = "stopClose"
    BY DEF Pcs
  <1>10. PICK v \in Local : Become(a, v) /\ v.pc = pc /\ SameBut(v, l)
    BY <1>1, <1>2, <1>7, <1>9, GotoFacts
  <1>11. Knows(v)'
    BY <1>2, <1>3, <1>7, <1>8, <1>9, <1>10 DEF Knows, Carrying, WithPreview, WithDeployment, SameBut, Local
  <1>12. \A j \in DOMAIN job : job'[j] \in {"queued", "built", "cancelled"}
    BY <1>1, <1>7 DEF Typed, TypeOK
  <1>13. ASSUME Sound(actor[a]), JobFresh PROVE Sound(v)' /\ JobFresh'
    <2>3. JobFresh'
      BY <1>1, <1>6, <1>7, <1>8, <1>13, <1>s DEF JobFresh, Typed, TypeOK
    <2> QED BY <1>9, <1>10, <2>3 DEF Sound, Correcting
  <1>14. v.pc \notin Carrying /\ v.pc \notin Owed /\ DOMAIN job' = DOMAIN job
    BY <1>7, <1>9, <1>10 DEF Carrying, Owed
  <1> QED BY <1>1, <1>2, <1>3, <1>5, <1>6, <1>7, <1>10, <1>11, <1>12, <1>13, <1>14, DeploymentStep

---------------------------------------------------------------------------
(* Steps that insert deployments                                           *)

\* What an insertion leaves: the table with one more row, and the operation with
\* its id.
Inserted(a, source, pc, i, v, row) ==
  /\ i[1] = source /\ row.status = "queued"
  /\ DOMAIN deployment' = DOMAIN deployment \cup {i}
  /\ deployment'[i] = row
  /\ \A j \in DOMAIN deployment : j # i => deployment'[j] = deployment[j]
  /\ Become(a, v) /\ v \in Local' /\ v.pc = pc /\ v.deployment = i
  /\ v.delivery = actor[a].delivery /\ v.at = actor[a].at

\* An insertion by operation a leaves that.
LEMMA InsertFacts ==
  ASSUME Typed, NEW a \in Actor, NEW source, NEW commit \in Commit,
         NEW pc \in Pcs,
         InsertDeployment(a, source, commit, pc)
  PROVE  \E i, v : \E row \in DeploymentRow :
           Inserted(a, source, pc, i, v, row)
  <1>1. PICK l \in Local : l = actor[a]
    BY FieldsOf
  <1>2. PICK i : i = NewId(source)
    OBVIOUS
  <1>3. i[1] = source
    BY <1>2 DEF NewId
  <1>4. l.image \in Commit \cup {None}
    BY <1>1 DEF Local
  <1>5. PICK row : row = [status |-> "queued", commit |-> commit, image |-> l.image]
    OBVIOUS
  <1>6. row \in DeploymentRow /\ row.status = "queued"
    BY <1>4, <1>5 DEF DeploymentRow
  <1>7. deployment' = WithRow(deployment, i, row) /\ Become(a, Moving(l, pc, i))
    BY <1>1, <1>2, <1>5 DEF InsertDeployment, Moving
  <1>8. /\ DOMAIN deployment' = DOMAIN deployment \cup {i}
        /\ deployment'[i] = row
        /\ \A j \in DOMAIN deployment : j # i => deployment'[j] = deployment[j]
    BY <1>7 DEF WithRow
  <1>9. l \in Local'
    BY <1>8 DEF Local
  <1>10. PICK v : v = Moving(l, pc, i)
    OBVIOUS
  <1>11. v \in Local'
    <2>1. i \in DOMAIN deployment'
      BY <1>8
    <2> QED BY <1>9, <1>10, <2>1, Zenon DEF Local, Pcs, Moving
  <1>12. v.pc = pc /\ v.deployment = i /\ v.delivery = l.delivery /\ v.at = l.at
    BY <1>10 DEF Moving, Local
  <1>13. Inserted(a, source, pc, i, v, row)
    BY <1>1, <1>3, <1>6, <1>7, <1>8, <1>10, <1>11, <1>12 DEF Inserted
  <1> QED BY <1>6, <1>13

\* A step that inserts deployment i, for a promotion or for a delivery that has none.
LEMMA InsertStep ==
  ASSUME Inv, NEW a \in Actor, NEW v, Become(a, v), CountsType',
         UNCHANGED <<received, delivery, event, preview, job, failures, overlaps>>,
         NEW i, NEW row \in DeploymentRow, row.status = "queued",
         DOMAIN deployment' = DOMAIN deployment \cup {i}, deployment'[i] = row,
         \A j \in DOMAIN deployment : j # i => deployment'[j] = deployment[j],
         Knows(v)', ~ At(a, "idle"), v.pc \notin Owed,
         \/ i[1] = None /\ v.pc \notin Carrying
         \/ actor[a].pc \in Owed /\ i[1] = actor[a].delivery /\ v.delivery = actor[a].delivery,
         Pushed', (Truthful => Truthful') /\ Sound(actor[a]) => Sound(v)'
  PROVE  Inv'
  <1>1. RowsType /\ Sources /\ Typed /\ Once /\ Sequential
    BY TypeParts DEF Typed, Inv
  <1>2. DeploymentType' /\ JobType' /\ PreviewType'
    <2>1. DeploymentType' /\ JobType'
      BY <1>1 DEF RowsType, DeploymentType, JobType
    <2>4. PreviewType'
      BY <1>1 DEF PreviewType, RowsType
    <2> QED BY <2>1, <2>4
  <1>3. RowsType'
    BY <1>1, <1>2 DEF RowsType, DeliveriesType
  <1>4. Sources'
    BY <1>1 DEF Sources, Queued
  <1>5. Grows
    BY DEF Grows
  <1>6. Typed'
    BY <1>1, <1>3, <1>4, <1>5, StepTyped
  <1>7. \A d : CausedBy(d)' = IF d = i[1] THEN CausedBy(d) \cup {i} ELSE CausedBy(d)
    BY DEF CausedBy
  <1>8. actor[a].pc \in Owed => /\ actor[a].pc \in Carrying /\ actor[a].delivery \in delivery
                               /\ CausedBy(actor[a].delivery) = {}
    <2>1. actor[a].pc \in Owed => actor[a].pc \in Carrying
      BY DEF Owed, Carrying
    <2> QED BY <1>1, <2>1 DEF Typed, Knows, Once
  <1>9. \A b \in Actor : actor'[b] = IF b = a THEN v ELSE actor[b]
    BY <1>1 DEF Become, Typed, TypeOK
  <1>10. None \notin Delivery /\ delivery \subseteq Delivery
    BY <1>1, PreviewsAssumption DEF RowsType, DeliveriesType
  <1>11. Once'
    <2>1. ASSUME NEW b \in Actor, NEW c \in Actor, actor'[b].pc \in Carrying, actor'[c].pc \in Carrying,
                 actor'[b].delivery = actor'[c].delivery
          PROVE  b = c
      <3>1. /\ actor[b].pc \in Carrying /\ actor[b].delivery = actor'[b].delivery
            /\ actor[c].pc \in Carrying /\ actor[c].delivery = actor'[c].delivery
        BY <1>8, <1>9, <2>1
      <3> QED BY <1>1, <2>1, <3>1 DEF Once
    <2>2. ASSUME NEW b \in Actor, actor'[b].pc \in Owed PROVE CausedBy(actor[b].delivery)' = {}
      <3>1. PICK d : d = actor[b].delivery
        OBVIOUS
      <3>2. b # a /\ actor'[b].delivery = d /\ actor[b].pc \in Owed
        BY <1>9, <2>2, <3>1
      <3>3. actor[b].pc \in Carrying
        BY <3>2 DEF Owed, Carrying
      <3>4. CausedBy(d) = {} /\ d \in delivery
        BY <1>1, <3>1, <3>2, <3>3 DEF Once, Typed, Knows
      <3>5. d # i[1]
        BY <1>1, <1>8, <1>10, <3>1, <3>2, <3>3, <3>4 DEF Once
      <3>6. CausedBy(d)' = {}
        BY <1>7, <3>4, <3>5
      <3> QED BY <3>2, <3>6 DEF CausedBy
    <2>3. ASSUME NEW d \in Delivery, d \notin delivery PROVE CausedBy(d)' = {}
      BY <1>1, <1>7, <1>8, <1>10, <2>3 DEF Once
    <2>4. ASSUME NEW d \in Delivery, NEW j \in CausedBy(d)', NEW k \in CausedBy(d)' PROVE j = k
      <3>1. CASE d = i[1]
        BY <1>7, <1>8, <1>10, <2>4, <3>1
      <3>2. CASE d # i[1]
        BY <1>1, <1>7, <2>4, <3>2 DEF Once
      <3> QED BY <3>1, <3>2
    <2> QED BY <2>1, <2>2, <2>3, <2>4 DEF Once
  <1>12. preview # NoPreview => preview.deployment # i /\ preview.deployment \in DOMAIN deployment
    <2>1. ASSUME preview # NoPreview PROVE preview.deployment \in DOMAIN deployment /\ preview.deployment[1] \in Delivery
      BY <1>1, <2>1 DEF RowsType, PreviewType, Sources
    <2>2. ASSUME preview # NoPreview, preview.deployment = i PROVE FALSE
      <3>1. i \in CausedBy(i[1])
        BY <2>1, <2>2 DEF CausedBy
      <3> QED BY <1>8, <1>10, <2>1, <2>2, <3>1
    <2> QED BY <2>1, <2>2
  <1>13. Truthful => Truthful'
    BY <1>12 DEF Truthful
  <1>14. JobFresh => JobFresh'
    BY <1>1 DEF JobFresh, RowsType, JobType
  <1>15. Calm' => (\A b \in Actor : b # a => At(b, "idle")) /\ JobFresh' /\ Sound(v)'
    BY <1>1, <1>13, <1>14, SoundBefore
  <1>16. Sequential'
    BY <1>1, <1>15, StepSequential
  <1> QED BY <1>6, <1>11, <1>16 DEF Inv

\* The insertion of a preview's deployment.
LEMMA PreviewInsertStep ==
  ASSUME Inv, NEW a \in Actor, PreviewInsert(a)
  PROVE  Inv'
  <1>1. Typed /\ Pushed /\ actor[a].pc = "insert" /\ ~ At(a, "idle")
    BY DEF Inv, PreviewInsert, At
  <1>2. PICK l \in Local : l = actor[a] /\ Knows(l) /\ l.pc = "insert"
    BY <1>1, FieldsOf
  <1>3. CountsType'
    BY <1>1, CountsKept DEF PreviewInsert
  <1>4. l.delivery \in Delivery /\ l.delivery \in delivery
    BY <1>1, <1>2 DEF Knows, Carrying, Typed, TypeOK
  <1>5. PICK d \in Delivery, pc \in Pcs, commit \in Commit :
          d = l.delivery /\ pc = "enqueue" /\ commit = Sha(l.delivery)
    BY <1>4, PreviewsAssumption DEF Pcs, Sha
  <1>6. /\ InsertDeployment(a, d, commit, pc)
        /\ UNCHANGED <<received, delivery, event, preview, job, failures, overlaps>>
    BY <1>2, <1>5 DEF PreviewInsert
  <1>7. PICK i, v : \E r \in DeploymentRow : Inserted(a, d, pc, i, v, r)
    BY <1>1, <1>6, InsertFacts
  <1>8. PICK row \in DeploymentRow : Inserted(a, d, pc, i, v, row)
    BY <1>7
  <1>9. Knows(v)'
    BY <1>2, <1>3, <1>4, <1>5, <1>6, <1>8 DEF Knows, Carrying, WithPreview, WithDeployment, Inserted
  <1>10. Pushed'
    <2>1. Grows
      BY <1>3, <1>6, <1>8 DEF Grows, Inserted
    <2> QED BY <1>1, <1>6, <1>8, <2>1, StepPushed DEF Inserted
  <1>11. ASSUME Truthful => Truthful', Sound(actor[a]) PROVE Sound(v)'
    <2>1. Truthful
      BY <1>2, <1>5, <1>11 DEF Sound, Correcting
    <2>2. v.pc = "enqueue" /\ v.delivery = d /\ deployment'[v.deployment].status = "queued"
      BY <1>2, <1>5, <1>8 DEF Inserted
    <2> QED BY <1>6, <1>11, <2>1, <2>2 DEF Sound, Correcting
  <1>12. /\ v.pc \notin Owed /\ actor[a].pc \in Owed /\ i[1] = actor[a].delivery
         /\ v.delivery = actor[a].delivery /\ i[1] \in Delivery
    BY <1>2, <1>5, <1>8 DEF Owed, Inserted
  <1>13. /\ DOMAIN deployment' = DOMAIN deployment \cup {i} /\ Become(a, v)
         /\ deployment'[i] = row /\ row.status = "queued"
         /\ \A j \in DOMAIN deployment : j # i => deployment'[j] = deployment[j]
    BY <1>8 DEF Inserted
  <1> QED BY <1>1, <1>3, <1>6, <1>8, <1>9, <1>10, <1>11, <1>12, <1>13, InsertStep

\* The insertion of the deployment of a promotion.
LEMMA PromoteInsertStep ==
  ASSUME Inv, NEW a \in Actor, PromoteInsert(a)
  PROVE  Inv'
  <1>1. Typed /\ Pushed /\ actor[a].pc = "promoteInsert" /\ ~ At(a, "idle")
    BY DEF Inv, PromoteInsert, At
  <1>2. PICK l \in Local : l = actor[a] /\ Knows(l) /\ l.pc = "promoteInsert"
    BY <1>1, FieldsOf
  <1>3. CountsType'
    BY <1>1, CountsKept DEF PromoteInsert
  <1>4. PICK d \in {None}, pc \in Pcs, commit \in Commit :
          d = None /\ pc = "promoteEnqueue" /\ commit = l.sha
    <2>1. l.sha \in Commit
      BY <1>2 DEF Knows
    <2> QED BY <2>1 DEF Pcs
  <1>5. /\ InsertDeployment(a, d, commit, pc)
        /\ UNCHANGED <<received, delivery, event, preview, job, failures, overlaps>>
    BY <1>2, <1>4 DEF PromoteInsert
  <1>6. PICK i, v : \E r \in DeploymentRow : Inserted(a, d, pc, i, v, r)
    BY <1>1, <1>5, InsertFacts
  <1>7. PICK row \in DeploymentRow : Inserted(a, d, pc, i, v, row)
    BY <1>6
  <1>8. Knows(v)'
    BY <1>2, <1>3, <1>4, <1>5, <1>7 DEF Knows, Carrying, WithPreview, WithDeployment, Inserted
  <1>9. Pushed'
    <2>1. Grows
      BY <1>3, <1>5, <1>7 DEF Grows, Inserted
    <2> QED BY <1>1, <1>5, <1>7, <2>1, StepPushed DEF Inserted
  <1>10. ASSUME Truthful => Truthful', Sound(actor[a]) PROVE Sound(v)'
    <2>1. Truthful
      BY <1>2, <1>10 DEF Sound, Correcting
    <2>2. v.pc = "promoteEnqueue" /\ deployment'[v.deployment].status = "queued"
      BY <1>2, <1>4, <1>7 DEF Inserted
    <2> QED BY <1>5, <1>10, <2>1, <2>2 DEF Sound, Correcting
  <1>11. v.pc \notin Owed /\ v.pc \notin Carrying /\ i[1] = None
    BY <1>4, <1>7 DEF Owed, Carrying, Inserted
  <1>12. /\ DOMAIN deployment' = DOMAIN deployment \cup {i} /\ Become(a, v)
         /\ deployment'[i] = row /\ row.status = "queued"
         /\ \A j \in DOMAIN deployment : j # i => deployment'[j] = deployment[j]
    BY <1>7 DEF Inserted
  <1> QED BY <1>1, <1>3, <1>5, <1>7, <1>8, <1>9, <1>10, <1>11, <1>12, InsertStep

\* The insertion of the deployment of a push, whose job comes next.
LEMMA PushInsertStep ==
  ASSUME Inv, NEW a \in Actor, PushInsert(a)
  PROVE  Inv'
  <1>1. Typed /\ Pushed /\ actor[a].pc = "push" /\ ~ At(a, "idle")
    BY DEF Inv, PushInsert, At
  <1>2. PICK l \in Local : l = actor[a] /\ Knows(l) /\ l.pc = "push"
    BY <1>1, FieldsOf
  <1>3. CountsType'
    BY <1>1, CountsKept DEF PushInsert
  <1>4. l.delivery \in Delivery /\ l.delivery \in delivery
    BY <1>1, <1>2 DEF Knows, Carrying, Typed, TypeOK
  <1>5. PICK d \in Delivery, pc \in Pcs, commit \in Commit :
          d = l.delivery /\ pc = "pushEnqueue" /\ commit = Sha(l.delivery)
    BY <1>4, PreviewsAssumption DEF Pcs, Sha
  <1>6. /\ InsertDeployment(a, d, commit, pc)
        /\ UNCHANGED <<received, delivery, event, preview, job, failures, overlaps>>
    BY <1>2, <1>5 DEF PushInsert
  <1>7. PICK i, v : \E r \in DeploymentRow : Inserted(a, d, pc, i, v, r)
    BY <1>1, <1>6, InsertFacts
  <1>8. PICK row \in DeploymentRow : Inserted(a, d, pc, i, v, row)
    BY <1>7
  <1>9. Knows(v)'
    BY <1>2, <1>3, <1>4, <1>5, <1>6, <1>8 DEF Knows, Carrying, WithPreview, WithDeployment, Inserted
  <1>10. Pushed'
    <2> SUFFICES ASSUME failures = 0, HasQueue, NEW e \in delivery, Action(e) = "push"
                 PROVE  \/ \E j \in CausedBy(e)' : j \in DOMAIN job'
                        \/ \E b \in Actor : UnderWay(e, actor[b])'
      BY <1>6 DEF Pushed
    <2>1. CausedBy(e) \subseteq CausedBy(e)' /\ i \in CausedBy(d)'
      BY <1>8 DEF CausedBy, Inserted
    <2>2. \A b \in Actor : actor'[b] = IF b = a THEN v ELSE actor[b]
      BY <1>1, <1>8 DEF Become, Typed, TypeOK, Inserted
    <2>3. ASSUME NEW b \in Actor, UnderWay(e, actor[b])
          PROVE  UnderWay(e, actor[b])'
      <3>1. CASE b = a
        <4>1. e = d
          BY <1>1, <1>2, <1>5, <2>3, <3>1 DEF UnderWay
        <4>2. actor'[b].pc = "pushEnqueue" /\ actor'[b].deployment \in CausedBy(e)'
          BY <1>5, <1>8, <2>1, <2>2, <3>1, <4>1 DEF Inserted
        <4> QED BY <4>2 DEF UnderWay
      <3>2. CASE b # a
        BY <2>1, <2>2, <2>3, <3>2 DEF UnderWay
      <3> QED BY <3>1, <3>2
    <2>4. (\E j \in CausedBy(e) : j \in DOMAIN job) => \E j \in CausedBy(e)' : j \in DOMAIN job'
      BY <1>6, <2>1
    <2> QED BY <1>1, <2>3, <2>4 DEF Pushed
  <1>11. ASSUME Truthful => Truthful', Sound(actor[a]) PROVE Sound(v)'
    <2>1. Truthful
      BY <1>2, <1>11 DEF Sound, Correcting
    <2>2. v.pc = "pushEnqueue" /\ deployment'[v.deployment].status = "queued"
      BY <1>2, <1>5, <1>8 DEF Inserted
    <2> QED BY <1>6, <1>11, <2>1, <2>2 DEF Sound, Correcting
  <1>12. /\ v.pc \notin Owed /\ actor[a].pc \in Owed /\ i[1] = actor[a].delivery
         /\ v.delivery = actor[a].delivery
    BY <1>2, <1>5, <1>8 DEF Owed, Inserted
  <1>13. /\ DOMAIN deployment' = DOMAIN deployment \cup {i} /\ Become(a, v)
         /\ deployment'[i] = row /\ row.status = "queued"
         /\ \A j \in DOMAIN deployment : j # i => deployment'[j] = deployment[j]
    BY <1>8 DEF Inserted
  <1> QED BY <1>1, <1>3, <1>6, <1>8, <1>9, <1>10, <1>11, <1>12, <1>13, InsertStep

---------------------------------------------------------------------------
(* The invariant                                                           *)

\* It holds at the start.
LEMMA InvInit == Init => Inv
  <1> SUFFICES ASSUME Init PROVE Inv
    OBVIOUS
  <1>1. /\ DOMAIN deployment = {} /\ DOMAIN job = {} /\ clock = 0 /\ repeats = 0 /\ requests = 0
        /\ results = 0 /\ failures = 0 /\ overlaps = 0 /\ received = {} /\ delivery = {} /\ event = {}
        /\ preview = NoPreview /\ applied = 0 /\ current = {}
    BY DEF Init
  <1>2. RowsType
    BY <1>1 DEF RowsType, CountsType, DeliveriesType, PreviewType, DeploymentType, JobType
  <1>3. \A a \in Actor : actor[a] = Idle
    BY DEF Init
  <1>4. actor \in [Actor -> Local]
    BY <1>3, IdleIs DEF Init
  <1>5. Knows(Idle)
    BY <1>2, IdleIs DEF Knows, Carrying, WithPreview, WithDeployment, RowsType, CountsType
  <1>6. Typed
    <2>1. Sources
      BY <1>1 DEF Sources, Queued
    <2> QED BY <1>2, <1>3, <1>4, <1>5, <2>1, TypeParts DEF Typed
  <1>7. \A a \in Actor : actor[a].pc = "idle"
    BY <1>3, IdleIs
  <1>8. Once
    <2>1. \A d : CausedBy(d) = {}
      BY <1>1 DEF CausedBy
    <2> QED BY <1>7, <2>1 DEF Once, Carrying, Owed
  <1>9. Pushed
    BY <1>1 DEF Pushed
  <1>10. Sequential
    <2>1. JobFresh
      BY <1>1 DEF JobFresh
    <2>2. Truthful
      BY <1>1 DEF Truthful
    <2>3. Sound(Idle)
      BY <2>2, IdleIs DEF Sound, Correcting
    <2> QED BY <1>7, <2>1, <2>3 DEF Sequential, At
  <1> QED BY <1>6, <1>8, <1>9, <1>10 DEF Inv

\* Every step keeps it.
LEMMA InvNext == ASSUME Inv, Next PROVE Inv'
  <1>1. PICK a \in Actor : Webhook(a) \/ BuildResult(a) \/ Request(a) \/ Interrupted(a)
    BY DEF Next
  <1>2. CASE Webhook(a)
    BY <1>2, ReceiveStep, RecordDeliveryStep, RecordEventStep, PushInsertStep, PushEnqueueStep,
       FindByPrStep, CloseStep, CloseCancelStep, PreviewInsertStep, PreviewEnqueueStep, UpsertStep
       DEF Webhook
  <1>3. CASE BuildResult(a)
    BY <1>3, RecordSuccessStep, RecordFailureStep, MarkReadyStep, FindByIdStep, MarkFailedStep
       DEF BuildResult
  <1>4. CASE Request(a)
    BY <1>4, StopStep, StopCancelStep, StopDeploymentStep, StopCloseStep, PromoteStep,
       PromoteImageStep, PromoteInsertStep, PromoteEnqueueStep DEF Request
  <1>5. CASE Interrupted(a)
    BY <1>5, InterruptedStep
  <1> QED BY <1>1, <1>2, <1>3, <1>4, <1>5

\* So does a stuttering step.
LEMMA InvStutter == ASSUME Inv, UNCHANGED vars PROVE Inv'
  <1>1. UNCHANGED <<clock, received, repeats, delivery, event, preview, deployment, job,
                    actor, requests, results, failures, overlaps, applied, current>>
    BY DEF vars
  <1>2. Local' = Local
    BY <1>1 DEF Local
  <1>3. Typed'
    BY <1>1, <1>2 DEF Inv, Typed, TypeOK, Sources, Knows, Queued
  <1>4. Once'
    BY <1>1 DEF Inv, Once, CausedBy
  <1>5. Pushed'
    BY <1>1 DEF Inv, Pushed, UnderWay, CausedBy
  <1>6. Sequential'
    <2>1. Calm' = Calm /\ JobFresh' = JobFresh /\ Quiet' = Quiet /\ Sound(Idle)' = Sound(Idle)
      BY <1>1 DEF Calm, JobFresh, Quiet, At, Sound, Correcting, Truthful
    <2>2. \A a \in Actor : At(a, "idle")' = At(a, "idle") /\ Sound(actor[a])' = Sound(actor[a])
      BY <1>1 DEF At, Sound, Correcting, Truthful
    <2> QED BY <2>1, <2>2 DEF Inv, Sequential
  <1> QED BY <1>3, <1>4, <1>5, <1>6 DEF Inv

\* Every reachable state satisfies it.
LEMMA InvHolds == Spec => []Inv
  <1>1. Inv /\ [Next]_vars => Inv'
    BY InvNext, InvStutter
  <1> QED BY <1>1, InvInit, PTL DEF Spec

---------------------------------------------------------------------------
(* The order of events                                                     *)

Upserting == {"insert", "enqueue", "upsert"}

\* An operation about to write a preview that has not changed since it looked it
\* up carries an event received no earlier than the one the preview shows.
Fresh == \A a \in current : actor[a].pc \in Upserting /\ applied <= actor[a].at

\* A step that leaves the history alone, and operation a with v.
LEMMA FreshBecome ==
  ASSUME Typed, Fresh, NEW a \in Actor, NEW v, Become(a, v), UNCHANGED <<applied, current>>,
         a \in current => v.pc \in Upserting /\ v.at = actor[a].at
  PROVE  Fresh'
  <1>1. \A b \in Actor : actor'[b] = IF b = a THEN v ELSE actor[b]
    BY DEF Become, Typed, TypeOK
  <1>2. current \subseteq Actor
    BY DEF Typed, TypeOK
  <1> QED BY <1>1, <1>2 DEF Fresh

\* A step of an operation that is not about to write the preview.
LEMMA FreshOther ==
  ASSUME Typed, Fresh, NEW a \in Actor, \E v : Become(a, v), UNCHANGED <<applied, current>>,
         actor[a].pc \notin Upserting
  PROVE  Fresh'
  <1>1. PICK v : Become(a, v)
    OBVIOUS
  <1>2. a \notin current
    BY DEF Fresh
  <1> QED BY <1>1, <1>2, FreshBecome

\* A step of an operation that goes on towards its upsert.
LEMMA FreshMoves ==
  ASSUME Typed, Fresh, NEW a \in Actor, PreviewInsert(a) \/ PreviewEnqueue(a)
  PROVE  Fresh'
  <1>1. PICK l \in Local : l = actor[a]
    BY FieldsOf
  <1>2. UNCHANGED <<applied, current>>
    BY DEF PreviewInsert, PreviewEnqueue
  <1>3. CASE PreviewInsert(a)
    <2>1. PICK i : Become(a, Moving(l, "enqueue", i))
      BY <1>1, <1>3 DEF PreviewInsert, InsertDeployment, Moving
    <2>2. PICK v : v = Moving(l, "enqueue", i)
      OBVIOUS
    <2>3. v.pc = "enqueue" /\ v.at = l.at
      BY <2>2 DEF Moving, Local
    <2> QED BY <1>1, <1>2, <2>1, <2>2, <2>3, FreshBecome DEF Upserting
  <1>4. CASE PreviewEnqueue(a)
    <2>1. PICK pc \in Pcs : pc = "upsert"
      BY DEF Pcs
    <2>2. Goto(a, pc)
      BY <1>4, <2>1 DEF PreviewEnqueue
    <2>3. PICK v \in Local : Become(a, v) /\ v.pc = pc /\ SameBut(v, actor[a])
      BY <2>2, GotoFacts
    <2>4. v.pc \in Upserting /\ v.at = actor[a].at
      BY <2>1, <2>3 DEF Upserting, SameBut
    <2> QED BY <1>2, <2>3, <2>4, FreshBecome
  <1> QED BY <1>3, <1>4

\* The look-up: the event was received no earlier than the preview changed last.
LEMMA FreshFind ==
  ASSUME Typed, Fresh, NEW a \in Actor, FindByPr(a)
  PROVE  Fresh'
  <1>1. PICK l \in Local : l = actor[a] /\ l.pc = "find" /\ l.at \in Nat
    BY FieldsOf DEF FindByPr, At, Local
  <1>2. applied' = applied /\ applied \in Nat /\ current \subseteq Actor
    BY DEF FindByPr, Typed, TypeOK
  <1>3. a \notin current
    BY <1>1 DEF Fresh, Upserting
  <1>4. CASE Applies(a) /\ preview.updatedAt >= applied
    <2>1. applied <= l.at
      <3>1. CASE preview = NoPreview
        BY <1>1, <1>2, <1>4, <3>1 DEF NoPreview
      <3>2. CASE preview # NoPreview
        <4>1. preview.updatedAt \in Nat
          BY <3>2 DEF Typed, TypeOK
        <4>2. ~ (l.at < preview.updatedAt)
          BY <1>1, <1>4, <3>2 DEF Applies, Older
        <4> QED BY <1>1, <1>2, <1>4, <4>1, <4>2
      <3> QED BY <3>1, <3>2
    <2>2. PICK pc \in Pcs : pc = "insert"
      BY DEF Pcs
    <2>3. Goto(a, pc)
      <3>1. Action(actor[a].delivery) # "closed"
        BY <1>4 DEF Applies
      <3> QED BY <1>4, <2>2, <3>1 DEF FindByPr
    <2>4. PICK v \in Local : Become(a, v) /\ v.pc = pc /\ SameBut(v, actor[a])
      BY <2>3, GotoFacts
    <2>5. v.pc \in Upserting /\ v.at = l.at
      BY <1>1, <2>2, <2>4 DEF Upserting, SameBut
    <2>6. \A b \in Actor : actor'[b] = IF b = a THEN v ELSE actor[b]
      BY <2>4 DEF Become, Typed, TypeOK
    <2>7. current' = current \cup {a}
      BY <1>4 DEF FindByPr
    <2> QED BY <1>2, <1>3, <2>1, <2>5, <2>6, <2>7 DEF Fresh
  <1>5. CASE ~ (Applies(a) /\ preview.updatedAt >= applied)
    <2>1. UNCHANGED <<applied, current>>
      BY <1>2, <1>5 DEF FindByPr
    <2>2. \E v : Become(a, v)
      BY DEF FindByPr, Goto, Applies
    <2>3. actor[a].pc \notin Upserting
      BY <1>1 DEF Upserting
    <2> QED BY <2>1, <2>2, <2>3, FreshOther
  <1> QED BY <1>4, <1>5

\* An interrupted operation does not write.
LEMMA FreshInterrupted ==
  ASSUME Typed, Fresh, NEW a \in Actor, Interrupted(a)
  PROVE  Fresh'
  <1>1. /\ current' = current \ {a} /\ applied' = applied /\ current \subseteq Actor
        /\ actor' = [actor EXCEPT ![a] = Idle]
    BY DEF Interrupted, Become, Typed, TypeOK
  <1>2. \A b \in Actor : b # a => actor'[b] = actor[b]
    BY <1>1 DEF Typed, TypeOK
  <1> QED BY <1>1, <1>2 DEF Fresh

\* Every step keeps the order.
LEMMA FreshNext == ASSUME Typed, Fresh, [Next]_vars PROVE Fresh'
  <1>1. CASE UNCHANGED vars
    BY <1>1 DEF vars, Fresh
  <1>2. CASE Next
    <2>1. PICK a \in Actor : Webhook(a) \/ BuildResult(a) \/ Request(a) \/ Interrupted(a)
      BY <1>2 DEF Next
    <2>2. CASE \/ Close(a) \/ Upsert(a) \/ MarkReady(a)
               \/ MarkFailed(a) \/ StopClose(a)
      <3>1. current' = {}
        BY <2>2 DEF Close, Upsert, MarkReady, MarkFailed, StopClose
      <3> QED BY <3>1 DEF Fresh
    <2>3. CASE \/ \E d \in Delivery : Receive(a, d)
               \/ RecordDelivery(a) \/ RecordEvent(a)
      <3>1. UNCHANGED <<applied, current>> /\ actor[a].pc \notin Upserting
        BY <2>3 DEF Receive, RecordDelivery, RecordEvent, Starts, At, Upserting
      <3>2. \E v : Become(a, v)
        BY <2>3 DEF Receive, RecordDelivery, RecordEvent, Goto
      <3> QED BY <3>1, <3>2, FreshOther
    <2>4. CASE \/ PushInsert(a) \/ PushEnqueue(a)
               \/ CloseCancel(a)
      <3>1. UNCHANGED <<applied, current>> /\ actor[a].pc \notin Upserting
        BY <2>4 DEF PushInsert, PushEnqueue, CloseCancel, At, Upserting
      <3>2. \E v : Become(a, v)
        BY <2>4 DEF PushInsert, PushEnqueue, CloseCancel, InsertDeployment
      <3> QED BY <3>1, <3>2, FreshOther
    <2>5. CASE (\E i \in DOMAIN job : RecordSuccess(a, i) \/ RecordFailure(a, i)) \/ FindById(a)
      <3>1. UNCHANGED <<applied, current>> /\ actor[a].pc \notin Upserting
        BY <2>5 DEF RecordSuccess, RecordFailure, FindById, Starts, At, Upserting
      <3>2. \E v : Become(a, v)
        BY <2>5 DEF RecordSuccess, RecordFailure, FindById, Goto
      <3> QED BY <3>1, <3>2, FreshOther
    <2>6. CASE \/ Stop(a) \/ StopCancel(a) \/ StopDeployment(a)
               \/ Promote(a)
      <3>1. UNCHANGED <<applied, current>> /\ actor[a].pc \notin Upserting
        BY <2>6 DEF Stop, StopCancel, StopDeployment, Promote, Starts, At, Upserting
      <3>2. \E v : Become(a, v)
        BY <2>6 DEF Stop, StopCancel, StopDeployment, Promote, Goto
      <3> QED BY <3>1, <3>2, FreshOther
    <2>7. CASE PromoteImage(a) \/ PromoteInsert(a) \/ PromoteEnqueue(a)
      <3>1. UNCHANGED <<applied, current>> /\ actor[a].pc \notin Upserting
        BY <2>7 DEF PromoteImage, PromoteInsert, PromoteEnqueue, At, Upserting
      <3>2. \E v : Become(a, v)
        BY <2>7 DEF PromoteImage, PromoteInsert, PromoteEnqueue, InsertDeployment
      <3> QED BY <3>1, <3>2, FreshOther
    <2>8. CASE PreviewInsert(a) \/ PreviewEnqueue(a) \/ FindByPr(a) \/ Interrupted(a)
      BY <2>8, FreshMoves, FreshFind, FreshInterrupted
    <2> QED BY <2>1, <2>2, <2>3, <2>4, <2>5, <2>6, <2>7, <2>8 DEF Webhook, BuildResult, Request
  <1> QED BY <1>1, <1>2

---------------------------------------------------------------------------
(* Theorems                                                                *)

\* Rows and local variables keep their types; in particular an operation and the
\* preview name only deployments that were inserted (the foreign keys).
THEOREM TypeCorrect == Spec => []TypeOK
  <1>1. Inv => TypeOK
    BY DEF Inv, Typed
  <1> QED BY <1>1, InvHolds, PTL

\* A delivery makes one deployment at most, however often it arrives, whatever
\* overlaps and wherever an operation is interrupted; a push that was accepted has
\* its deployment and job once all is finished (record_delivery).
THEOREM DeliveriesActOnce == Spec => []EachDeliveryOnce
  <1>1. ASSUME Inv PROVE EachDeliveryOnce
    <2> SUFFICES ASSUME NEW d \in Delivery
                 PROVE  /\ Cardinality(CausedBy(d)) <= 1
                        /\ (Quiet /\ failures = 0 /\ HasQueue /\ d \in delivery /\ Action(d) = "push")
                             => \E i \in CausedBy(d) : i \in DOMAIN job
      BY DEF EachDeliveryOnce
    <2>1. Cardinality(CausedBy(d)) <= 1
      <3>1. \A i, j \in CausedBy(d) : i = j
        BY <1>1 DEF Inv, Once
      <3>2. CASE CausedBy(d) = {}
        BY <3>2, FS_EmptySet
      <3>3. CASE CausedBy(d) # {}
        <4>1. PICK i : i \in CausedBy(d)
          BY <3>3
        <4>2. CausedBy(d) = {i}
          BY <3>1, <4>1
        <4> QED BY <4>2, FS_Singleton
      <3> QED BY <3>2, <3>3
    <2>2. ASSUME Quiet, failures = 0, HasQueue, d \in delivery, Action(d) = "push"
          PROVE  \E i \in CausedBy(d) : i \in DOMAIN job
      <3>1. \A a \in Actor : ~ UnderWay(d, actor[a])
        BY <2>2 DEF Quiet, At, UnderWay
      <3> QED BY <1>1, <2>2, <3>1 DEF Inv, Pushed
    <2> QED BY <2>1, <2>2
  <1> QED BY <1>1, InvHolds, PTL

\* The deployment of a preview always has a job, also after an interruption
\* (apply_event enqueues before it writes the preview).
THEOREM BuildAlwaysQueued == Spec => []PreviewBuildQueued
  <1>1. Inv => PreviewBuildQueued
    BY DEF Inv, Typed, Sources, Queued, PreviewBuildQueued
  <1> QED BY <1>1, InvHolds, PTL

\* An event does not replace one received after it, as long as the preview does not
\* change between look-up and upsert, whatever operations overlap and however far
\* the clocks are apart (the comparison of created_at with updated_at).
THEOREM LaterEventsAlwaysWin == Spec => LaterEventsWin
  <1> DEFINE A == \A a \in Actor : Upsert(a) /\ a \in current => applied <= actor[a].at
  <1>1. Init => Fresh
    BY DEF Init, Fresh
  <1>2. Inv /\ Fresh /\ [Next]_vars => Fresh'
    BY FreshNext DEF Inv
  <1>3. Inv /\ Fresh /\ [Next]_vars => [A]_vars
    BY DEF Fresh
  <1> QED BY <1>1, <1>2, <1>3, InvHolds, PTL DEF Spec, LaterEventsWin

\* Operations that do not overlap and are not interrupted leave the status of the
\* preview that of the deployment it points to, whatever the order in which builds
\* succeed and fail (record_build_success, record_build_failure).
THEOREM StatusAlwaysTheDeployments == Spec => []StatusIsTheDeployments
  <1>1. ASSUME Inv PROVE StatusIsTheDeployments
    <2> SUFFICES ASSUME Quiet, overlaps = 0, failures = 0 PROVE Truthful
      BY DEF StatusIsTheDeployments, Truthful
    <2>1. Sound(Idle)
      BY <1>1 DEF Inv, Sequential, Calm
    <2> QED BY <2>1, IdleIs DEF Sound, Correcting
  <1> QED BY <1>1, InvHolds, PTL
=============================================================================
