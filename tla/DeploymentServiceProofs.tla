---------------------- MODULE DeploymentServiceProofs ----------------------
(***************************************************************************)
(* Proofs about DeploymentService, for any number of threads, processes,   *)
(* projects and deployments: types; that the state file stays complete and *)
(* consistent and loses no record, whatever fails and wherever a process   *)
(* crashes, while no two operations overlap; and which containers run.     *)
(***************************************************************************)
EXTENDS DeploymentService, TLAPS

---------------------------------------------------------------------------
(* Types                                                                   *)

Stages == {"none", "load", "create", "write", "rename"}
Fds == {"none", "temp", "state", "gone"}

\* The points of deploy and of stop, at which operation_lock is held.
Deploying == {"insert_deployment", "building", "build", "image", "start", "running",
              "unstart", "old", "old_stopped", "activate", "failed"}
Stopping == {"halt", "stopped", "own", "clear"}
Locked == Deploying \cup Stopping
Ats == Locked \cup {"idle", "insert_project"}

\* A state, as a record whose tables are any functions.
States(ps, ds) == [torn : BOOLEAN, projects : {ps}, deployments : {ds}]

StateOK(s) == s \in States(s.projects, s.deployments) /\ StateType(s)

\* The local variables of a thread that holds state b.
Locals(b) ==
  [at : Ats, stage : Stages, project : Nat, name : Name \cup {None}, old : Nat,
   dep : Nat, buf : {b}, fd : Fds, alone : BOOLEAN]

\* What holds for a thread at each of its points.
ThreadOK(th) ==
  /\ th \in Locals(th.buf) /\ StateOK(th.buf)
  /\ th.at = "idle" => th = Idle
  /\ th.at # "idle" => th.project \in 1 .. projects
  /\ th.at \in {"insert_project", "clear"} \cup Deploying => th.name \in Name
  /\ th.at \in Locked => th.dep \in 1 .. deployments
  /\ th.old \in 0 .. deployments
  /\ th.at = "old_stopped" => th.old # 0
  /\ th.stage # "none" <=> th.at \in Updates
  /\ th.stage # "write" => th.fd = "none"

\* The lock of a process is held by its deploy or stop.
LocksOK ==
  /\ lock \in [Process -> Thread \cup {None}]
  /\ \A p \in Process :
       lock[p] # None => ProcessOf[lock[p]] = p /\ thread[lock[p]].at \in Locked
  /\ \A t \in Thread : thread[t].at \in Locked => lock[ProcessOf[t]] = t

FilesOK ==
  StateOK(file) /\ StateOK(temp.state) /\ temp \in [exists : BOOLEAN, state : {temp.state}]

CountsOK ==
  /\ projects \in Nat /\ deployments \in Nat
  /\ containers \subseteq 1 .. deployments
  /\ faults \subseteq Fault /\ trouble \in 0 .. MaxTrouble

\* The type invariant, with what makes it inductive.
Typed ==
  /\ CountsOK /\ FilesOK /\ LocksOK
  /\ thread = [t \in Thread |-> thread[t]]
  /\ \A t \in Thread : ThreadOK(thread[t])

---------------------------------------------------------------------------
(* The state file while no two operations overlap                          *)

Saving(th) == th.stage \in {"create", "write", "rename"}

\* One create_project, one deploy or stop, and one of them saving.
Solo ==
  \A t, u \in Thread :
    \/ Saving(thread[t]) /\ Saving(thread[u])
    \/ thread[t].at = "insert_project" /\ thread[u].at = "insert_project"
    \/ thread[t].at \in Locked /\ thread[u].at \in Locked
    => t = u

\* What StateSound says, and that deployments belong to projects.
FileSound ==
  /\ ~ file.torn
  /\ \A p, q \in DOMAIN file.projects :
       p # q => file.projects[p].name # file.projects[q].name
  /\ \A p \in DOMAIN file.projects :
       file.projects[p].active # 0 =>
         /\ file.projects[p].active \in DOMAIN file.deployments
         /\ file.deployments[file.projects[p].active].project = p
         /\ file.deployments[file.projects[p].active].status \in {"running", "stopped"}
  /\ \A d \in DOMAIN file.deployments : file.deployments[d].project \in DOMAIN file.projects

\* The status of the deployment at each point at which it has one.
StatusAt ==
  [building |-> "pending", build |-> "building", image |-> "building",
   start |-> "building", running |-> "building", unstart |-> "building",
   failed |-> "building", old |-> "running", old_stopped |-> "running",
   activate |-> "running", halt |-> "running", stopped |-> "running",
   own |-> "stopped", clear |-> "stopped"]

\* What a thread that is about to change the file knows of it.
NewProject(th) ==
  /\ th.project \notin DOMAIN file.projects
  /\ \A p \in DOMAIN file.projects : file.projects[p].name # th.name

OwnProject(th) ==
  /\ th.project \in DOMAIN file.projects
  /\ file.projects[th.project].name = th.name
  /\ file.projects[th.project].active = th.old
  /\ th.dep # th.old

OwnDeployment(th) ==
  /\ th.dep \in DOMAIN file.deployments
  /\ file.deployments[th.dep].project = th.project
  /\ file.deployments[th.dep].status = StatusAt[th.at]

OldDeployment(th) ==
  th.old \in DOMAIN file.deployments /\ file.deployments[th.old].status = "running"

ActiveProject(th) ==
  /\ th.project \in DOMAIN file.projects
  /\ file.projects[th.project].name = th.name
  /\ file.projects[th.project].active = th.dep

Expects(th) ==
  /\ th.at = "insert_project" => NewProject(th)
  /\ th.at \in Deploying => OwnProject(th)
  /\ th.at = "insert_deployment" => th.dep \notin DOMAIN file.deployments
  /\ th.at \in Locked \ {"insert_deployment"} => OwnDeployment(th)
  /\ th.at = "old_stopped" => OldDeployment(th)
  /\ th.at = "clear" => ActiveProject(th)

\* What is to be saved is the change of the file as it is.
Saves(th) ==
  /\ Saving(th) => th.buf = Change(th, file)
  /\ th.stage = "write" => th.fd = "temp" /\ th.alone /\ temp.exists
  /\ th.stage = "rename" => temp.exists /\ temp.state = th.buf

Calm == "overlap" \notin faults

Ordered ==
  Calm => Solo /\ FileSound /\ \A t \in Thread : Expects(thread[t]) /\ Saves(thread[t])

---------------------------------------------------------------------------
(* Containers while nothing fails but builds and saves                     *)

Steady == faults \cap {"overlap", "crash", "stop", "discovery"} = {}

Recorded(d) == d \in DOMAIN file.deployments /\ file.deployments[d].status = "running"
Started(d) == \E t \in Thread : thread[t].at \in {"running", "unstart"} /\ d = thread[t].dep

\* A deployment about to be recorded as stopped has no container.
Gone(th) ==
  /\ th.at = "old_stopped" => th.old \notin containers
  /\ th.at = "stopped" => th.dep \notin containers

Known ==
  Steady => /\ \A d \in containers : Recorded(d) \/ Started(d)
            /\ \A t \in Thread : Gone(thread[t])

---------------------------------------------------------------------------
(* Containers while nothing fails but builds                               *)

Smooth == faults \cap {"overlap", "crash", "disk", "stop", "discovery"} = {}

\* The containers and the active deployment of a project.
Containers(p) ==
  {d \in containers : d \in DOMAIN file.deployments /\ file.deployments[d].project = p}

Active(p) == {file.projects[p].active} \ {0}

\* The containers a project has at each point of its deploy or stop.
Serves(th) ==
  LET p == th.project IN
  /\ th.at # "unstart"
  /\ th.at \in {"insert_deployment", "building", "build", "image", "start", "failed", "halt"} =>
       Containers(p) = Active(p)
  /\ th.at \in {"running", "old"} => Containers(p) = Active(p) \cup {th.dep}
  /\ th.at \in {"old_stopped", "activate"} => Containers(p) = {th.dep}
  /\ th.at \in {"stopped", "own", "clear"} => Containers(p) = Active(p) \ {th.dep}

Busy(p) == \E t \in Thread : thread[t].at \in Locked /\ thread[t].project = p

Served ==
  Smooth =>
    /\ \A p \in DOMAIN file.projects : ~ Busy(p) => Containers(p) = Active(p)
    /\ \A t \in Thread :
         thread[t].at \in Locked /\ thread[t].project \in DOMAIN file.projects => Serves(thread[t])

Inv == Typed /\ Ordered /\ Known /\ Served

---------------------------------------------------------------------------
(* States and local variables                                              *)

\* The points of an operation are the store operations and the calls between them.
LEMMA AtsAre ==
  /\ Ats = Updates \cup {"idle", "build", "start", "unstart", "old", "halt", "own"}
  /\ "done" \notin Ats /\ "idle" \notin Locked /\ "insert_project" \notin Locked
  BY DEF Ats, Locked, Deploying, Stopping, Updates

\* A state stays well typed when ids are drawn.
LEMMA StateGrows ==
  ASSUME projects \in Nat, deployments \in Nat, projects' \in Nat, deployments' \in Nat,
         projects <= projects', deployments <= deployments', NEW s, StateOK(s)
  PROVE  StateOK(s)'
  <1>1. 1 .. projects \subseteq 1 .. projects' /\ 0 .. deployments \subseteq 0 .. deployments'
        /\ 1 .. deployments \subseteq 1 .. deployments'
    OBVIOUS
  <1> QED BY <1>1 DEF StateOK, StateType, States

\* A state with a project inserted or replaced.
LEMMA PutProjectFacts ==
  ASSUME NEW s, s \in States(s.projects, s.deployments), NEW p, NEW name, NEW active
  PROVE  \E r : /\ r = PutProject(s, p, name, active) /\ r \in States(r.projects, r.deployments)
                /\ r.torn = s.torn /\ r.deployments = s.deployments
                /\ DOMAIN r.projects = DOMAIN s.projects \cup {p}
                /\ r.projects[p].name = name /\ r.projects[p].active = active
                /\ \A q \in DOMAIN s.projects : q # p => r.projects[q] = s.projects[q]
  <1>1. PICK ps : ps = Put(s.projects, p, [name |-> name, active |-> active])
    OBVIOUS
  <1>2. /\ DOMAIN ps = DOMAIN s.projects \cup {p}
        /\ ps[p].name = name /\ ps[p].active = active
        /\ \A q \in DOMAIN s.projects : q # p => ps[q] = s.projects[q]
    BY <1>1 DEF Put
  <1>3. PICK r : r = [s EXCEPT !.projects = ps]
    OBVIOUS
  <1>4. r.torn = s.torn /\ r.deployments = s.deployments /\ r.projects = ps
    BY <1>3 DEF States
  <1>5. r \in States(ps, s.deployments)
    BY <1>3, Zenon DEF States
  <1>6. r = PutProject(s, p, name, active)
    BY <1>1, <1>3 DEF PutProject
  <1> QED BY <1>2, <1>4, <1>5, <1>6

\* A state with a deployment inserted or replaced.
LEMMA PutDeploymentFacts ==
  ASSUME NEW s, s \in States(s.projects, s.deployments), NEW d, NEW project, NEW status
  PROVE  \E r : /\ r = PutDeployment(s, d, project, status) /\ r \in States(r.projects, r.deployments)
                /\ r.torn = s.torn /\ r.projects = s.projects
                /\ DOMAIN r.deployments = DOMAIN s.deployments \cup {d}
                /\ r.deployments[d].project = project /\ r.deployments[d].status = status
                /\ \A e \in DOMAIN s.deployments : e # d => r.deployments[e] = s.deployments[e]
  <1>1. PICK ds : ds = Put(s.deployments, d, [project |-> project, status |-> status])
    OBVIOUS
  <1>2. /\ DOMAIN ds = DOMAIN s.deployments \cup {d}
        /\ ds[d].project = project /\ ds[d].status = status
        /\ \A e \in DOMAIN s.deployments : e # d => ds[e] = s.deployments[e]
    BY <1>1 DEF Put
  <1>3. PICK r : r = [s EXCEPT !.deployments = ds]
    OBVIOUS
  <1>4. r.torn = s.torn /\ r.projects = s.projects /\ r.deployments = ds
    BY <1>3 DEF States
  <1>5. r \in States(s.projects, ds)
    BY <1>3, Zenon DEF States
  <1>6. r = PutDeployment(s, d, project, status)
    BY <1>1, <1>3 DEF PutDeployment
  <1> QED BY <1>2, <1>4, <1>5, <1>6

\* The files before anything was saved.
LEMMA EmptyOK ==
  ASSUME projects \in Nat, deployments \in Nat
  PROVE  StateOK(Empty) /\ StateOK(Torn)
  <1>1. Empty = [torn |-> FALSE, projects |-> <<>>, deployments |-> <<>>] /\ DOMAIN <<>> = {}
    BY DEF Empty
  <1>2. Torn.torn = TRUE /\ Torn.projects = <<>> /\ Torn.deployments = <<>>
    BY DEF Torn, Empty
  <1>3. Torn \in States(<<>>, <<>>) /\ Empty \in States(<<>>, <<>>)
    BY DEF Torn, Empty, States
  <1> QED BY <1>1, <1>2, <1>3 DEF StateOK, StateType

\* A thread that waits for nothing.
LEMMA IdleIs ==
  /\ Idle \in Locals(Empty)
  /\ Idle.at = "idle" /\ Idle.stage = "none" /\ Idle.project = 0 /\ Idle.name = None
  /\ Idle.old = 0 /\ Idle.dep = 0 /\ Idle.buf = Empty /\ Idle.fd = "none" /\ Idle.alone = TRUE
  BY DEF Idle, Locals, Ats, Stages, Fds

\* It is well typed.
LEMMA IdleOK ==
  ASSUME projects \in Nat, deployments \in Nat
  PROVE  ThreadOK(Idle)
  <1>1. StateOK(Empty)
    BY EmptyOK
  <1> QED BY <1>1, IdleIs, AtsAre DEF ThreadOK, Deploying, Updates

\* The local variables v of a thread th that has gone on to another point.
Continued(th, at, v) ==
  /\ v \in Locals(Empty) /\ v.at = at /\ v.stage = (IF at \in Updates THEN "load" ELSE "none")
  /\ v.project = th.project /\ v.name = th.name /\ v.old = th.old /\ v.dep = th.dep
  /\ v.buf = Empty /\ v.fd = "none" /\ v.alone = TRUE

\* A thread that goes on at another point of its operation.
LEMMA ContinueFacts ==
  ASSUME NEW b, NEW th \in Locals(b), NEW at \in Ats
  PROVE  Continued(th, at, Continue(th, at))
  <1>1. PICK st \in Stages : st = IF at \in Updates THEN "load" ELSE "none"
    BY DEF Stages
  <1>2. PICK v : v = [th EXCEPT !.at = at, !.stage = st, !.buf = Empty, !.fd = "none", !.alone = TRUE]
    OBVIOUS
  <1>3. v = Continue(th, at)
    BY <1>1, <1>2, AtsAre DEF Continue
  <1>4. /\ v.at = at /\ v.stage = st
        /\ v.project = th.project /\ v.name = th.name /\ v.old = th.old /\ v.dep = th.dep
        /\ v.buf = Empty /\ v.fd = "none" /\ v.alone = TRUE
    BY <1>2 DEF Locals
  <1>5. v \in Locals(Empty)
    <2>1. th \in [at : Ats, stage : Stages, project : Nat, name : Name \cup {None}, old : Nat,
                  dep : Nat, buf : {b}, fd : Fds, alone : BOOLEAN]
      BY DEF Locals
    <2>2. v \in [at : Ats, stage : Stages, project : Nat, name : Name \cup {None}, old : Nat,
                 dep : Nat, buf : {Empty}, fd : Fds, alone : BOOLEAN]
      BY <1>2, <2>1, Zenon DEF Fds
    <2> QED BY <2>2 DEF Locals
  <1>6. Continued(th, at, v)
    BY <1>1, <1>4, <1>5 DEF Continued
  <1> QED BY <1>3, <1>6

---------------------------------------------------------------------------
(* A step of thread t, which leaves it with v                              *)

\* Two threads are at the same point of the same operation.
Place(th, w) ==
  /\ w.at = th.at /\ w.project = th.project /\ w.name = th.name
  /\ w.old = th.old /\ w.dep = th.dep

\* They are as far with what they save, too.
Core(th, w) == Place(th, w) /\ w.stage = th.stage /\ w.buf = th.buf

\* The other threads see at most what became of the file they have open.
Moves(t, v) ==
  /\ thread' = [u \in Thread |-> thread'[u]]
  /\ thread'[t] = v
  /\ \A u \in Thread \ {t} : Core(thread[u], thread'[u]) /\ ThreadOK(thread'[u])

\* What is known at a point does not depend on the file that is open.
LEMMA PlaceFacts ==
  ASSUME NEW th, NEW w, Place(th, w)
  PROVE  /\ Expects(th) <=> Expects(w)
         /\ Gone(th) <=> Gone(w)
         /\ Serves(th) <=> Serves(w)
         /\ \A s : Change(th, s) = Change(w, s)
  <1>1. Expects(th) <=> Expects(w)
    BY DEF Place, Expects, NewProject, OwnProject, OwnDeployment, OldDeployment, ActiveProject
  <1>2. Gone(th) <=> Gone(w)
    BY DEF Place, Gone
  <1>3. Serves(th) <=> Serves(w)
    BY DEF Place, Serves
  <1>4. \A s : Change(th, s) = Change(w, s)
    BY DEF Place, Change
  <1> QED BY <1>1, <1>2, <1>3, <1>4

\* A thread of the table.
LEMMA ThreadIs ==
  ASSUME Typed, NEW t \in Thread
  PROVE  ThreadOK(thread[t])
  BY DEF Typed

\* A step that only replaces t's local variables.
LEMMA ExceptMoves ==
  ASSUME Typed, NEW t \in Thread, NEW v, thread' = [thread EXCEPT ![t] = v]
  PROVE  Moves(t, v)
  <1>1. DOMAIN thread = Thread
    BY DEF Typed
  <1>2. thread'[t] = v /\ \A u \in Thread \ {t} : thread'[u] = thread[u]
    BY <1>1
  <1>3. thread' = [u \in Thread |-> thread'[u]]
    BY <1>1
  <1>4. \A u \in Thread \ {t} : Core(thread[u], thread'[u]) /\ ThreadOK(thread'[u])
    BY <1>2, ThreadIs DEF Core, Place
  <1> QED BY <1>2, <1>3, <1>4 DEF Moves

\* What is true of a thread stays true when ids are drawn.
LEMMA ThreadGrows ==
  ASSUME projects \in Nat, deployments \in Nat, projects' \in Nat, deployments' \in Nat,
         projects <= projects', deployments <= deployments', NEW th, ThreadOK(th)
  PROVE  ThreadOK(th)'
  <1>1. 1 .. projects \subseteq 1 .. projects' /\ 0 .. deployments \subseteq 0 .. deployments'
        /\ 1 .. deployments \subseteq 1 .. deployments'
    OBVIOUS
  <1>2. StateOK(th.buf)'
    <2>1. PICK s : s = th.buf
      OBVIOUS
    <2>2. StateOK(s)'
      BY <2>1, StateGrows DEF ThreadOK
    <2> QED BY <2>1, <2>2
  <1> QED BY <1>1, <1>2 DEF ThreadOK

\* The lock after a step: kept, given back, or taken.
LockKept(t, v) ==
  \/ lock' = lock /\ (v.at \in Locked <=> thread[t].at \in Locked)
  \/ lock' = Release(t, "done") /\ v.at \notin Locked
  \/ /\ lock' = [lock EXCEPT ![ProcessOf[t]] = t] /\ lock[ProcessOf[t]] = None
     /\ v.at \in Locked

\* The step keeps the locks right.
LEMMA MoveLocks ==
  ASSUME Typed, NEW t \in Thread, NEW v, Moves(t, v), LockKept(t, v)
  PROVE  LocksOK'
  <1>1. LocksOK /\ ProcessOf \in [Thread -> Process] /\ None \notin Thread
    BY DeploymentServiceAssumption DEF Typed
  <1>2. thread'[t] = v /\ \A u \in Thread : u # t => thread'[u].at = thread[u].at
    BY DEF Moves, Core, Place
  <1>3. CASE lock' = lock /\ (v.at \in Locked <=> thread[t].at \in Locked)
    BY <1>1, <1>2, <1>3 DEF LocksOK
  <1>4. CASE lock' = Release(t, "done") /\ v.at \notin Locked
    <2>1. CASE lock[ProcessOf[t]] = t
      <3>1. lock' = [lock EXCEPT ![ProcessOf[t]] = None]
        BY <1>4, <2>1 DEF Release
      <3>2. /\ lock' \in [Process -> Thread \cup {None}]
            /\ \A p \in Process : lock'[p] = IF p = ProcessOf[t] THEN None ELSE lock[p]
        BY <1>1, <3>1 DEF LocksOK
      <3>3. \A p \in Process :
              lock'[p] # None => ProcessOf[lock'[p]] = p /\ thread'[lock'[p]].at \in Locked
        BY <1>1, <1>2, <2>1, <3>2 DEF LocksOK
      <3>4. \A u \in Thread : thread'[u].at \in Locked => lock'[ProcessOf[u]] = u
        BY <1>1, <1>2, <1>4, <2>1, <3>2 DEF LocksOK
      <3> QED BY <3>2, <3>3, <3>4 DEF LocksOK
    <2>2. CASE lock[ProcessOf[t]] # t
      <3>1. lock' = lock
        BY <1>4, <2>2 DEF Release
      <3>2. thread[t].at \notin Locked
        BY <1>1, <2>2 DEF LocksOK
      <3> QED BY <1>1, <1>2, <1>4, <3>1, <3>2 DEF LocksOK
    <2> QED BY <2>1, <2>2
  <1>5. CASE /\ lock' = [lock EXCEPT ![ProcessOf[t]] = t] /\ lock[ProcessOf[t]] = None
             /\ v.at \in Locked
    <2>1. /\ lock' \in [Process -> Thread \cup {None}]
          /\ \A p \in Process : lock'[p] = IF p = ProcessOf[t] THEN t ELSE lock[p]
      BY <1>1, <1>5 DEF LocksOK
    <2>2. \A p \in Process :
            lock'[p] # None => ProcessOf[lock'[p]] = p /\ thread'[lock'[p]].at \in Locked
      BY <1>1, <1>2, <1>5, <2>1 DEF LocksOK
    <2>3. \A u \in Thread : thread'[u].at \in Locked => lock'[ProcessOf[u]] = u
      BY <1>1, <1>2, <1>5, <2>1 DEF LocksOK
    <2> QED BY <2>1, <2>2, <2>3 DEF LocksOK
  <1> QED BY <1>3, <1>4, <1>5 DEF LockKept

\* The step keeps the types.
LEMMA MoveTyped ==
  ASSUME Typed, NEW t \in Thread, NEW v, Moves(t, v), LockKept(t, v), ThreadOK(v)',
         CountsOK', FilesOK', projects <= projects', deployments <= deployments'
  PROVE  Typed'
  <1>1. LocksOK'
    BY MoveLocks
  <1>2. thread' = [u \in Thread |-> thread'[u]]
    BY DEF Moves
  <1>3. ASSUME NEW u \in Thread PROVE ThreadOK(thread[u])'
    <2>1. PICK w : w = thread'[u]
      OBVIOUS
    <2>2. ThreadOK(w)'
      <3>1. CASE u = t
        BY <2>1, <3>1 DEF Moves
      <3>2. CASE u # t
        <4>1. ThreadOK(w)
          BY <2>1, <3>2 DEF Moves
        <4> QED BY <4>1, ThreadGrows DEF Typed, CountsOK
      <3> QED BY <3>1, <3>2
    <2> QED BY <2>1, <2>2 DEF ThreadOK
  <1> QED BY <1>1, <1>2, <1>3 DEF Typed

\* The files stay well typed when nobody writes them.
LEMMA FilesKept ==
  ASSUME Typed, projects' \in Nat, deployments' \in Nat,
         projects <= projects', deployments <= deployments', UNCHANGED <<file, temp>>
  PROVE  FilesOK'
  <1>1. PICK f, g : f = file /\ g = temp.state
    OBVIOUS
  <1>2. StateOK(f)' /\ StateOK(g)'
    BY <1>1, StateGrows DEF Typed, FilesOK, CountsOK
  <1> QED BY <1>1, <1>2 DEF Typed, FilesOK

\* No other thread saves, creates a project, or holds a lock, as v requires.
Apart(t, v) ==
  \A u \in Thread \ {t} :
    /\ Saving(v) => ~ Saving(thread[u])
    /\ v.at = "insert_project" => thread[u].at # "insert_project"
    /\ v.at \in Locked => thread[u].at \notin Locked

\* The thread was apart before the step.
LEMMA SoloApart ==
  ASSUME Solo, NEW t \in Thread
  PROVE  Apart(t, thread[t])
  BY DEF Solo, Apart

\* The others keep out of the way of v.
LEMMA MoveSolo ==
  ASSUME Solo, NEW t \in Thread, NEW v, Moves(t, v), Apart(t, v)
  PROVE  Solo'
  <1>1. thread'[t] = v
    BY DEF Moves
  <1>2. \A u \in Thread : u # t => thread'[u].at = thread[u].at /\ thread'[u].stage = thread[u].stage
    BY DEF Moves, Core, Place
  <1>3. \A u \in Thread : u # t => (Saving(thread[u])' <=> Saving(thread[u]))
    BY <1>2 DEF Saving
  <1>4. Saving(thread[t])' <=> Saving(v)
    BY <1>1 DEF Saving
  <1> SUFFICES ASSUME NEW u \in Thread, NEW w \in Thread, u # w
               PROVE  /\ ~ (Saving(thread[u])' /\ Saving(thread[w])')
                      /\ ~ (thread'[u].at = "insert_project" /\ thread'[w].at = "insert_project")
                      /\ ~ (thread'[u].at \in Locked /\ thread'[w].at \in Locked)
    BY DEF Solo
  <1>5. CASE u = t
    BY <1>1, <1>2, <1>3, <1>4, <1>5 DEF Apart
  <1>6. CASE w = t
    BY <1>1, <1>2, <1>3, <1>4, <1>6 DEF Apart
  <1>7. CASE u # t /\ w # t
    BY <1>2, <1>3, <1>7 DEF Solo
  <1> QED BY <1>5, <1>6, <1>7

\* A step that leaves the state file alone.
LEMMA MoveOrdered ==
  ASSUME Ordered, NEW t \in Thread, NEW v, Moves(t, v), UNCHANGED file, faults \subseteq faults',
         Calm' /\ Solo /\ FileSound /\ Expects(thread[t]) /\ Saves(thread[t])
           => Apart(t, v) /\ Expects(v) /\ Saves(v)',
         \/ temp' = temp /\ \A u \in Thread \ {t} : thread'[u] = thread[u]
         \/ Saving(thread[t])
  PROVE  Ordered'
  <1> SUFFICES ASSUME Calm' PROVE Solo' /\ FileSound' /\ \A u \in Thread : Expects(thread[u])' /\ Saves(thread[u])'
    BY DEF Ordered
  <1>1. Calm /\ Solo /\ FileSound /\ \A u \in Thread : Expects(thread[u]) /\ Saves(thread[u])
    BY DEF Calm, Ordered
  <1>2. Apart(t, v) /\ Expects(v) /\ Saves(v)'
    BY <1>1
  <1>3. Solo'
    BY <1>1, <1>2, MoveSolo
  <1>4. FileSound'
    BY <1>1 DEF FileSound
  <1>5. \A th : Expects(th)' <=> Expects(th)
    BY DEF Expects, NewProject, OwnProject, OwnDeployment, OldDeployment, ActiveProject
  <1>6. ASSUME NEW u \in Thread PROVE Expects(thread[u])' /\ Saves(thread[u])'
    <2>1. PICK w : w = thread'[u]
      OBVIOUS
    <2>2. CASE u = t
      <3>1. w = v
        BY <2>1, <2>2 DEF Moves
      <3>2. Expects(w)' /\ Saves(w)'
        BY <1>2, <1>5, <3>1
      <3> QED BY <2>1, <3>2 DEF Expects, Saves, NewProject, OwnProject, OwnDeployment, OldDeployment,
                             ActiveProject, Saving
    <2>3. CASE u # t
      <3>1. PICK th : th = thread[u]
        OBVIOUS
      <3>2. Core(th, w) /\ Place(th, w)
        BY <2>1, <2>3, <3>1 DEF Moves, Core
      <3>3. Expects(th) /\ Saves(th)
        BY <1>1, <3>1
      <3>4. Expects(w)'
        BY <1>5, <3>2, <3>3, PlaceFacts
      <3>5. Saves(w)'
        <4>1. CASE temp' = temp /\ w = th
          BY <3>3, <4>1 DEF Saves, Saving
        <4>2. CASE Saving(thread[t])
          <5>1. ~ Saving(th)
            BY <1>1, <2>3, <3>1, <4>2 DEF Solo
          <5>2. w.stage = th.stage
            BY <3>2 DEF Core
          <5> QED BY <5>1, <5>2 DEF Saves, Saving
        <4> QED BY <2>1, <2>3, <3>1, <4>1, <4>2
      <3> QED BY <2>1, <3>4, <3>5 DEF Expects, Saves, NewProject, OwnProject, OwnDeployment, OldDeployment,
                             ActiveProject, Saving
    <2> QED BY <2>2, <2>3
  <1> QED BY <1>3, <1>4, <1>6

\* What is known in a steady or smooth state.
LEMMA FaultsGrow ==
  ASSUME faults \subseteq faults'
  PROVE  (Calm' => Calm) /\ (Steady' => Steady /\ Calm') /\ (Smooth' => Smooth /\ Steady')
  BY DEF Calm, Steady, Smooth

\* The containers of a step that leaves the state file alone: a container is added
\* for the deployment that is about to be recorded, and one that has not been
\* recorded goes before it is forgotten.
LEMMA MoveKnown ==
  ASSUME Ordered, Known, NEW t \in Thread, NEW v, Moves(t, v), UNCHANGED file, faults \subseteq faults',
         Steady' /\ Expects(thread[t]) /\ Gone(thread[t]) =>
           /\ Gone(v)'
           /\ \A d \in containers' : d \in containers \/ (v.at = "running" /\ d = v.dep)
           /\ thread[t].at \in {"running", "unstart"} =>
                \/ v.at \in {"running", "unstart"} /\ v.dep = thread[t].dep
                \/ thread[t].dep \notin containers',
         containers' \subseteq containers \/ thread[t].at \in Locked
  PROVE  Known'
  <1> SUFFICES ASSUME Steady'
               PROVE  /\ \A d \in containers' : Recorded(d)' \/ Started(d)'
                      /\ \A u \in Thread : Gone(thread[u])'
    BY DEF Known
  <1>1. /\ Steady /\ Solo /\ \A u \in Thread : Expects(thread[u])
        /\ \A d \in containers : Recorded(d) \/ Started(d)
        /\ \A u \in Thread : Gone(thread[u])
    BY FaultsGrow DEF Known, Ordered
  <1>2. /\ Gone(v)'
        /\ \A d \in containers' : d \in containers \/ (v.at = "running" /\ d = v.dep)
        /\ thread[t].at \in {"running", "unstart"} =>
             \/ v.at \in {"running", "unstart"} /\ v.dep = thread[t].dep
             \/ thread[t].dep \notin containers'
    BY <1>1
  <1>3. thread'[t] = v /\ \A u \in Thread : u # t => Place(thread[u], thread'[u])
    BY DEF Moves, Core
  <1>4. ASSUME NEW d \in containers' PROVE Recorded(d)' \/ Started(d)'
    <2>1. CASE v.at = "running" /\ d = v.dep
      BY <1>3, <2>1 DEF Started
    <2>2. CASE d \in containers /\ Recorded(d)
      BY <2>2 DEF Recorded
    <2>3. CASE d \in containers /\ Started(d)
      <3>1. PICK u \in Thread : thread[u].at \in {"running", "unstart"} /\ d = thread[u].dep
        BY <2>3 DEF Started
      <3>2. CASE u = t
        BY <1>2, <1>3, <3>1, <3>2, <1>4 DEF Started
      <3>3. CASE u # t
        BY <1>3, <3>1, <3>3 DEF Started, Place
      <3> QED BY <3>2, <3>3
    <2> QED BY <1>1, <1>2, <1>4, <2>1, <2>2, <2>3
  <1>5. ASSUME NEW u \in Thread PROVE Gone(thread[u])'
    <2>1. CASE u = t
      BY <1>2, <1>3, <2>1 DEF Gone
    <2>2. CASE u # t /\ containers' \subseteq containers
      BY <1>1, <1>3, <2>2 DEF Gone, Place
    <2>3. CASE u # t /\ thread[t].at \in Locked
      <3>1. thread[u].at \notin Locked /\ thread'[u].at = thread[u].at
        BY <1>1, <1>3, <2>3 DEF Solo, Place
      <3> QED BY <3>1 DEF Gone, Locked, Deploying, Stopping
    <2> QED BY <2>1, <2>2, <2>3
  <1> QED BY <1>4, <1>5

\* The same for the containers of each project.
LEMMA MoveServed ==
  ASSUME Ordered, Known, Served, NEW t \in Thread, NEW v, Moves(t, v), UNCHANGED file,
         faults \subseteq faults', NEW p, p = thread[t].project,
         Smooth' /\ FileSound /\ Expects(thread[t]) /\ (\A d \in containers : Recorded(d) \/ Started(d))
             /\ (thread[t].at \in Locked /\ p \in DOMAIN file.projects => Serves(thread[t])) =>
           /\ \A q \in DOMAIN file.projects \ {p} : Containers(q)' = Containers(q)
           /\ v.at \in Locked /\ v.project \in DOMAIN file.projects => Serves(v)'
           /\ (v.at \notin Locked /\ thread[t].at \in Locked /\ p \in DOMAIN file.projects)
                => Containers(p)' = Active(p),
         thread[t].at \in Locked => v.at \notin Locked \/ v.project = p,
         thread[t].at \notin Locked => containers' = containers
  PROVE  Served'
  <1> SUFFICES ASSUME Smooth'
               PROVE  /\ \A q \in DOMAIN file.projects : ~ Busy(q)' => Containers(q)' = Active(q)
                      /\ \A u \in Thread : thread'[u].at \in Locked /\ thread'[u].project \in DOMAIN file.projects
                                             => Serves(thread[u])'
    BY DEF Served, Active
  <1>1. Smooth /\ Steady /\ Calm
    BY FaultsGrow DEF Smooth, Steady, Calm
  <1>2. /\ Solo /\ FileSound /\ \A u \in Thread : Expects(thread[u])
        /\ \A d \in containers : Recorded(d) \/ Started(d)
        /\ \A q \in DOMAIN file.projects : ~ Busy(q) => Containers(q) = Active(q)
        /\ \A u \in Thread : thread[u].at \in Locked /\ thread[u].project \in DOMAIN file.projects
                               => Serves(thread[u])
    BY <1>1 DEF Known, Ordered, Served
  <1>3. /\ \A q \in DOMAIN file.projects \ {p} : Containers(q)' = Containers(q)
        /\ v.at \in Locked /\ v.project \in DOMAIN file.projects => Serves(v)'
        /\ (v.at \notin Locked /\ thread[t].at \in Locked /\ p \in DOMAIN file.projects)
             => Containers(p)' = Active(p)
    BY <1>2
  <1>4. thread'[t] = v /\ \A u \in Thread : u # t => Place(thread[u], thread'[u])
    BY DEF Moves, Core
  <1>5. ASSUME NEW q \in DOMAIN file.projects, ~ Busy(q)' PROVE Containers(q)' = Active(q)
    <2>1. \A u \in Thread : u # t => ~ (thread[u].at \in Locked /\ thread[u].project = q)
      BY <1>4, <1>5 DEF Busy, Place
    <2>2. CASE thread[t].at \in Locked /\ p = q
      <3>1. v.at \notin Locked
        BY <1>4, <1>5, <2>2 DEF Busy
      <3> QED BY <1>3, <2>2, <3>1
    <2>3. CASE ~ (thread[t].at \in Locked /\ p = q)
      <3>1. ~ Busy(q)
        BY <2>1, <2>3 DEF Busy
      <3>2. Containers(q) = Active(q)
        BY <1>2, <3>1
      <3>3. Containers(q)' = Containers(q)
        <4>1. CASE q # p
          BY <1>3, <4>1
        <4>2. CASE containers' = containers
          BY <4>2 DEF Containers
        <4> QED BY <2>3, <4>1, <4>2
      <3> QED BY <3>2, <3>3
    <2> QED BY <2>2, <2>3
  <1>6. ASSUME NEW u \in Thread, thread'[u].at \in Locked, thread'[u].project \in DOMAIN file.projects
        PROVE  Serves(thread[u])'
    <2>1. CASE u = t
      BY <1>3, <1>4, <1>6, <2>1 DEF Serves, Containers, Active
    <2>2. CASE u # t
      <3>1. Place(thread[u], thread'[u]) /\ thread[u].at \in Locked /\ thread[u].project \in DOMAIN file.projects
        BY <1>4, <1>6, <2>2 DEF Place
      <3>2. containers' = containers
        BY <1>2, <2>2, <3>1 DEF Solo
      <3>3. Serves(thread[u])
        BY <1>2, <3>1
      <3> QED BY <3>1, <3>2, <3>3 DEF Serves, Containers, Active, Place
    <2> QED BY <2>1, <2>2
  <1> QED BY <1>5, <1>6

---------------------------------------------------------------------------
(* Going on                                                                *)

\* So does any thread of the table.
LEMMA ContinuedIs ==
  ASSUME NEW th, ThreadOK(th), NEW at \in Ats
  PROVE  Continued(th, at, Continue(th, at))
  <1>1. PICK b : th \in Locals(b)
    BY DEF ThreadOK
  <1> QED BY <1>1, ContinueFacts

\* A thread that goes on keeps the lock it has.
LEMMA GotoAt ==
  ASSUME Typed, NEW t \in Thread, NEW th, ThreadOK(th), NEW at \in Ats, Goto(t, th, at)
  PROVE  \E v : /\ Continued(th, at, v) /\ Moves(t, v) /\ lock' = lock
                /\ \A u \in Thread \ {t} : thread'[u] = thread[u]
  <1>1. PICK v : v = Continue(th, at)
    OBVIOUS
  <1>2. thread' = [thread EXCEPT ![t] = v] /\ lock' = lock
    BY <1>1, AtsAre DEF Goto, Release
  <1>3. Moves(t, v)
    BY <1>2, ExceptMoves
  <1>4. \A u \in Thread \ {t} : thread'[u] = thread[u]
    BY <1>2 DEF Typed
  <1> QED BY <1>1, <1>2, <1>3, <1>4, ContinuedIs

\* One that is done gives it back.
LEMMA GotoDone ==
  ASSUME Typed, NEW t \in Thread, NEW th, Goto(t, th, "done")
  PROVE  /\ Moves(t, Idle) /\ LockKept(t, Idle)
         /\ \A u \in Thread \ {t} : thread'[u] = thread[u]
  <1>1. thread' = [thread EXCEPT ![t] = Idle] /\ lock' = Release(t, "done")
    BY DEF Goto, Continue
  <1>2. Moves(t, Idle)
    BY <1>1, ExceptMoves
  <1>3. \A u \in Thread \ {t} : thread'[u] = thread[u]
    BY <1>1 DEF Typed
  <1> QED BY <1>1, <1>2, <1>3, IdleIs, AtsAre DEF LockKept

\* A thread that goes on is well typed.
LEMMA ContinuedOK ==
  ASSUME projects \in Nat, deployments \in Nat, NEW th, ThreadOK(th), th.at \in Locked,
         NEW at \in Locked, NEW v, Continued(th, at, v),
         at \in Deploying \cup {"clear"} => th.name \in Name,
         at = "old_stopped" => th.old # 0
  PROVE  ThreadOK(v)
  <1>1. StateOK(v.buf)
    BY EmptyOK DEF Continued
  <1>2. v.at # "idle" /\ v.at # "insert_project" /\ th.at # "idle"
    BY AtsAre DEF Continued
  <1>3. v \in Locals(v.buf)
    BY DEF Continued
  <1> QED BY <1>1, <1>2, <1>3 DEF ThreadOK, Continued

\* Something goes wrong.
LEMMA TroubleFacts ==
  ASSUME Typed, NEW kind \in Fault, Trouble(kind)
  PROVE  faults \subseteq faults' /\ faults' \subseteq Fault /\ trouble' \in 0 .. MaxTrouble /\ kind \in faults'
  BY DeploymentServiceAssumption DEF Typed, CountsOK, Trouble

\* Or nothing does.
LEMMA NoTroubleFacts ==
  ASSUME Typed, UNCHANGED <<faults, trouble>>
  PROVE  faults \subseteq faults' /\ faults' \subseteq Fault /\ trouble' \in 0 .. MaxTrouble
  BY DEF Typed, CountsOK

\* An overlap is noted.
LEMMA NoteFacts ==
  ASSUME Typed, NEW b \in BOOLEAN, NoteOverlap(b)
  PROVE  /\ faults \subseteq faults' /\ faults' \subseteq Fault /\ trouble' \in 0 .. MaxTrouble
         /\ Calm' => ~ b
  <1>1. CASE b
    <2>1. Trouble("overlap") /\ "overlap" \in Fault
      BY <1>1 DEF NoteOverlap, Fault
    <2> QED BY <2>1, TroubleFacts DEF Calm
  <1>2. CASE ~ b
    BY <1>2, NoTroubleFacts DEF NoteOverlap
  <1> QED BY <1>1, <1>2

\* Nothing but types is claimed once operations have overlapped.
LEMMA OnlyTyped ==
  ASSUME Typed', ~ Calm'
  PROVE  Inv'
  BY DEF Inv, Ordered, Known, Served, Calm, Steady, Smooth

\* A step between two store operations.
LEMMA QuietMove ==
  ASSUME Inv, NEW t \in Thread, NEW v, Moves(t, v), LockKept(t, v), ThreadOK(v),
         UNCHANGED <<file, temp, projects, deployments>>, \A u \in Thread \ {t} : thread'[u] = thread[u],
         containers' \subseteq 1 .. deployments,
         faults \subseteq faults', faults' \subseteq Fault, trouble' \in 0 .. MaxTrouble,
         ~ Saving(v), v.at # "insert_project", thread[t].at \in Locked,
         Calm' /\ FileSound /\ Expects(thread[t]) => Expects(v),
         Steady' /\ Expects(thread[t]) /\ Gone(thread[t]) =>
           /\ Gone(v)'
           /\ \A d \in containers' : d \in containers \/ (v.at = "running" /\ d = v.dep)
           /\ thread[t].at \in {"running", "unstart"} =>
                \/ v.at \in {"running", "unstart"} /\ v.dep = thread[t].dep
                \/ thread[t].dep \notin containers',
         NEW p, p = thread[t].project, v.at \notin Locked \/ v.project = p,
         Smooth' /\ FileSound /\ Expects(thread[t]) /\ (\A d \in containers : Recorded(d) \/ Started(d))
             /\ (thread[t].at \in Locked /\ p \in DOMAIN file.projects => Serves(thread[t])) =>
           /\ \A q \in DOMAIN file.projects \ {p} : Containers(q)' = Containers(q)
           /\ v.at \in Locked /\ v.project \in DOMAIN file.projects => Serves(v)'
           /\ (v.at \notin Locked /\ thread[t].at \in Locked /\ p \in DOMAIN file.projects)
                => Containers(p)' = Active(p)
  PROVE  Inv'
  <1>1. Typed /\ Ordered /\ Known /\ Served /\ CountsOK
    BY DEF Inv, Typed
  <1>2. Typed'
    <2>1. CountsOK' /\ projects <= projects' /\ deployments <= deployments' /\ projects' \in Nat /\ deployments' \in Nat
      BY <1>1 DEF CountsOK
    <2>2. FilesOK'
      BY <1>1, <2>1, FilesKept
    <2>3. ThreadOK(v)'
      BY <1>1, <2>1, ThreadGrows DEF CountsOK
    <2> QED BY <1>1, <2>1, <2>2, <2>3, MoveTyped
  <1>3. Ordered'
    <2>1. Solo => Apart(t, v)
      BY SoloApart DEF Apart
    <2>2. v.stage # "write" /\ v.stage # "rename" /\ ~ Saving(v)
      BY DEF Saving
    <2>3. Saves(v)'
      BY <2>2 DEF Saves, Saving
    <2> QED BY <1>1, <2>1, <2>3, MoveOrdered
  <1>4. Known'
    BY <1>1, MoveKnown
  <1>5. Served'
    BY <1>1, MoveServed
  <1> QED BY <1>2, <1>3, <1>4, <1>5 DEF Inv

---------------------------------------------------------------------------
(* Steps between store operations                                          *)

\* A deploy or stop that goes on and leaves containers alone.
LEMMA OnwardStep ==
  ASSUME Inv, NEW t \in Thread, thread[t].at \in Locked, NEW at \in Locked, Goto(t, thread[t], at),
         UNCHANGED <<file, temp, projects, deployments, containers>>,
         faults \subseteq faults', faults' \subseteq Fault, trouble' \in 0 .. MaxTrouble,
         at \in Deploying \cup {"clear"} => thread[t].name \in Name,
         at # "old_stopped", at # "stopped", thread[t].at \notin {"running", "unstart"},
         \A v : Continued(thread[t], at, v) /\ Calm' /\ FileSound /\ Expects(thread[t]) => Expects(v),
         \A v : Continued(thread[t], at, v) /\ Smooth' /\ FileSound /\ Expects(thread[t])
                  /\ (\A d \in containers : Recorded(d) \/ Started(d)) /\ Serves(thread[t]) => Serves(v)
  PROVE  Inv'
  <1>1. Typed /\ CountsOK /\ at \in Ats
    BY DEF Inv, Typed, Ats
  <1>2. ThreadOK(thread[t])
    BY <1>1, ThreadIs
  <1>3. PICK v : /\ Continued(thread[t], at, v) /\ Moves(t, v) /\ lock' = lock
                 /\ \A u \in Thread \ {t} : thread'[u] = thread[u]
    BY <1>1, <1>2, GotoAt
  <1>4. ThreadOK(v)
    BY <1>1, <1>2, <1>3, ContinuedOK DEF CountsOK
  <1>5. v.at = at /\ v.project = thread[t].project /\ ~ Saving(v)
    BY <1>3 DEF Continued, Saving
  <1>6. v.at # "insert_project" /\ LockKept(t, v)
    BY <1>3, <1>5, AtsAre DEF LockKept
  <1>7. Gone(v)' /\ containers' \subseteq 1 .. deployments
    BY <1>1, <1>5 DEF Gone, CountsOK
  <1>8. \A q : Containers(q)' = Containers(q)
    BY DEF Containers
  <1>9. Serves(v) => Serves(v)'
    BY DEF Serves, Containers, Active
  <1> QED BY <1>3, <1>4, <1>5, <1>6, <1>7, <1>8, <1>9, QuietMove

\* The source is built, or not.
LEMMA BuildStep ==
  ASSUME Inv, NEW t \in Thread, Build(t)
  PROVE  Inv'
  <1>1. Typed /\ thread[t].at = "build" /\ thread[t].at \in Locked /\ thread[t].name \in Name
    BY ThreadIs DEF Inv, Build, Locked, Deploying, ThreadOK
  <1>2. UNCHANGED <<file, temp, projects, deployments, containers>>
    BY DEF Build, idVars
  <1>3. ASSUME NEW at \in {"image", "failed"}, NEW v, Continued(thread[t], at, v)
        PROVE  (Expects(thread[t]) => Expects(v)) /\ (Serves(thread[t]) => Serves(v))
    <2>1. v.at = at
      BY <1>3 DEF Continued
    <2>2. StatusAt[at] = StatusAt["build"]
      BY DEF StatusAt
    <2>3. Expects(thread[t]) => Expects(v)
      BY <1>1, <1>3, <2>1, <2>2 DEF Expects, Continued, OwnProject, OwnDeployment, Deploying, Locked, Stopping
    <2>4. Serves(thread[t]) => Serves(v)
      BY <1>1, <1>3, <2>1 DEF Serves, Continued
    <2> QED BY <2>3, <2>4
  <1>4. CASE Goto(t, thread[t], "image") /\ UNCHANGED <<faults, trouble>>
    <2>1. PICK at \in Locked : at = "image"
      BY DEF Locked, Deploying
    <2> QED BY <1>1, <1>2, <1>3, <1>4, <2>1, NoTroubleFacts, OnwardStep
  <1>5. CASE Goto(t, thread[t], "failed") /\ Trouble("build")
    <2>1. PICK at \in Locked : at = "failed"
      BY DEF Locked, Deploying
    <2>2. faults \subseteq faults' /\ faults' \subseteq Fault /\ trouble' \in 0 .. MaxTrouble
      BY <1>1, <1>5, TroubleFacts DEF Fault
    <2> QED BY <1>1, <1>2, <1>3, <1>5, <2>1, <2>2, OnwardStep
  <1> QED BY <1>4, <1>5 DEF Build

\* The container is started, or not.
LEMMA StartStaticStep ==
  ASSUME Inv, NEW t \in Thread, StartStatic(t)
  PROVE  Inv'
  <1>1. /\ Typed /\ CountsOK /\ thread[t].at = "start" /\ thread[t].at \in Locked /\ thread[t].name \in Name
        /\ ThreadOK(thread[t]) /\ thread[t].dep \in 1 .. deployments
    BY ThreadIs DEF Inv, StartStatic, Locked, Deploying, ThreadOK, Typed
  <1>2. UNCHANGED <<file, temp, projects, deployments>>
    BY DEF StartStatic, idVars
  <1>3. ASSUME NEW at \in {"running", "failed"}, NEW v, Continued(thread[t], at, v), Expects(thread[t])
        PROVE  Expects(v)
    <2>1. v.at = at
      BY <1>3 DEF Continued
    <2>2. StatusAt[at] = StatusAt["start"]
      BY DEF StatusAt
    <2> QED BY <1>1, <1>3, <2>1, <2>2 DEF Expects, Continued, OwnProject, OwnDeployment, Deploying, Locked, Stopping
  <1>4. CASE Goto(t, thread[t], "failed") /\ Trouble("build") /\ UNCHANGED containers
    <2>1. PICK at \in Locked : at = "failed"
      BY DEF Locked, Deploying
    <2>2. faults \subseteq faults' /\ faults' \subseteq Fault /\ trouble' \in 0 .. MaxTrouble
      BY <1>1, <1>4, TroubleFacts DEF Fault
    <2>3. \A v : Continued(thread[t], at, v) /\ Serves(thread[t]) => Serves(v)
      BY <1>1, <2>1 DEF Serves, Continued
    <2> QED BY <1>1, <1>2, <1>3, <1>4, <2>1, <2>2, <2>3, OnwardStep
  <1>5. ASSUME NEW at \in {"running", "failed"}, Goto(t, thread[t], at),
               containers' = containers \cup {thread[t].dep},
               faults \subseteq faults', faults' \subseteq Fault, trouble' \in 0 .. MaxTrouble,
               at = "failed" => ~ Steady'
        PROVE  Inv'
    <2>1. at \in Ats /\ at \in Locked /\ at \in Deploying /\ at # "old_stopped"
      BY DEF Ats, Locked, Deploying
    <2>2. PICK v : /\ Continued(thread[t], at, v) /\ Moves(t, v) /\ lock' = lock
                   /\ \A u \in Thread \ {t} : thread'[u] = thread[u]
      BY <1>1, <1>5, <2>1, GotoAt
    <2>3. ThreadOK(v)
      BY <1>1, <2>1, <2>2, ContinuedOK DEF CountsOK
    <2>4. v.at = at /\ v.project = thread[t].project /\ v.dep = thread[t].dep /\ ~ Saving(v)
      BY <2>2 DEF Continued, Saving
    <2>5. v.at # "insert_project" /\ LockKept(t, v) /\ v.at \in Locked
      BY <1>1, <2>1, <2>2, <2>4, AtsAre DEF LockKept
    <2>6. Gone(v)' /\ containers' \subseteq 1 .. deployments
      BY <1>1, <1>5, <2>4 DEF Gone, CountsOK
    <2>7. PICK p : p = thread[t].project
      OBVIOUS
    <2>8. ASSUME Smooth', Expects(thread[t]),
                 thread[t].at \in Locked /\ p \in DOMAIN file.projects => Serves(thread[t])
          PROVE  (\A q \in DOMAIN file.projects \ {p} : Containers(q)' = Containers(q)) /\ Serves(v)'
      <3>1. at = "running"
        BY <1>5, <2>8, FaultsGrow
      <3>2. /\ thread[t].dep \in DOMAIN file.deployments /\ file.deployments[thread[t].dep].project = p
            /\ p \in DOMAIN file.projects
        BY <1>1, <2>7, <2>8 DEF Expects, OwnDeployment, OwnProject, Locked, Deploying
      <3>3. Containers(p) = Active(p)
        BY <1>1, <2>7, <2>8, <3>2 DEF Serves
      <3>4. Containers(p)' = Containers(p) \cup {thread[t].dep} /\ Active(p)' = Active(p)
        BY <1>2, <1>5, <3>2 DEF Containers, Active
      <3>5. \A q \in DOMAIN file.projects \ {p} : Containers(q)' = Containers(q)
        BY <1>2, <1>5, <3>2 DEF Containers
      <3>6. Serves(v)'
        BY <2>4, <2>7, <3>1, <3>3, <3>4 DEF Serves
      <3> QED BY <3>5, <3>6
    <2>9. \A d \in containers' : d \in containers \/ d = v.dep
      BY <1>5, <2>4
    <2> QED BY <1>1, <1>2, <1>3, <1>5, <2>2, <2>3, <2>4, <2>5, <2>6, <2>7, <2>8, <2>9, QuietMove
  <1>6. CASE /\ containers' = containers \cup {thread[t].dep}
             /\ Goto(t, thread[t], "running") /\ UNCHANGED <<faults, trouble>>
    BY <1>1, <1>5, <1>6, NoTroubleFacts
  <1>7. CASE /\ Goto(t, thread[t], "failed") /\ Trouble("discovery")
             /\ containers' = containers \cup {thread[t].dep}
    <2>1. /\ faults \subseteq faults' /\ faults' \subseteq Fault /\ trouble' \in 0 .. MaxTrouble
          /\ "discovery" \in faults'
      BY <1>1, <1>7, TroubleFacts DEF Fault
    <2> QED BY <1>5, <1>7, <2>1 DEF Steady
  <1> QED BY <1>4, <1>6, <1>7 DEF StartStatic

\* The runtime stops a container, or fails.
LEMMA StopContainerFacts ==
  ASSUME Typed, NEW d, StopContainer(d)
  PROVE  /\ faults \subseteq faults' /\ faults' \subseteq Fault /\ trouble' \in 0 .. MaxTrouble
         /\ containers' \subseteq containers /\ containers \subseteq containers' \cup {d}
         /\ containers' \subseteq 1 .. deployments
         /\ Steady' => d \notin containers'
  <1>1. CASE containers' = containers \ {d} /\ UNCHANGED <<faults, trouble>>
    BY <1>1, NoTroubleFacts DEF Typed, CountsOK
  <1>2. CASE UNCHANGED containers /\ Trouble("stop")
    <2>1. /\ faults \subseteq faults' /\ faults' \subseteq Fault /\ trouble' \in 0 .. MaxTrouble
          /\ "stop" \in faults'
      BY <1>2, TroubleFacts DEF Fault
    <2> QED BY <1>2, <2>1 DEF Typed, CountsOK, Steady
  <1> QED BY <1>1, <1>2 DEF StopContainer

\* Nothing is expected of a thread that is done.
LEMMA IdleExpects == Expects(Idle) /\ Gone(Idle) /\ ~ Saving(Idle)
  BY IdleIs, AtsAre DEF Expects, Gone, Saving, Deploying

\* A deploy or stop ends between two store operations.
LEMMA DoneStep ==
  ASSUME Inv, NEW t \in Thread, NEW th, thread[t].at \in Locked, Goto(t, th, "done"),
         UNCHANGED <<file, temp, projects, deployments>>,
         containers' \subseteq containers, containers \subseteq containers' \cup {thread[t].dep},
         faults \subseteq faults', faults' \subseteq Fault, trouble' \in 0 .. MaxTrouble,
         Steady' /\ thread[t].at \in {"running", "unstart"} => thread[t].dep \notin containers',
         NEW p, p = thread[t].project,
         Smooth' /\ FileSound /\ Expects(thread[t]) /\ p \in DOMAIN file.projects /\ Serves(thread[t])
            => Containers(p)' = Active(p) /\ containers' = containers
  PROVE  Inv'
  <1>1. Typed /\ CountsOK
    BY DEF Inv, Typed
  <1>2. /\ Moves(t, Idle) /\ LockKept(t, Idle)
        /\ \A u \in Thread \ {t} : thread'[u] = thread[u]
    BY <1>1, GotoDone
  <1>3. ThreadOK(Idle) /\ containers' \subseteq 1 .. deployments
    BY <1>1, IdleOK DEF CountsOK
  <1>4. Expects(Idle) /\ Gone(Idle)' /\ ~ Saving(Idle) /\ Idle.at # "insert_project" /\ Idle.at \notin Locked
    BY IdleExpects, IdleIs, AtsAre DEF Gone
  <1>5. ASSUME Smooth', FileSound, Expects(thread[t]), p \in DOMAIN file.projects => Serves(thread[t])
        PROVE  /\ \A q \in DOMAIN file.projects \ {p} : Containers(q)' = Containers(q)
               /\ p \in DOMAIN file.projects => Containers(p)' = Active(p)
    <2>1. CASE p \in DOMAIN file.projects
      BY <1>5, <2>1 DEF Containers
    <2>2. CASE p \notin DOMAIN file.projects
      <3>1. \A q \in DOMAIN file.projects : q # p
        BY <2>2
      <3>2. thread[t].dep \in DOMAIN file.deployments => file.deployments[thread[t].dep].project = p
        BY <1>5 DEF Expects, OwnDeployment
      <3> QED BY <2>2, <3>1, <3>2 DEF Containers
    <2> QED BY <2>1, <2>2
  <1>6. \A d \in containers' : d \in containers
    OBVIOUS
  <1> QED BY <1>2, <1>3, <1>4, <1>5, <1>6, QuietMove

\* A container whose deployment could not be saved is stopped again.
LEMMA UnstartStep ==
  ASSUME Inv, NEW t \in Thread, Unstart(t)
  PROVE  Inv'
  <1>1. Typed /\ thread[t].at = "unstart" /\ thread[t].at \in Locked
    BY DEF Inv, Unstart, Locked, Deploying
  <1>2. PICK d : d = thread[t].dep
    OBVIOUS
  <1>3. UNCHANGED <<file, temp, projects, deployments>> /\ Goto(t, thread[t], "done") /\ StopContainer(d)
    BY <1>2 DEF Unstart, idVars
  <1>4. /\ faults \subseteq faults' /\ faults' \subseteq Fault /\ trouble' \in 0 .. MaxTrouble
        /\ containers' \subseteq containers /\ containers \subseteq containers' \cup {d}
        /\ Steady' => d \notin containers'
    BY <1>1, <1>3, StopContainerFacts
  <1>5. ~ Serves(thread[t])
    BY <1>1 DEF Serves
  <1>6. PICK p : p = thread[t].project
    OBVIOUS
  <1>7. PICK th : th = thread[t]
    OBVIOUS
  <1> QED BY <1>1, <1>2, <1>3, <1>4, <1>5, <1>6, <1>7, DoneStep

\* The deployment that was active is stopped, if it runs.
LEMMA StopOldStep ==
  ASSUME Inv, NEW t \in Thread, StopOld(t)
  PROVE  Inv'
  <1>1. /\ Typed /\ CountsOK /\ thread[t].at = "old" /\ thread[t].at \in Locked /\ thread[t].name \in Name
        /\ ThreadOK(thread[t])
    BY ThreadIs DEF Inv, StopOld, Locked, Deploying, ThreadOK, Typed
  <1>2. PICK th : th = thread[t]
    OBVIOUS
  <1>3. UNCHANGED <<file, temp, projects, deployments>>
    BY DEF StopOld, idVars
  <1>4. StatusAt["old"] = "running" /\ StatusAt["old_stopped"] = "running" /\ StatusAt["activate"] = "running"
    BY DEF StatusAt
  <1>5. CASE ~ ReplacesOld(th) /\ Goto(t, th, "activate") /\ UNCHANGED <<containers, faults, trouble>>
    <2>1. PICK at \in Locked : at = "activate"
      BY DEF Locked, Deploying
    <2>2. ASSUME NEW v, Continued(th, at, v), Expects(th)
          PROVE  Expects(v)
      BY <1>1, <1>2, <1>4, <2>1, <2>2 DEF Expects, Continued, OwnProject, OwnDeployment, Deploying, Locked, Stopping
    <2>3. ASSUME NEW v, Continued(th, at, v), Smooth', FileSound, Expects(th),
                 \A d \in containers : Recorded(d) \/ Started(d), Serves(th)
          PROVE  Serves(v)
      <3>1. Solo
        BY <1>5, <2>3 DEF Inv, Ordered, Smooth, Calm
      <3>2. \A d : ~ Started(d)
        BY <1>1, <3>1 DEF Started, Solo, Locked, Deploying
      <3>3. th.old \notin containers
        BY <1>5, <2>3, <3>2 DEF Recorded, ReplacesOld, FileSound
      <3>4. Containers(th.project) = Active(th.project) \cup {th.dep} /\ Active(th.project) = {th.old} \ {0}
        BY <1>1, <1>2, <2>3 DEF Serves, Expects, OwnProject, Active, Deploying
      <3>5. Containers(th.project) = {th.dep}
        BY <3>3, <3>4 DEF Containers
      <3> QED BY <2>1, <2>3, <3>5 DEF Serves, Continued
    <2> QED BY <1>1, <1>2, <1>3, <1>5, <2>1, <2>2, <2>3, NoTroubleFacts, OnwardStep
  <1>7. CASE Goto(t, th, "activate") /\ Trouble("disk") /\ UNCHANGED containers
    <2>1. PICK at \in Locked : at = "activate"
      BY DEF Locked, Deploying
    <2>2. ASSUME NEW v, Continued(th, at, v), Expects(th)
          PROVE  Expects(v)
      BY <1>1, <1>2, <1>4, <2>1, <2>2 DEF Expects, Continued, OwnProject, OwnDeployment, Deploying, Locked, Stopping
    <2>3. faults \subseteq faults' /\ faults' \subseteq Fault /\ trouble' \in 0 .. MaxTrouble /\ ~ Smooth'
      BY <1>1, <1>7, TroubleFacts DEF Fault, Smooth
    <2> QED BY <1>1, <1>2, <1>3, <1>7, <2>1, <2>2, <2>3, OnwardStep
  <1>6. CASE ReplacesOld(th) /\ StopContainer(th.old) /\ Goto(t, th, "old_stopped")
    <2>1. PICK at \in Locked : at = "old_stopped"
      BY DEF Locked, Deploying
    <2>2. PICK v : /\ Continued(th, at, v) /\ Moves(t, v) /\ lock' = lock
                   /\ \A u \in Thread \ {t} : thread'[u] = thread[u]
      <3>1. at \in Ats /\ ThreadOK(th) /\ Goto(t, th, at)
        BY <1>1, <1>2, <1>6, <2>1 DEF Ats
      <3> QED BY <1>1, <3>1, GotoAt
    <2>3. th.old \in DOMAIN file.deployments /\ file.deployments[th.old].status = "running" /\ th.old # 0
      BY <1>1, <1>6 DEF ReplacesOld, Typed, FilesOK, StateOK, StateType, CountsOK
    <2>4. ThreadOK(v)
      <3>1. ThreadOK(th) /\ th.at \in Locked /\ th.name \in Name
        BY <1>1, <1>2
      <3> QED BY <1>1, <2>2, <2>3, <3>1, ContinuedOK DEF CountsOK
    <2>5. v.at = at /\ v.project = thread[t].project /\ v.dep = th.dep /\ v.old = th.old /\ ~ Saving(v)
      BY <1>2, <2>2 DEF Continued, Saving
    <2>6. v.at # "insert_project" /\ LockKept(t, v) /\ v.at \in Locked
      BY <1>1, <2>1, <2>2, <2>5, AtsAre DEF LockKept
    <2>7. /\ faults \subseteq faults' /\ faults' \subseteq Fault /\ trouble' \in 0 .. MaxTrouble
          /\ containers' \subseteq containers /\ containers \subseteq containers' \cup {th.old}
          /\ containers' \subseteq 1 .. deployments
          /\ Steady' => th.old \notin containers'
      <3>1. PICK o : o = th.old
        OBVIOUS
      <3> QED BY <1>1, <1>6, <3>1, StopContainerFacts
    <2>8. Steady' => Gone(v)'
      BY <2>1, <2>5, <2>7 DEF Gone
    <2>9. Expects(th) => Expects(v)
      <3>1. ASSUME Expects(th) PROVE OwnProject(v) /\ OwnDeployment(v) /\ OldDeployment(v)
        BY <1>1, <1>2, <1>4, <2>1, <2>2, <2>3, <3>1
           DEF Expects, Continued, OwnProject, OwnDeployment, OldDeployment, Deploying, Locked
      <3> QED BY <2>1, <2>5, <3>1 DEF Expects, Locked, Deploying, Stopping
    <2>10. PICK p : p = thread[t].project
      OBVIOUS
    <2>11. ASSUME Smooth', FileSound, Expects(th), p \in DOMAIN file.projects => Serves(th)
           PROVE  (\A q \in DOMAIN file.projects \ {p} : Containers(q)' = Containers(q)) /\ Serves(v)'
      <3>1. p \in DOMAIN file.projects /\ file.projects[p].active = th.old /\ th.dep # th.old
        BY <1>1, <1>2, <2>10, <2>11 DEF Expects, OwnProject, Deploying
      <3>2. file.deployments[th.old].project = p
        BY <2>3, <2>11, <3>1 DEF FileSound
      <3>3. Containers(p) = {th.old} \cup {th.dep}
        BY <1>1, <1>2, <2>3, <2>10, <2>11, <3>1 DEF Serves, Active
      <3>4. containers' = containers \ {th.old}
        BY <2>7, <2>11, FaultsGrow
      <3>5. Containers(p)' = {th.dep}
        BY <1>3, <3>1, <3>3, <3>4 DEF Containers
      <3>6. \A q \in DOMAIN file.projects \ {p} : Containers(q)' = Containers(q)
        BY <1>3, <3>2, <3>4 DEF Containers
      <3>7. Serves(v)'
        BY <2>1, <2>5, <2>10, <3>5 DEF Serves
      <3> QED BY <3>6, <3>7
    <2>12. thread[t].at \notin {"running", "unstart"}
      BY <1>1
    <2> QED BY <1>1, <1>2, <1>3, <2>2, <2>4, <2>5, <2>6, <2>7, <2>8, <2>9, <2>10, <2>11, <2>12, QuietMove
  <1> QED BY <1>2, <1>5, <1>6, <1>7 DEF StopOld

\* stop asks the runtime.
LEMMA HaltStep ==
  ASSUME Inv, NEW t \in Thread, Halt(t)
  PROVE  Inv'
  <1>1. /\ Typed /\ CountsOK /\ thread[t].at = "halt" /\ thread[t].at \in Locked
        /\ ThreadOK(thread[t])
    BY ThreadIs DEF Inv, Halt, Locked, Stopping, Typed
  <1>2. PICK th : th = thread[t]
    OBVIOUS
  <1>3. UNCHANGED <<file, temp, projects, deployments>>
    BY DEF Halt, idVars
  <1>4. PICK p : p = thread[t].project
    OBVIOUS
  <1>5. CASE Goto(t, th, "done") /\ Trouble("stop") /\ UNCHANGED containers
    <2>1. /\ faults \subseteq faults' /\ faults' \subseteq Fault /\ trouble' \in 0 .. MaxTrouble
          /\ "stop" \in faults'
      BY <1>1, <1>5, TroubleFacts DEF Fault
    <2>2. ~ Smooth' /\ containers' \subseteq containers /\ containers \subseteq containers' \cup {thread[t].dep}
      BY <1>5, <2>1 DEF Smooth
    <2> QED BY <1>1, <1>3, <1>4, <1>5, <2>1, <2>2, DoneStep
  <1>6. CASE containers' = containers \ {th.dep} /\ Goto(t, th, "stopped") /\ UNCHANGED <<faults, trouble>>
    <2>1. PICK at \in Locked : at = "stopped"
      BY DEF Locked, Stopping
    <2>2. PICK v : /\ Continued(th, at, v) /\ Moves(t, v) /\ lock' = lock
                   /\ \A u \in Thread \ {t} : thread'[u] = thread[u]
      <3>1. at \in Ats /\ ThreadOK(th) /\ Goto(t, th, at)
        BY <1>1, <1>2, <1>6, <2>1 DEF Ats
      <3> QED BY <1>1, <3>1, GotoAt
    <2>3. ThreadOK(v)
      <3>1. ThreadOK(th) /\ th.at \in Locked /\ at \notin Deploying \cup {"clear"} /\ at # "old_stopped"
        BY <1>1, <1>2, <2>1 DEF Deploying
      <3> QED BY <1>1, <2>2, <3>1, ContinuedOK DEF CountsOK
    <2>4. v.at = at /\ v.project = thread[t].project /\ v.dep = th.dep /\ ~ Saving(v)
      BY <1>2, <2>2 DEF Continued, Saving
    <2>5. v.at # "insert_project" /\ LockKept(t, v) /\ v.at \in Locked
      BY <1>1, <2>1, <2>2, <2>4, AtsAre DEF LockKept
    <2>6. Gone(v)' /\ containers' \subseteq 1 .. deployments /\ containers' \subseteq containers
      BY <1>1, <1>6, <2>1, <2>4 DEF Gone, CountsOK
    <2>7. Expects(th) => Expects(v)
      <3>1. StatusAt["halt"] = StatusAt["stopped"]
        BY DEF StatusAt
      <3> QED BY <1>1, <1>2, <2>1, <2>2, <3>1 DEF Expects, Continued, OwnDeployment, Deploying, Locked, Stopping
    <2>8. ASSUME Expects(th), p \in DOMAIN file.projects => Serves(th)
          PROVE  /\ \A q \in DOMAIN file.projects \ {p} : Containers(q)' = Containers(q)
                 /\ p \in DOMAIN file.projects => Serves(v)'
      <3>1. file.deployments[th.dep].project = p
        BY <1>1, <1>2, <1>4, <2>8 DEF Expects, OwnDeployment, Locked, Stopping
      <3>2. \A q \in DOMAIN file.projects \ {p} : Containers(q)' = Containers(q)
        BY <1>3, <1>6, <3>1 DEF Containers
      <3>3. ASSUME p \in DOMAIN file.projects PROVE Serves(v)'
        <4>1. Containers(p) = Active(p)
          BY <1>1, <1>2, <1>4, <2>8, <3>3 DEF Serves
        <4>2. Containers(p)' = Active(p) \ {th.dep}
          BY <1>3, <1>6, <4>1 DEF Containers
        <4>3. Active(p)' = Active(p)
          BY <1>3 DEF Active
        <4> QED BY <1>4, <2>1, <2>4, <4>2, <4>3 DEF Serves
      <3> QED BY <3>2, <3>3
    <2>9. thread[t].at \notin {"running", "unstart"}
      BY <1>1
    <2> QED BY <1>1, <1>2, <1>3, <1>4, <1>6, <2>2, <2>3, <2>4, <2>5, <2>6, <2>7, <2>8, <2>9,
               NoTroubleFacts, QuietMove
  <1> QED BY <1>2, <1>5, <1>6 DEF Halt

\* The local variables th with the name of a project.
Named(th, name) == [th EXCEPT !.name = name]

\* Those are well typed, and the other fields stay.
LEMMA NamedFacts ==
  ASSUME NEW th, ThreadOK(th), th.at # "idle", NEW name \in Name
  PROVE  /\ ThreadOK(Named(th, name)) /\ Named(th, name).at = th.at /\ Named(th, name).name = name
         /\ Named(th, name).project = th.project /\ Named(th, name).dep = th.dep
  <1>1. PICK b : b = th.buf /\ th \in Locals(b)
    BY DEF ThreadOK
  <1>2. PICK w : w = Named(th, name)
    OBVIOUS
  <1>3. /\ w.at = th.at /\ w.stage = th.stage /\ w.project = th.project /\ w.name = name
        /\ w.old = th.old /\ w.dep = th.dep /\ w.buf = b /\ w.fd = th.fd /\ w.alone = th.alone
    BY <1>1, <1>2 DEF Named, Locals
  <1>4. w \in Locals(b)
    BY <1>1, <1>2, Zenon DEF Named, Locals
  <1>5. ThreadOK(w)
    BY <1>1, <1>3, <1>4 DEF ThreadOK
  <1> QED BY <1>2, <1>3, <1>5

\* The project is read again once its deployment is stopped.
LEMMA ClearActiveStep ==
  ASSUME Inv, NEW t \in Thread, ClearActive(t)
  PROVE  Inv'
  <1>1. /\ Typed /\ CountsOK /\ thread[t].at = "own" /\ thread[t].at \in Locked
        /\ ThreadOK(thread[t])
    BY ThreadIs DEF Inv, ClearActive, Locked, Stopping, Typed
  <1>2. PICK th : th = thread[t]
    OBVIOUS
  <1>3. UNCHANGED <<file, temp, projects, deployments, containers>>
    BY DEF ClearActive, idVars
  <1>4. PICK p : p = thread[t].project
    OBVIOUS
  <1>5. CASE /\ ~ (~ file.torn /\ p \in DOMAIN file.projects /\ file.projects[p].active = th.dep)
             /\ Goto(t, th, "done") /\ UNCHANGED <<faults, trouble>>
    <2>1. ASSUME FileSound, p \in DOMAIN file.projects, Serves(th) PROVE Containers(p)' = Active(p)
      <3>1. Containers(p) = Active(p) \ {th.dep}
        BY <1>1, <1>2, <1>4, <2>1 DEF Serves
      <3>2. Containers(p) = Active(p)
        BY <1>5, <2>1, <3>1 DEF Active, FileSound
      <3> QED BY <1>3, <3>2 DEF Containers
    <2> QED BY <1>1, <1>2, <1>3, <1>4, <1>5, <2>1, NoTroubleFacts, DoneStep
  <1>6. CASE /\ ~ file.torn /\ p \in DOMAIN file.projects /\ file.projects[p].active = th.dep
             /\ Goto(t, Named(th, file.projects[p].name), "clear") /\ UNCHANGED <<faults, trouble>>
    <2>1. PICK name \in Name : name = file.projects[p].name
      BY <1>1, <1>6 DEF Typed, FilesOK, StateOK, StateType
    <2>2. PICK tn : tn = Named(th, name)
      OBVIOUS
    <2>3. /\ ThreadOK(tn) /\ tn.at = th.at /\ tn.name = name
          /\ tn.project = th.project /\ tn.dep = th.dep
      BY <1>1, <1>2, <2>2, NamedFacts
    <2>4. PICK at \in Locked : at = "clear"
      BY DEF Locked, Stopping
    <2>5. PICK v : /\ Continued(tn, at, v) /\ Moves(t, v) /\ lock' = lock
                   /\ \A u \in Thread \ {t} : thread'[u] = thread[u]
      <3>1. at \in Ats /\ Goto(t, tn, at)
        BY <1>6, <2>1, <2>2, <2>4 DEF Ats
      <3> QED BY <1>1, <2>3, <3>1, GotoAt
    <2>6. ThreadOK(v)
      <3>1. tn.at \in Locked /\ at # "old_stopped"
        BY <1>1, <1>2, <2>3, <2>4
      <3> QED BY <1>1, <2>3, <2>5, <3>1, ContinuedOK DEF CountsOK
    <2>7. v.at = at /\ v.project = thread[t].project /\ v.dep = th.dep /\ v.name = name /\ ~ Saving(v)
      BY <1>2, <2>3, <2>5 DEF Continued, Saving
    <2>8. v.at # "insert_project" /\ LockKept(t, v) /\ v.at \in Locked
      BY <1>1, <2>4, <2>5, <2>7, AtsAre DEF LockKept
    <2>9. Gone(v)' /\ containers' \subseteq 1 .. deployments /\ containers' \subseteq containers
      BY <1>1, <1>3, <2>4, <2>7 DEF Gone, CountsOK
    <2>10. Expects(th) => Expects(v)
      <3>1. StatusAt["own"] = StatusAt["clear"]
        BY DEF StatusAt
      <3>2. ActiveProject(v)
        BY <1>2, <1>4, <1>6, <2>1, <2>7 DEF ActiveProject
      <3> QED BY <1>1, <1>2, <2>4, <2>7, <3>1, <3>2 DEF Expects, OwnDeployment, Deploying, Locked, Stopping
    <2>11. /\ \A q : Containers(q)' = Containers(q)
           /\ Serves(th) => Serves(v)'
      <3>1. /\ \A q : Containers(q)' = Containers(q)
            /\ \A q : Active(q)' = Active(q)
        BY <1>3 DEF Containers, Active
      <3> QED BY <1>1, <1>2, <2>4, <2>7, <3>1 DEF Serves
    <2>12. thread[t].at \notin {"running", "unstart"}
      BY <1>1
    <2> QED BY <1>1, <1>2, <1>3, <1>4, <1>6, <2>5, <2>6, <2>7, <2>8, <2>9, <2>10, <2>11, <2>12,
               NoTroubleFacts, QuietMove
  <1>7. CASE Goto(t, th, "done") /\ Trouble("disk")
    <2>1. faults \subseteq faults' /\ faults' \subseteq Fault /\ trouble' \in 0 .. MaxTrouble /\ ~ Smooth'
      BY <1>1, <1>7, TroubleFacts DEF Fault, Smooth
    <2> QED BY <1>1, <1>2, <1>3, <1>4, <1>7, <2>1, DoneStep
  <1> QED BY <1>2, <1>4, <1>5, <1>6, <1>7 DEF ClearActive, Named

---------------------------------------------------------------------------
(* Beginning                                                               *)

\* An operation that begins is well typed.
LEMMA BegunOK ==
  ASSUME projects \in Nat, deployments \in Nat, projects' \in Nat, deployments' \in Nat,
         projects <= projects', deployments <= deployments',
         NEW b, NEW at \in {"insert_project", "insert_deployment", "halt"}, NEW v, Continued(b, at, v),
         b.project \in 1 .. projects', b.old \in 0 .. deployments',
         at # "halt" => b.name \in Name, at # "insert_project" => b.dep \in 1 .. deployments'
  PROVE  ThreadOK(v)'
  <1>1. StateOK(Empty)'
    <2>1. PICK e : e = Empty
      OBVIOUS
    <2>2. StateOK(e)
      BY <2>1, EmptyOK
    <2>3. StateOK(e)'
      BY <2>2, StateGrows
    <2> QED BY <2>1, <2>3
  <1>2. v.buf = Empty /\ v \in Locals(v.buf) /\ StateOK(v.buf)'
    BY <1>1 DEF Continued
  <1>3. /\ at \notin {"idle", "clear", "old_stopped"} /\ (at \in Locked => at # "insert_project")
        /\ (at \in {"insert_project", "clear"} \cup Deploying => at # "halt")
        /\ (at \in Updates <=> at # "halt")
    BY DEF Locked, Deploying, Stopping, Updates
  <1>4. v.at = at /\ v.project = b.project /\ v.old = b.old /\ v.name = b.name /\ v.dep = b.dep
        /\ v.fd = "none" /\ v.stage = IF at \in Updates THEN "load" ELSE "none"
    BY DEF Continued
  <1> QED BY <1>2, <1>3, <1>4 DEF ThreadOK

\* An operation begins, without having changed anything.
LEMMA BeginStep ==
  ASSUME Inv, NEW t \in Thread, thread[t] = Idle, NEW v, Moves(t, v), LockKept(t, v), ThreadOK(v)',
         \A u \in Thread \ {t} : thread'[u] = thread[u],
         projects' \in Nat, deployments' \in Nat, projects <= projects', deployments <= deployments',
         UNCHANGED <<file, temp, containers>>,
         faults \subseteq faults', faults' \subseteq Fault, trouble' \in 0 .. MaxTrouble,
         ~ Saving(v), v.at \in {"insert_project", "insert_deployment", "halt"},
         Calm' => Apart(t, v), Calm' /\ FileSound => Expects(v)
  PROVE  Inv'
  <1>1. Typed /\ Ordered /\ Known /\ Served /\ CountsOK
    BY DEF Inv, Typed
  <1>2. thread[t].at = "idle" /\ "idle" \notin Locked /\ "insert_project" \notin Locked
    BY IdleIs, AtsAre
  <1>3. Typed'
    <2>1. 1 .. deployments \subseteq 1 .. deployments'
      BY <1>1 DEF CountsOK
    <2>2. CountsOK'
      BY <1>1, <2>1 DEF CountsOK
    <2>3. FilesOK'
      BY <1>1, FilesKept
    <2> QED BY <1>1, <2>2, <2>3, MoveTyped
  <1>4. Ordered'
    <2>1. v.stage # "write" /\ v.stage # "rename"
      BY DEF Saving
    <2>2. Saves(v)'
      BY <2>1 DEF Saves, Saving
    <2> QED BY <1>1, <2>2, MoveOrdered
  <1>5. Known'
    <2>1. Gone(v)'
      BY DEF Gone
    <2> QED BY <1>1, <1>2, <2>1, MoveKnown
  <1>6. Served'
    <2>1. ASSUME Smooth', v.at \in Locked, v.project \in DOMAIN file.projects PROVE Serves(v)'
      <3>1. Smooth /\ Calm'
        BY <2>1, FaultsGrow
      <3>2. ~ Busy(v.project)
        BY <1>2, <2>1, <3>1 DEF Busy, Apart
      <3>3. Containers(v.project) = Active(v.project)
        BY <1>1, <2>1, <3>1, <3>2 DEF Served
      <3>4. Containers(v.project)' = Active(v.project)'
        BY <3>3 DEF Containers, Active
      <3> QED BY <1>2, <2>1, <3>4 DEF Serves
    <2>2. PICK p : p = thread[t].project
      OBVIOUS
    <2>3. \A q : Containers(q)' = Containers(q)
      BY DEF Containers
    <2> QED BY <1>1, <1>2, <2>1, <2>2, <2>3, MoveServed
  <1> QED BY <1>3, <1>4, <1>5, <1>6 DEF Inv

\* A project is created, under a name that was free.
LEMMA CreateProjectStep ==
  ASSUME Inv, NEW t \in Thread, NEW name \in Name, CreateProject(t, name)
  PROVE  Inv'
  <1>1. /\ Typed /\ CountsOK /\ FilesOK /\ projects \in Nat /\ deployments \in Nat
        /\ thread[t] = Idle
    BY DEF Inv, Typed, CountsOK, CreateProject
  <1>2. /\ projects' = projects + 1 /\ deployments' = deployments
        /\ UNCHANGED <<file, temp, containers>>
    BY DEF CreateProject
  <1>3. projects' \in Nat /\ deployments' \in Nat /\ projects <= projects' /\ deployments <= deployments'
    BY <1>1, <1>2
  <1>4. PICK b : b = [Idle EXCEPT !.project = projects', !.name = name]
    OBVIOUS
  <1>5. b \in Locals(Empty)
    BY <1>3, <1>4, IdleIs, Zenon DEF Locals
  <1>6. b.project = projects' /\ b.name = name /\ b.old = 0
    BY <1>4, IdleIs DEF Idle
  <1>7. PICK at \in Ats : at = "insert_project"
    BY DEF Ats
  <1>8. PICK v : v = Continue(b, at)
    OBVIOUS
  <1>9. Continued(b, at, v)
    BY <1>5, <1>8, ContinueFacts
  <1>10. thread' = [thread EXCEPT ![t] = v] /\ lock' = lock
    BY <1>4, <1>7, <1>8 DEF CreateProject, Goto, Release
  <1>11. Moves(t, v) /\ \A u \in Thread \ {t} : thread'[u] = thread[u]
    BY <1>1, <1>10, ExceptMoves DEF Typed
  <1>12. ThreadOK(v)'
    <2>1. b.project \in 1 .. projects' /\ b.old \in 0 .. deployments'
      BY <1>1, <1>2, <1>6
    <2> QED BY <1>1, <1>3, <1>6, <1>7, <1>9, <2>1, BegunOK
  <1>13. v.at = "insert_project" /\ ~ Saving(v) /\ LockKept(t, v)
    BY <1>1, <1>7, <1>9, <1>10, IdleIs, AtsAre DEF Continued, Saving, LockKept
  <1>14. PICK o \in BOOLEAN : o <=> \E u \in Thread : thread[u].at = "insert_project"
    OBVIOUS
  <1>15. NoteOverlap(o)
    BY <1>14 DEF CreateProject, NoteOverlap
  <1>16. /\ faults \subseteq faults' /\ faults' \subseteq Fault /\ trouble' \in 0 .. MaxTrouble
         /\ Calm' => ~ o
    BY <1>1, <1>15, NoteFacts
  <1>17. Calm' => Apart(t, v)
    BY <1>13, <1>14, <1>16, AtsAre DEF Apart
  <1>18. Expects(v)
    <2>1. v.project = projects' /\ v.name = name
      BY <1>6, <1>9 DEF Continued
    <2>2. v.project \notin DOMAIN file.projects
      BY <1>1, <1>2, <2>1 DEF FilesOK, StateOK, StateType
    <2>3. NewProject(v)
      BY <2>1, <2>2 DEF NewProject, CreateProject
    <2> QED BY <1>13, <2>3, AtsAre DEF Expects, Deploying
  <1> QED BY <1>1, <1>2, <1>3, <1>11, <1>12, <1>13, <1>16, <1>17, <1>18, BeginStep

\* No other process holds its lock, unless that was noted.
LEMMA LockApart ==
  ASSUME Typed, NEW t \in Thread, lock[ProcessOf[t]] = None, NoteOverlap(OtherProcess(t))
  PROVE  /\ faults \subseteq faults' /\ faults' \subseteq Fault /\ trouble' \in 0 .. MaxTrouble
         /\ Calm' => \A u \in Thread : thread[u].at \notin Locked
  <1>1. PICK o \in BOOLEAN : o <=> OtherProcess(t)
    BY DEF OtherProcess
  <1>2. NoteOverlap(o)
    BY <1>1 DEF NoteOverlap
  <1>3. /\ faults \subseteq faults' /\ faults' \subseteq Fault /\ trouble' \in 0 .. MaxTrouble
        /\ Calm' => ~ o
    BY <1>2, NoteFacts
  <1>4. ASSUME ~ o, NEW u \in Thread, thread[u].at \in Locked PROVE FALSE
    <2>1. lock[ProcessOf[u]] = u /\ u # None /\ ProcessOf[u] \in Process
      BY <1>4, DeploymentServiceAssumption DEF Typed, LocksOK
    <2> QED BY <1>1, <1>4, <2>1 DEF OtherProcess
  <1> QED BY <1>3, <1>4

\* A deploy begins.
LEMMA DeployStep ==
  ASSUME Inv, NEW t \in Thread, NEW p \in 1 .. projects, Deploy(t, p)
  PROVE  Inv'
  <1>1. /\ Typed /\ CountsOK /\ FilesOK /\ projects \in Nat /\ deployments \in Nat
        /\ thread[t] = Idle /\ lock[ProcessOf[t]] = None
    BY DEF Inv, Typed, CountsOK, Deploy, CanLock
  <1>2. /\ deployments' = deployments + 1 /\ projects' = projects
        /\ UNCHANGED <<file, temp, containers>>
    BY DEF Deploy
  <1>3. projects' \in Nat /\ deployments' \in Nat /\ projects <= projects' /\ deployments <= deployments'
    BY <1>1, <1>2
  <1>4. PICK row : row = file.projects[p]
    OBVIOUS
  <1>5. p \in DOMAIN file.projects /\ row.name \in Name /\ row.active \in 0 .. deployments
    BY <1>1, <1>4 DEF Deploy, FilesOK, StateOK, StateType
  <1>6. PICK b : b = [Idle EXCEPT !.project = p, !.name = row.name, !.old = row.active, !.dep = deployments']
    OBVIOUS
  <1>7. b \in Locals(Empty)
    <2>1. p \in Nat /\ row.name \in Name \cup {None} /\ row.active \in Nat
      BY <1>1, <1>5
    <2> QED BY <1>3, <1>6, <2>1, IdleIs, Zenon DEF Locals
  <1>8. b.project = p /\ b.name = row.name /\ b.old = row.active /\ b.dep = deployments'
    BY <1>6, IdleIs DEF Idle
  <1>9. PICK at \in Ats : at = "insert_deployment"
    BY DEF Ats, Locked, Deploying
  <1>10. PICK v : v = Continue(b, at)
    OBVIOUS
  <1>11. Continued(b, at, v)
    BY <1>7, <1>10, ContinueFacts
  <1>12. thread' = [thread EXCEPT ![t] = v] /\ lock' = [lock EXCEPT ![ProcessOf[t]] = t]
    BY <1>4, <1>6, <1>9, <1>10 DEF Deploy
  <1>13. Moves(t, v) /\ \A u \in Thread \ {t} : thread'[u] = thread[u]
    BY <1>1, <1>12, ExceptMoves DEF Typed
  <1>14. ThreadOK(v)'
    <2>1. b.old \in 0 .. deployments' /\ b.dep \in 1 .. deployments'
      BY <1>1, <1>2, <1>5, <1>8
    <2> QED BY <1>1, <1>2, <1>3, <1>5, <1>8, <1>9, <1>11, <2>1, BegunOK
  <1>15. v.at = "insert_deployment" /\ v.at \in Locked /\ ~ Saving(v) /\ LockKept(t, v)
    BY <1>1, <1>9, <1>11, <1>12 DEF Continued, Saving, LockKept, Locked, Deploying
  <1>16. /\ faults \subseteq faults' /\ faults' \subseteq Fault /\ trouble' \in 0 .. MaxTrouble
         /\ Calm' => \A u \in Thread : thread[u].at \notin Locked
    BY <1>1, LockApart DEF Deploy
  <1>17. Calm' => Apart(t, v)
    BY <1>15, <1>16 DEF Apart
  <1>18. Expects(v)
    <2>1. v.project = p /\ v.name = row.name /\ v.old = row.active /\ v.dep = deployments'
      BY <1>8, <1>11 DEF Continued
    <2>2. v.dep \notin DOMAIN file.deployments /\ v.dep # v.old
      BY <1>1, <1>2, <1>5, <2>1 DEF FilesOK, StateOK, StateType
    <2>3. OwnProject(v)
      BY <1>4, <1>5, <2>1, <2>2 DEF OwnProject
    <2> QED BY <1>15, <2>2, <2>3 DEF Expects
  <1> QED BY <1>1, <1>2, <1>3, <1>13, <1>14, <1>15, <1>16, <1>17, <1>18, BeginStep

\* A stop begins.
LEMMA StopStep ==
  ASSUME Inv, NEW t \in Thread, NEW d \in 1 .. deployments, Stop(t, d)
  PROVE  Inv'
  <1>1. /\ Typed /\ CountsOK /\ FilesOK /\ projects \in Nat /\ deployments \in Nat
        /\ thread[t] = Idle /\ lock[ProcessOf[t]] = None
    BY DEF Inv, Typed, CountsOK, Stop, CanLock
  <1>2. UNCHANGED <<file, temp, containers, projects, deployments>>
    BY DEF Stop, idVars
  <1>3. projects' \in Nat /\ deployments' \in Nat /\ projects <= projects' /\ deployments <= deployments'
    BY <1>1, <1>2
  <1>4. PICK p : p = file.deployments[d].project
    OBVIOUS
  <1>5. d \in DOMAIN file.deployments /\ file.deployments[d].status = "running" /\ p \in 1 .. projects
    BY <1>1, <1>4 DEF Stop, Stoppable, FilesOK, StateOK, StateType
  <1>6. PICK b : b = [Idle EXCEPT !.project = p, !.dep = d]
    OBVIOUS
  <1>7. b \in Locals(Empty)
    <2>1. p \in Nat /\ d \in Nat
      BY <1>1, <1>5
    <2> QED BY <1>6, <2>1, IdleIs, Zenon DEF Locals
  <1>8. b.project = p /\ b.dep = d /\ b.old = 0
    BY <1>6, IdleIs DEF Idle
  <1>9. PICK at \in Ats : at = "halt"
    BY DEF Ats, Locked, Stopping
  <1>10. PICK v : v = Continue(b, at)
    OBVIOUS
  <1>11. Continued(b, at, v)
    BY <1>7, <1>10, ContinueFacts
  <1>12. thread' = [thread EXCEPT ![t] = v] /\ lock' = [lock EXCEPT ![ProcessOf[t]] = t]
    BY <1>4, <1>6, <1>9, <1>10 DEF Stop
  <1>13. Moves(t, v) /\ \A u \in Thread \ {t} : thread'[u] = thread[u]
    BY <1>1, <1>12, ExceptMoves DEF Typed
  <1>14. ThreadOK(v)'
    <2>1. b.old \in 0 .. deployments' /\ b.dep \in 1 .. deployments' /\ b.project \in 1 .. projects'
      BY <1>1, <1>2, <1>5, <1>8
    <2> QED BY <1>1, <1>3, <1>9, <1>11, <2>1, BegunOK
  <1>15. v.at = "halt" /\ v.at \in Locked /\ ~ Saving(v) /\ LockKept(t, v)
    BY <1>1, <1>9, <1>11, <1>12 DEF Continued, Saving, LockKept, Locked, Stopping
  <1>16. /\ faults \subseteq faults' /\ faults' \subseteq Fault /\ trouble' \in 0 .. MaxTrouble
         /\ Calm' => \A u \in Thread : thread[u].at \notin Locked
    BY <1>1, LockApart DEF Stop
  <1>17. Calm' => Apart(t, v)
    BY <1>15, <1>16 DEF Apart
  <1>18. Expects(v)
    <2>1. v.project = p /\ v.dep = d /\ StatusAt["halt"] = "running"
      BY <1>8, <1>11 DEF Continued, StatusAt
    <2>2. OwnDeployment(v)
      BY <1>4, <1>5, <1>15, <2>1 DEF OwnDeployment
    <2> QED BY <1>15, <2>2 DEF Expects, Deploying
  <1> QED BY <1>1, <1>2, <1>3, <1>13, <1>14, <1>15, <1>16, <1>17, <1>18, BeginStep

---------------------------------------------------------------------------
(* The steps of a store operation                                          *)

\* A state with a project inserted or replaced is well typed.
LEMMA PutProjectOK ==
  ASSUME NEW s, StateOK(s), NEW p \in 1 .. projects, NEW name \in Name, NEW active \in 0 .. deployments
  PROVE  StateOK(PutProject(s, p, name, active))
  <1>1. PICK r : /\ r = PutProject(s, p, name, active) /\ r \in States(r.projects, r.deployments)
                 /\ r.torn = s.torn /\ r.deployments = s.deployments
                 /\ DOMAIN r.projects = DOMAIN s.projects \cup {p}
                 /\ r.projects[p].name = name /\ r.projects[p].active = active
                 /\ \A q \in DOMAIN s.projects : q # p => r.projects[q] = s.projects[q]
    BY PutProjectFacts DEF StateOK
  <1>2. StateOK(r)
    BY <1>1 DEF StateOK, StateType
  <1> QED BY <1>1, <1>2

\* So is one with a deployment inserted or replaced.
LEMMA PutDeploymentOK ==
  ASSUME NEW s, StateOK(s), NEW d \in 1 .. deployments, NEW p \in 1 .. projects, NEW st \in Status
  PROVE  StateOK(PutDeployment(s, d, p, st))
  <1>1. PICK r : /\ r = PutDeployment(s, d, p, st) /\ r \in States(r.projects, r.deployments)
                 /\ r.torn = s.torn /\ r.projects = s.projects
                 /\ DOMAIN r.deployments = DOMAIN s.deployments \cup {d}
                 /\ r.deployments[d].project = p /\ r.deployments[d].status = st
                 /\ \A e \in DOMAIN s.deployments : e # d => r.deployments[e] = s.deployments[e]
    BY PutDeploymentFacts DEF StateOK
  <1>2. StateOK(r)
    BY <1>1 DEF StateOK, StateType
  <1> QED BY <1>1, <1>2

\* The status a store operation on the thread's own deployment gives it.
Becomes ==
  [insert_deployment |-> "pending", building |-> "building", image |-> "building",
   running |-> "running", failed |-> "failed", stopped |-> "stopped"]
Owns == {"insert_deployment", "building", "image", "running", "failed", "stopped"}

\* The store operations, by what they change.
LEMMA ChangeIs ==
  ASSUME NEW th, NEW s
  PROVE  /\ th.at \in Owns => Change(th, s) = PutDeployment(s, th.dep, th.project, Becomes[th.at])
         /\ th.at = "old_stopped" => Change(th, s) = PutDeployment(s, th.old, th.project, "stopped")
         /\ th.at \in {"insert_project", "clear"} => Change(th, s) = PutProject(s, th.project, th.name, 0)
         /\ th.at = "activate" => Change(th, s) = PutProject(s, th.project, th.name, th.dep)
  <1>1. th.at \in Owns => Change(th, s) = PutDeployment(s, th.dep, th.project, Becomes[th.at])
    BY DEF Change, Owns, Becomes
  <1>2. th.at = "old_stopped" => Change(th, s) = PutDeployment(s, th.old, th.project, "stopped")
    BY DEF Change
  <1>3. th.at \in {"insert_project", "clear"} => Change(th, s) = PutProject(s, th.project, th.name, 0)
    BY DEF Change
  <1>4. th.at = "activate" => Change(th, s) = PutProject(s, th.project, th.name, th.dep)
    BY DEF Change
  <1> QED BY <1>1, <1>2, <1>3, <1>4

\* They are all there are, and all but the first are made under the lock.
LEMMA UpdatesAre ==
  /\ Updates = Owns \cup {"old_stopped", "insert_project", "clear", "activate"}
  /\ Updates \subseteq Locked \cup {"insert_project"} /\ Owns \subseteq Locked /\ Updates \subseteq Ats
  /\ \A at \in Owns : Becomes[at] \in Status
  /\ "idle" \notin Updates
  BY DEF Updates, Owns, Locked, Deploying, Stopping, Becomes, Status, Ats

\* What a store operation makes of a state is well typed.
LEMMA ChangeOK ==
  ASSUME projects \in Nat, deployments \in Nat, NEW th, ThreadOK(th), th.at \in Updates, NEW s, StateOK(s)
  PROVE  StateOK(Change(th, s))
  <1>1. th.project \in 1 .. projects /\ th.old \in 0 .. deployments
    BY UpdatesAre DEF ThreadOK
  <1>2. CASE th.at \in Owns
    <2>1. th.dep \in 1 .. deployments /\ Becomes[th.at] \in Status
      BY <1>2, UpdatesAre DEF ThreadOK
    <2>2. PICK d \in 1 .. deployments, p \in 1 .. projects, st \in Status :
            d = th.dep /\ p = th.project /\ st = Becomes[th.at]
      BY <1>1, <2>1
    <2> QED BY <1>2, <2>2, ChangeIs, PutDeploymentOK
  <1>3. CASE th.at = "old_stopped"
    <2>1. th.old \in 1 .. deployments
      BY <1>1, <1>3 DEF ThreadOK
    <2>2. PICK d \in 1 .. deployments, p \in 1 .. projects, st \in Status :
            d = th.old /\ p = th.project /\ st = "stopped"
      BY <1>1, <2>1 DEF Status
    <2> QED BY <1>3, <2>2, ChangeIs, PutDeploymentOK
  <1>4. CASE th.at \in {"insert_project", "clear", "activate"}
    <2>1. th.name \in Name /\ (th.at = "activate" => th.dep \in 0 .. deployments)
      BY <1>4 DEF ThreadOK, Deploying, Locked
    <2>2. PICK p \in 1 .. projects, name \in Name, a \in 0 .. deployments :
            p = th.project /\ name = th.name /\ a = IF th.at = "activate" THEN th.dep ELSE 0
      BY <1>1, <2>1
    <2> QED BY <1>4, <2>2, ChangeIs, PutProjectOK
  <1> QED BY <1>2, <1>3, <1>4, UpdatesAre

\* Where an operation goes on after a store operation.
LEMMA Points ==
  ASSUME NEW a \in Updates, NEW at, at = OnOk[a] \/ at = OnError(a)
  PROVE  \/ at = "done"
         \/ /\ a \in Locked /\ at \in Locked /\ (at \in Deploying => a \in Deploying)
            /\ at # "clear" /\ at # "old_stopped" /\ at # "stopped"
  <1>1. CASE at = OnOk[a]
    BY <1>1 DEF Updates, OnOk, Locked, Deploying, Stopping
  <1>2. CASE at = OnError(a)
    BY <1>2 DEF Updates, OnError, Locked, Deploying, Stopping
  <1> QED BY <1>1, <1>2

\* The thread is well typed there, and has its lock if it goes on.
LEMMA NextPoint ==
  ASSUME Typed, NEW t \in Thread, NEW th, th = thread[t], th.at \in Updates,
         NEW at, at = OnOk[th.at] \/ at = OnError(th.at), lock' = Release(t, at),
         NEW v, v = Continue(th, at)
  PROVE  /\ ThreadOK(v) /\ LockKept(t, v)
         /\ ~ Saving(v) /\ v.stage # "write" /\ v.stage # "rename" /\ v.at # "insert_project"
         /\ v.at # "clear" /\ v.at # "old_stopped" /\ v.at # "stopped"
         /\ v.at \in Locked => th.at \in Locked
         /\ at = "done" => v = Idle
         /\ at # "done" => th.at \in Locked /\ at \in Locked /\ Continued(th, at, v)
  <1>1. projects \in Nat /\ deployments \in Nat /\ ThreadOK(th)
    BY ThreadIs DEF Typed, CountsOK
  <1>2. CASE at = "done"
    <2>1. v = Idle
      BY <1>2 DEF Continue
    <2> QED BY <1>1, <1>2, <2>1, IdleOK, IdleIs, IdleExpects, AtsAre DEF LockKept
  <1>3. CASE at # "done"
    <2>1. /\ th.at \in Locked /\ at \in Locked /\ (at \in Deploying => th.at \in Deploying)
          /\ at # "clear" /\ at # "old_stopped" /\ at # "stopped"
      <3>1. PICK a \in Updates : a = th.at
        OBVIOUS
      <3> QED BY <1>3, <3>1, Points
    <2>2. at \in Ats /\ at # "insert_project"
      BY <2>1, AtsAre DEF Ats
    <2>3. Continued(th, at, v)
      BY <1>1, <2>2, ContinuedIs
    <2>4. at \in Deploying \cup {"clear"} => th.name \in Name
      BY <1>1, <2>1 DEF ThreadOK
    <2>5. ThreadOK(v)
      BY <1>1, <2>1, <2>3, <2>4, ContinuedOK
    <2>6. v.at = at /\ ~ Saving(v) /\ v.stage # "write" /\ v.stage # "rename"
      BY <2>3 DEF Continued, Saving
    <2>7. LockKept(t, v)
      BY <1>3, <2>1, <2>6 DEF LockKept, Release
    <2> QED BY <1>3, <2>1, <2>2, <2>3, <2>5, <2>6, <2>7
  <1> QED BY <1>2, <1>3

\* A step of a store operation before the rename leaves what is known alone.
LEMMA StayStep ==
  ASSUME Inv, Typed', NEW t \in Thread, NEW v, Moves(t, v), Place(thread[t], v),
         UNCHANGED <<file, containers>>, faults \subseteq faults',
         Calm' /\ Solo /\ FileSound /\ Expects(thread[t]) /\ Saves(thread[t]) => Apart(t, v) /\ Saves(v)',
         \/ temp' = temp /\ \A u \in Thread \ {t} : thread'[u] = thread[u]
         \/ Saving(thread[t])
  PROVE  Inv'
  <1>1. Typed /\ Ordered /\ Known /\ Served
    BY DEF Inv
  <1>2. PICK th : th = thread[t]
    OBVIOUS
  <1>3. Place(th, v) /\ v.at = th.at /\ v.dep = th.dep /\ v.project = th.project
    BY <1>2 DEF Place
  <1>4. (Expects(th) <=> Expects(v)) /\ (Gone(th) <=> Gone(v)) /\ (Serves(th) <=> Serves(v))
    BY <1>3, PlaceFacts
  <1>5. Ordered'
    BY <1>1, <1>2, <1>4, MoveOrdered
  <1>6. Known'
    <2>1. Gone(v) => Gone(v)'
      BY DEF Gone
    <2> QED BY <1>1, <1>2, <1>3, <1>4, <2>1, MoveKnown
  <1>7. Served'
    <2>1. Serves(v) => Serves(v)'
      BY DEF Serves, Containers, Active
    <2>2. \A q : Containers(q)' = Containers(q)
      BY DEF Containers
    <2>3. PICK p : p = th.project
      OBVIOUS
    <2> QED BY <1>1, <1>2, <1>3, <1>4, <2>1, <2>2, <2>3, MoveServed
  <1> QED BY <1>5, <1>6, <1>7 DEF Inv

\* The records a store operation needs are there while no two operations overlap.
LEMMA ExpectsPresent ==
  ASSUME NEW th, th.at \in Updates, Expects(th)
  PROVE  Present(th, file)
  <1>1. CASE th.at \in {"insert_project", "insert_deployment"}
    BY <1>1 DEF Present
  <1>2. CASE th.at \in {"activate", "clear"}
    <2>1. th.project \in DOMAIN file.projects
      BY <1>2 DEF Expects, OwnProject, ActiveProject, Deploying
    <2> QED BY <1>2, <2>1 DEF Present
  <1>3. CASE th.at = "old_stopped"
    <2>1. th.old \in DOMAIN file.deployments
      BY <1>3 DEF Expects, OldDeployment
    <2> QED BY <1>3, <2>1 DEF Present
  <1>4. CASE th.at \in {"building", "image", "running", "failed", "stopped"}
    <2>1. th.dep \in DOMAIN file.deployments
      BY <1>4 DEF Expects, OwnDeployment, Locked, Deploying, Stopping
    <2> QED BY <1>4, <2>1 DEF Present
  <1> QED BY <1>1, <1>2, <1>3, <1>4 DEF Updates

\* The local variables th with state b loaded and changed.
Loaded(th, b) == [th EXCEPT !.stage = "create", !.buf = b]

\* Those are well typed.
LEMMA LoadedFacts ==
  ASSUME NEW th, ThreadOK(th), th.stage = "load", NEW b, StateOK(b)
  PROVE  /\ ThreadOK(Loaded(th, b)) /\ Place(th, Loaded(th, b))
         /\ Loaded(th, b).stage = "create" /\ Loaded(th, b).buf = b
  <1>1. PICK c : c = th.buf /\ th \in Locals(c)
    BY DEF ThreadOK
  <1>2. PICK w : w = Loaded(th, b)
    OBVIOUS
  <1>3. /\ w.at = th.at /\ w.stage = "create" /\ w.project = th.project /\ w.name = th.name
        /\ w.old = th.old /\ w.dep = th.dep /\ w.buf = b /\ w.fd = th.fd /\ w.alone = th.alone
    BY <1>1, <1>2 DEF Loaded, Locals
  <1>4. w \in Locals(b)
    <2>1. "create" \in Stages /\ b \in {b}
      BY DEF Stages
    <2> QED BY <1>1, <1>2, <2>1, Zenon DEF Loaded, Locals
  <1>5. th.at # "idle"
    BY UpdatesAre DEF ThreadOK
  <1>6. ThreadOK(w)
    BY <1>3, <1>4, <1>5 DEF ThreadOK
  <1> QED BY <1>2, <1>3, <1>6 DEF Place

\* A store operation loads the state and changes what it loaded.
LEMMA LoadStep ==
  ASSUME Inv, NEW t \in Thread, Load(t)
  PROVE  Inv'
  <1>1. PICK th : th = thread[t]
    OBVIOUS
  <1>2. /\ Typed /\ CountsOK /\ FilesOK /\ projects \in Nat /\ deployments \in Nat
        /\ ThreadOK(th) /\ th.stage = "load"
    BY <1>1, ThreadIs DEF Inv, Typed, CountsOK, Load
  <1>3. th.at \in Updates
    BY <1>2 DEF ThreadOK
  <1>4. UNCHANGED <<file, temp, containers, projects, deployments>>
    BY DEF Load, idVars
  <1>5. PICK o \in BOOLEAN : o <=> \E u \in Thread : Overlapping(t, u)
    OBVIOUS
  <1>6. NoteOverlap(o)
    BY <1>5 DEF Load, NoteOverlap
  <1>7. /\ faults \subseteq faults' /\ faults' \subseteq Fault /\ trouble' \in 0 .. MaxTrouble
        /\ Calm' => ~ o
    BY <1>2, <1>6, NoteFacts
  <1>8. /\ CountsOK' /\ projects <= projects' /\ deployments <= deployments'
        /\ projects' \in Nat /\ deployments' \in Nat /\ FilesOK'
    BY <1>2, <1>4, <1>7, FilesKept DEF CountsOK
  <1>9. CASE ~ file.torn /\ Present(th, file) /\ lock' = lock /\ thread' = [thread EXCEPT ![t] = Loaded(th, Change(th, file))]
    <2>1. PICK b : b = Change(th, file)
      OBVIOUS
    <2>2. StateOK(b)
      <3>1. StateOK(file)
        BY <1>2 DEF FilesOK
      <3> QED BY <1>2, <1>3, <2>1, <3>1, ChangeOK
    <2>3. PICK v : v = Loaded(th, b)
      OBVIOUS
    <2>4. ThreadOK(v) /\ Place(th, v) /\ v.stage = "create" /\ v.buf = b
      BY <1>2, <2>2, <2>3, LoadedFacts
    <2>5. Moves(t, v) /\ \A u \in Thread \ {t} : thread'[u] = thread[u]
      BY <1>2, <1>9, <2>1, <2>3, ExceptMoves DEF Typed
    <2>6. LockKept(t, v)
      BY <1>1, <1>9, <2>4 DEF LockKept, Place
    <2>7. ThreadOK(v)'
      BY <1>2, <1>8, <2>4, ThreadGrows
    <2>8. Typed'
      BY <1>2, <1>8, <2>5, <2>6, <2>7, MoveTyped
    <2>9. ASSUME Calm', Solo PROVE Apart(t, v)
      <3>1. Apart(t, th)
        BY <1>1, <2>9, SoloApart
      <3>2. ASSUME NEW u \in Thread \ {t}, Saving(thread[u]) PROVE FALSE
        <4>1. ~ Overlapping(t, u)
          BY <1>5, <1>7, <2>9
        <4>2. "insert_project" \notin {thread[t].at, thread[u].at}
          BY <3>2, <4>1 DEF Overlapping, Serialised, Saving
        <4>3. thread[u].at \in Updates
          BY <1>2, <3>2, ThreadIs DEF ThreadOK, Saving
        <4>4. thread[u].at \in Locked /\ th.at \in Locked
          BY <1>1, <1>3, <4>2, <4>3, UpdatesAre
        <4> QED BY <1>1, <2>9, <4>4 DEF Solo
      <3> QED BY <2>4, <3>1, <3>2 DEF Apart, Place
    <2>10. Saves(v)'
      <3>1. Change(v, file) = b
        BY <2>1, <2>4, PlaceFacts
      <3> QED BY <1>4, <2>4, <3>1 DEF Saves, Saving
    <2> QED BY <1>1, <1>4, <1>7, <2>4, <2>5, <2>8, <2>9, <2>10, StayStep
  <1>10. CASE (file.torn \/ ~ Present(th, file)) /\ Goto(t, th, OnError(th.at))
    <2>1. PICK at : at = OnError(th.at)
      OBVIOUS
    <2>2. PICK v : v = Continue(th, at)
      OBVIOUS
    <2>3. thread' = [thread EXCEPT ![t] = v] /\ lock' = Release(t, at)
      BY <1>10, <2>1, <2>2 DEF Goto
    <2>4. ThreadOK(v) /\ LockKept(t, v)
      BY <1>1, <1>2, <1>3, <2>1, <2>2, <2>3, NextPoint
    <2>5. Moves(t, v)
      BY <1>2, <2>3, ExceptMoves
    <2>6. ThreadOK(v)'
      BY <1>2, <1>8, <2>4, ThreadGrows
    <2>7. Typed'
      BY <1>2, <1>8, <2>4, <2>5, <2>6, MoveTyped
    <2>8. ~ Calm
      <3>1. ASSUME Calm PROVE FALSE
        <4>1. FileSound /\ Expects(th)
          BY <1>1, <3>1 DEF Inv, Ordered
        <4> QED BY <1>3, <1>10, <4>1, ExpectsPresent DEF FileSound
      <3> QED BY <3>1
    <2> QED BY <1>7, <2>7, <2>8, FaultsGrow, OnlyTyped
  <1> QED BY <1>1, <1>9, <1>10 DEF Load, Loaded

\* The state cannot be loaded.
LEMMA LoadFailsStep ==
  ASSUME Inv, NEW t \in Thread, LoadFails(t)
  PROVE  Inv'
  <1>1. PICK th : th = thread[t]
    OBVIOUS
  <1>2. /\ Typed /\ CountsOK /\ FilesOK /\ projects \in Nat /\ deployments \in Nat
        /\ ThreadOK(th) /\ th.stage = "load" /\ Ordered /\ Known
    BY <1>1, ThreadIs DEF Inv, Typed, CountsOK, LoadFails
  <1>3. UNCHANGED <<file, temp, containers, projects, deployments>> /\ Trouble("disk")
    BY DEF LoadFails, idVars
  <1>4. th.at \in Updates
    BY <1>2 DEF ThreadOK
  <1>5. /\ faults \subseteq faults' /\ faults' \subseteq Fault /\ trouble' \in 0 .. MaxTrouble
        /\ "disk" \in faults'
    BY <1>2, <1>3, TroubleFacts DEF Fault
  <1>6. PICK at : at = OnError(th.at)
    OBVIOUS
  <1>7. PICK v : v = Continue(th, at)
    OBVIOUS
  <1>8. thread' = [thread EXCEPT ![t] = v] /\ lock' = Release(t, at)
    BY <1>1, <1>6, <1>7 DEF LoadFails, Goto
  <1>9. /\ ThreadOK(v) /\ LockKept(t, v)
        /\ ~ Saving(v) /\ v.stage # "write" /\ v.stage # "rename" /\ v.at # "insert_project"
        /\ v.at # "old_stopped" /\ v.at # "stopped"
        /\ v.at \in Locked => th.at \in Locked
        /\ at = "done" => v = Idle
        /\ at # "done" => th.at \in Locked /\ at \in Locked /\ Continued(th, at, v)
    BY <1>1, <1>2, <1>4, <1>6, <1>7, <1>8, NextPoint
  <1>10. Moves(t, v) /\ \A u \in Thread \ {t} : thread'[u] = thread[u]
    BY <1>2, <1>8, ExceptMoves DEF Typed
  <1>11. Typed'
    <2>1. CountsOK' /\ projects <= projects' /\ deployments <= deployments' /\ projects' \in Nat /\ deployments' \in Nat
      BY <1>2, <1>3, <1>5 DEF CountsOK
    <2>2. FilesOK'
      BY <1>2, <1>3, <2>1, FilesKept
    <2>3. ThreadOK(v)'
      BY <1>2, <1>9, <2>1, ThreadGrows
    <2> QED BY <1>2, <1>9, <1>10, <2>1, <2>2, <2>3, MoveTyped
  <1>12. at = "done" \/ (at = "unstart" /\ th.at = "running") \/ (at = "activate" /\ th.at = "old_stopped")
    BY <1>6 DEF OnError
  <1>13. Ordered'
    <2>1. Saves(v)'
      BY <1>9 DEF Saves, Saving
    <2>2. Solo => Apart(t, v)
      BY <1>1, <1>9, SoloApart DEF Apart
    <2>3. Expects(th) => Expects(v)
      <3>1. CASE at = "done"
        BY <1>9, <3>1, IdleExpects
      <3>2. CASE at # "done"
        <4>1. StatusAt[at] = StatusAt[th.at]
          BY <1>12, <3>2 DEF StatusAt
        <4>2. Continued(th, at, v) /\ v.at = at
          BY <1>9, <3>2 DEF Continued
        <4> QED BY <1>12, <3>2, <4>1, <4>2
               DEF Expects, Continued, OwnProject, OwnDeployment, Deploying, Locked, Stopping
      <3> QED BY <3>1, <3>2
    <2> QED BY <1>1, <1>2, <1>3, <1>5, <1>10, <2>1, <2>2, <2>3, MoveOrdered
  <1>14. Known'
    <2>1. Gone(v)'
      BY <1>9 DEF Gone
    <2>2. th.at \in {"running", "unstart"} => v.at \in {"running", "unstart"} /\ v.dep = th.dep
      <3>1. th.at = "running" => at = "unstart"
        BY <1>6 DEF OnError
      <3>2. th.at # "unstart"
        BY <1>4 DEF Updates
      <3> QED BY <1>9, <3>1, <3>2 DEF Continued
    <2> QED BY <1>1, <1>2, <1>3, <1>5, <1>10, <2>1, <2>2, MoveKnown
  <1>15. Served'
    BY <1>5 DEF Served, Smooth
  <1> QED BY <1>11, <1>13, <1>14, <1>15 DEF Inv

\* A thread whose file another thread has opened, too.
LEMMA NotAlone ==
  ASSUME NEW th, ThreadOK(th), th.fd = "temp", NEW w, w = [th EXCEPT !.alone = FALSE]
  PROVE  ThreadOK(w) /\ Core(th, w)
  <1>1. PICK c : c = th.buf /\ th \in Locals(c)
    BY DEF ThreadOK
  <1>2. /\ w.at = th.at /\ w.stage = th.stage /\ w.project = th.project /\ w.name = th.name
        /\ w.old = th.old /\ w.dep = th.dep /\ w.buf = c /\ w.fd = th.fd
    BY <1>1 DEF Locals
  <1>3. w \in Locals(c)
    BY <1>1, Zenon DEF Locals
  <1>4. th.at # "idle"
    BY IdleIs DEF ThreadOK
  <1> QED BY <1>1, <1>2, <1>3, <1>4 DEF ThreadOK, Core, Place

\* A thread whose open file was renamed or removed.
LEMMA FileMoved ==
  ASSUME NEW th, ThreadOK(th), NEW f \in Fds, th.fd = "none" => f = "none",
         NEW w, w = [th EXCEPT !.fd = f]
  PROVE  ThreadOK(w) /\ Core(th, w)
  <1>1. PICK c : c = th.buf /\ th \in Locals(c)
    BY DEF ThreadOK
  <1>2. /\ w.at = th.at /\ w.stage = th.stage /\ w.project = th.project /\ w.name = th.name
        /\ w.old = th.old /\ w.dep = th.dep /\ w.buf = c /\ w.fd = f
    BY <1>1 DEF Locals
  <1>3. w \in Locals(c)
    BY <1>1, Zenon DEF Locals
  <1>4. th.at = "idle" => w = Idle
    <2>1. ASSUME th.at = "idle" PROVE w = [Idle EXCEPT !.fd = "none"]
      BY <2>1, IdleIs DEF ThreadOK
    <2>2. Idle = [x \in DOMAIN Idle |-> Idle[x]] /\ Idle["fd"] = "none"
      BY DEF Idle
    <2>3. [Idle EXCEPT !["fd"] = "none"] = Idle
      BY <2>2
    <2> QED BY <2>1, <2>3
  <1> QED BY <1>1, <1>2, <1>3, <1>4 DEF ThreadOK, Core, Place

\* The local variables th with the temporary file open.
Opened(th, a) == [th EXCEPT !.stage = "write", !.fd = "temp", !.alone = a]

\* The temporary file is created, or truncated.
LEMMA CreateStep ==
  ASSUME Inv, NEW t \in Thread, Create(t)
  PROVE  Inv'
  <1>1. PICK th : th = thread[t]
    OBVIOUS
  <1>2. /\ Typed /\ CountsOK /\ FilesOK /\ projects \in Nat /\ deployments \in Nat
        /\ ThreadOK(th) /\ th.stage = "create"
    BY <1>1, ThreadIs DEF Inv, Typed, CountsOK, Create
  <1>3. UNCHANGED <<file, lock, containers, projects, deployments, faults, trouble>>
        /\ temp' = [exists |-> TRUE, state |-> Torn]
    BY DEF Create, idVars
  <1>4. PICK a \in BOOLEAN : a <=> \A u \in Thread : thread[u].fd # "temp"
    OBVIOUS
  <1>5. PICK v : v = Opened(th, a)
    OBVIOUS
  <1>6. PICK c : c = th.buf /\ th \in Locals(c)
    BY <1>2 DEF ThreadOK
  <1>7. /\ v.at = th.at /\ v.project = th.project /\ v.name = th.name /\ v.old = th.old
        /\ v.dep = th.dep /\ v.stage = "write" /\ v.buf = c /\ v.fd = "temp" /\ v.alone = a
    BY <1>5, <1>6 DEF Opened, Locals
  <1>8. v \in Locals(c)
    <2>1. "write" \in Stages /\ "temp" \in Fds
      BY DEF Stages, Fds
    <2> QED BY <1>5, <1>6, <2>1, Zenon DEF Opened, Locals
  <1>9. th.at # "idle" /\ th.at \in Updates /\ Saving(th)
    BY <1>2, UpdatesAre DEF ThreadOK, Saving
  <1>10. ThreadOK(v) /\ Place(th, v)
    BY <1>2, <1>6, <1>7, <1>8, <1>9 DEF ThreadOK, Place
  <1>11. /\ thread' = [u \in Thread |-> thread'[u]] /\ thread'[t] = v
         /\ \A u \in Thread \ {t} :
              thread'[u] = IF thread[u].fd = "temp" THEN [thread[u] EXCEPT !.alone = FALSE] ELSE thread[u]
    <2>1. v = [thread[t] EXCEPT !.stage = "write", !.fd = "temp",
                                !.alone = \A u \in Thread : thread[u].fd # "temp"]
      <3>1. a = \A u \in Thread : thread[u].fd # "temp"
        BY <1>4
      <3> QED BY <1>1, <1>5, <3>1 DEF Opened
    <2> QED BY <2>1 DEF Create
  <1>12. Moves(t, v)
    <2>1. ASSUME NEW u \in Thread \ {t} PROVE Core(thread[u], thread'[u]) /\ ThreadOK(thread'[u])
      <3>1. ThreadOK(thread[u])
        BY <1>2, <2>1, ThreadIs
      <3>2. CASE thread[u].fd = "temp"
        BY <1>11, <2>1, <3>1, <3>2, NotAlone
      <3>3. CASE thread[u].fd # "temp"
        BY <1>11, <2>1, <3>1, <3>3 DEF Core, Place
      <3> QED BY <3>2, <3>3
    <2> QED BY <1>11, <2>1 DEF Moves
  <1>13. Typed'
    <2>1. CountsOK' /\ projects <= projects' /\ deployments <= deployments' /\ projects' \in Nat /\ deployments' \in Nat
      BY <1>2, <1>3 DEF CountsOK
    <2>2. FilesOK'
      <3>1. PICK f, e : f = file /\ e = Torn
        OBVIOUS
      <3>2. StateOK(f) /\ StateOK(e)
        BY <1>2, <3>1, EmptyOK DEF FilesOK
      <3>3. StateOK(f)' /\ StateOK(e)'
        BY <1>2, <2>1, <3>2, StateGrows
      <3> QED BY <1>3, <3>1, <3>3 DEF FilesOK
    <2>3. ThreadOK(v)'
      BY <1>2, <1>10, <2>1, ThreadGrows
    <2>4. LockKept(t, v)
      BY <1>1, <1>3, <1>7 DEF LockKept
    <2> QED BY <1>2, <1>12, <2>1, <2>2, <2>3, <2>4, MoveTyped
  <1>14. ASSUME Solo, Saves(th) PROVE Apart(t, v) /\ Saves(v)'
    <2>1. \A u \in Thread : thread[u].fd # "temp"
      <3>1. ASSUME NEW u \in Thread, thread[u].fd = "temp" PROVE FALSE
        <4>1. thread[u].stage = "write"
          BY <1>2, <3>1, ThreadIs DEF ThreadOK
        <4>2. u = t
          BY <1>1, <1>9, <1>14, <4>1 DEF Solo, Saving
        <4> QED BY <1>1, <1>2, <4>1, <4>2
      <3> QED BY <3>1
    <2>2. Apart(t, v)
      <3>1. Apart(t, th)
        BY <1>1, <1>14, SoloApart
      <3> QED BY <1>7, <1>9, <3>1 DEF Apart
    <2>3. v.buf = Change(v, file)
      <3>1. th.buf = Change(th, file)
        BY <1>9, <1>14 DEF Saves
      <3> QED BY <1>6, <1>7, <1>10, <3>1, PlaceFacts
    <2>4. Saves(v)'
      BY <1>3, <1>4, <1>7, <2>1, <2>3 DEF Saves
    <2> QED BY <2>2, <2>4
  <1> QED BY <1>1, <1>3, <1>9, <1>10, <1>12, <1>13, <1>14, StayStep

\* The local variables th with the state written.
Written(th) == [th EXCEPT !.stage = "rename", !.fd = "none"]

\* The state is written into the file that was opened.
LEMMA WriteStep ==
  ASSUME Inv, NEW t \in Thread, Write(t)
  PROVE  Inv'
  <1>1. PICK th : th = thread[t]
    OBVIOUS
  <1>2. /\ Typed /\ CountsOK /\ FilesOK /\ projects \in Nat /\ deployments \in Nat
        /\ ThreadOK(th) /\ th.stage = "write"
    BY <1>1, ThreadIs DEF Inv, Typed, CountsOK, Write
  <1>3. UNCHANGED <<lock, containers, projects, deployments, faults, trouble>>
    BY DEF Write, idVars
  <1>4. PICK v : v = Written(th)
    OBVIOUS
  <1>5. PICK c : c = th.buf /\ th \in Locals(c)
    BY <1>2 DEF ThreadOK
  <1>6. /\ v.at = th.at /\ v.project = th.project /\ v.name = th.name /\ v.old = th.old
        /\ v.dep = th.dep /\ v.stage = "rename" /\ v.buf = c /\ v.fd = "none"
    BY <1>4, <1>5 DEF Written, Locals
  <1>7. v \in Locals(c)
    <2>1. "rename" \in Stages /\ "none" \in Fds
      BY DEF Stages, Fds
    <2> QED BY <1>4, <1>5, <2>1, Zenon DEF Written, Locals
  <1>8. th.at # "idle" /\ th.at \in Updates /\ Saving(th)
    BY <1>2, UpdatesAre DEF ThreadOK, Saving
  <1>9. ThreadOK(v) /\ Place(th, v)
    BY <1>2, <1>5, <1>6, <1>7, <1>8 DEF ThreadOK, Place
  <1>10. Moves(t, v) /\ \A u \in Thread \ {t} : thread'[u] = thread[u]
    <2>1. thread' = [thread EXCEPT ![t] = v]
      BY <1>1, <1>4 DEF Write, Written
    <2> QED BY <1>2, <2>1, ExceptMoves DEF Typed
  <1>11. PICK s : /\ s = th.buf \/ (s = Torn /\ ~ th.alone)
                  /\ temp' = IF th.fd = "temp" THEN [temp EXCEPT !.state = s] ELSE temp
                  /\ file' = IF th.fd = "state" THEN s ELSE file
    BY <1>1 DEF Write
  <1>12. Typed'
    <2>1. CountsOK' /\ projects <= projects' /\ deployments <= deployments' /\ projects' \in Nat /\ deployments' \in Nat
      BY <1>2, <1>3 DEF CountsOK
    <2>2. FilesOK'
      <3>1. PICK f, e : f = file /\ e = temp.state
        OBVIOUS
      <3>2. StateOK(f) /\ StateOK(e) /\ StateOK(s)
        BY <1>2, <1>11, <3>1, EmptyOK DEF FilesOK, ThreadOK
      <3>3. StateOK(f)' /\ StateOK(e)' /\ StateOK(s)'
        BY <1>2, <2>1, <3>2, StateGrows
      <3>4. temp \in [exists : BOOLEAN, state : {e}]
        BY <1>2, <3>1 DEF FilesOK
      <3>5. PICK x : x = [temp EXCEPT !.state = s]
        OBVIOUS
      <3>6. x.state = s /\ x \in [exists : BOOLEAN, state : {s}]
        BY <3>4, <3>5
      <3>7. \/ temp' = temp /\ temp'.state = e
            \/ temp' = x /\ temp'.state = s
        BY <1>11, <3>1, <3>5, <3>6
      <3>8. StateOK(temp.state)' /\ temp' \in [exists : BOOLEAN, state : {temp'.state}]
        BY <3>3, <3>4, <3>6, <3>7
      <3>9. StateOK(file)'
        BY <1>11, <3>1, <3>3
      <3> QED BY <3>8, <3>9 DEF FilesOK
    <2>3. ThreadOK(v)'
      BY <1>2, <1>9, <2>1, ThreadGrows
    <2>4. LockKept(t, v)
      BY <1>1, <1>3, <1>6 DEF LockKept
    <2> QED BY <1>2, <1>10, <2>1, <2>2, <2>3, <2>4, MoveTyped
  <1>13. CASE ~ Calm
    <2>1. ~ Calm'
      BY <1>3, <1>13 DEF Calm
    <2> QED BY <1>12, <2>1, OnlyTyped
  <1>14. CASE Calm
    <2>1. Solo /\ Saves(th)
      BY <1>1, <1>14 DEF Inv, Ordered
    <2>2. th.fd = "temp" /\ th.alone /\ temp.exists /\ th.buf = Change(th, file)
      BY <1>2, <1>8, <2>1 DEF Saves
    <2>3. temp' = [temp EXCEPT !.state = th.buf] /\ file' = file
      BY <1>11, <2>2
    <2>4. temp'.exists /\ temp'.state = th.buf
      BY <1>2, <2>2, <2>3 DEF FilesOK
    <2>5. Apart(t, v)
      <3>1. Apart(t, th)
        BY <1>1, <2>1, SoloApart
      <3> QED BY <1>6, <1>8, <3>1 DEF Apart
    <2>6. v.buf = Change(v, file)
      BY <1>5, <1>6, <1>9, <2>2, PlaceFacts
    <2>7. Saves(v)'
      BY <1>5, <1>6, <2>3, <2>4, <2>6 DEF Saves
    <2> QED BY <1>1, <1>3, <1>8, <1>9, <1>10, <1>12, <2>3, <2>5, <2>7, StayStep
  <1> QED BY <1>13, <1>14

\* The disk refuses a step of save.
LEMMA SaveFailsStep ==
  ASSUME Inv, NEW t \in Thread, SaveFails(t)
  PROVE  Inv'
  <1>1. PICK th : th = thread[t]
    OBVIOUS
  <1>2. /\ Typed /\ CountsOK /\ FilesOK /\ projects \in Nat /\ deployments \in Nat
        /\ ThreadOK(th) /\ Saving(th) /\ Ordered /\ Known
    BY <1>1, ThreadIs DEF Inv, Typed, CountsOK, SaveFails, Saving
  <1>3. UNCHANGED <<file, containers, projects, deployments>> /\ temp' = NoTemp /\ Trouble("disk")
    BY DEF SaveFails, idVars
  <1>4. th.at \in Updates
    BY <1>2 DEF ThreadOK, Saving
  <1>5. /\ faults \subseteq faults' /\ faults' \subseteq Fault /\ trouble' \in 0 .. MaxTrouble
        /\ "disk" \in faults'
    BY <1>2, <1>3, TroubleFacts DEF Fault
  <1>6. PICK at : at = OnError(th.at)
    OBVIOUS
  <1>7. PICK v : v = Continue(th, at)
    OBVIOUS
  <1>8. lock' = Release(t, at)
    BY <1>1, <1>6 DEF SaveFails
  <1>9. /\ ThreadOK(v) /\ LockKept(t, v)
        /\ ~ Saving(v) /\ v.stage # "write" /\ v.stage # "rename" /\ v.at # "insert_project"
        /\ v.at # "old_stopped" /\ v.at # "stopped"
        /\ v.at \in Locked => th.at \in Locked
        /\ at = "done" => v = Idle
        /\ at # "done" => th.at \in Locked /\ at \in Locked /\ Continued(th, at, v)
    BY <1>1, <1>2, <1>4, <1>6, <1>7, <1>8, NextPoint
  <1>10. /\ thread' = [u \in Thread |-> thread'[u]] /\ thread'[t] = v
         /\ \A u \in Thread \ {t} :
              thread'[u] = [thread[u] EXCEPT !.fd = IF thread[u].fd = "temp" THEN "gone" ELSE thread[u].fd]
    BY <1>1, <1>6, <1>7 DEF SaveFails
  <1>11. Moves(t, v)
    <2>1. ASSUME NEW u \in Thread \ {t} PROVE Core(thread[u], thread'[u]) /\ ThreadOK(thread'[u])
      <3>1. ThreadOK(thread[u])
        BY <1>2, <2>1, ThreadIs
      <3>2. thread[u].fd \in Fds
        BY <3>1 DEF ThreadOK, Locals
      <3>3. PICK f \in Fds : f = IF thread[u].fd = "temp" THEN "gone" ELSE thread[u].fd
        BY <3>2 DEF Fds
      <3> QED BY <1>10, <2>1, <3>1, <3>3, FileMoved
    <2> QED BY <1>10, <2>1 DEF Moves
  <1>12. Typed'
    <2>1. CountsOK' /\ projects <= projects' /\ deployments <= deployments' /\ projects' \in Nat /\ deployments' \in Nat
      BY <1>2, <1>3, <1>5 DEF CountsOK
    <2>2. FilesOK'
      <3>1. PICK f, e : f = file /\ e = Empty
        OBVIOUS
      <3>2. StateOK(f) /\ StateOK(e)
        BY <1>2, <3>1, EmptyOK DEF FilesOK
      <3>3. StateOK(f)' /\ StateOK(e)'
        BY <1>2, <2>1, <3>2, StateGrows
      <3> QED BY <1>3, <3>1, <3>3 DEF FilesOK, NoTemp
    <2>3. ThreadOK(v)'
      BY <1>2, <1>9, <2>1, ThreadGrows
    <2> QED BY <1>2, <1>9, <1>11, <2>1, <2>2, <2>3, MoveTyped
  <1>13. at = "done" \/ (at = "unstart" /\ th.at = "running") \/ (at = "activate" /\ th.at = "old_stopped")
    BY <1>6 DEF OnError
  <1>14. Ordered'
    <2>1. Saves(v)'
      BY <1>9 DEF Saves, Saving
    <2>2. Solo => Apart(t, v)
      BY <1>1, <1>9, SoloApart DEF Apart
    <2>3. Expects(th) => Expects(v)
      <3>1. CASE at = "done"
        BY <1>9, <3>1, IdleExpects
      <3>2. CASE at # "done"
        <4>1. StatusAt[at] = StatusAt[th.at]
          BY <1>13, <3>2 DEF StatusAt
        <4>2. Continued(th, at, v) /\ v.at = at
          BY <1>9, <3>2 DEF Continued
        <4> QED BY <1>13, <3>2, <4>1, <4>2
               DEF Expects, Continued, OwnProject, OwnDeployment, Deploying, Locked, Stopping
      <3> QED BY <3>1, <3>2
    <2> QED BY <1>1, <1>2, <1>3, <1>5, <1>11, <2>1, <2>2, <2>3, MoveOrdered
  <1>15. Known'
    <2>1. Gone(v)'
      BY <1>9 DEF Gone
    <2>2. th.at \in {"running", "unstart"} => v.at \in {"running", "unstart"} /\ v.dep = th.dep
      <3>1. th.at = "running" => at = "unstart"
        BY <1>6 DEF OnError
      <3>2. th.at # "unstart"
        BY <1>4 DEF Updates
      <3> QED BY <1>9, <3>1, <3>2 DEF Continued
    <2> QED BY <1>1, <1>2, <1>3, <1>5, <1>11, <2>1, <2>2, MoveKnown
  <1>16. Served'
    BY <1>5 DEF Served, Smooth
  <1> QED BY <1>12, <1>14, <1>15, <1>16 DEF Inv

\* A process ends.
LEMMA CrashStep ==
  ASSUME Inv, NEW p \in Process, Crash(p)
  PROVE  Inv'
  <1>1. /\ Typed /\ Ordered /\ CountsOK /\ FilesOK /\ LocksOK /\ projects \in Nat /\ deployments \in Nat
        /\ ProcessOf \in [Thread -> Process] /\ None \notin Thread
    BY DeploymentServiceAssumption DEF Inv, Typed, CountsOK
  <1>2. /\ UNCHANGED <<file, temp, containers, projects, deployments>> /\ Trouble("crash")
        /\ lock' = [lock EXCEPT ![p] = None]
    BY DEF Crash, idVars
  <1>3. /\ thread' = [t \in Thread |-> thread'[t]]
        /\ \A t \in Thread : thread'[t] = IF ProcessOf[t] = p THEN Idle ELSE thread[t]
    BY DEF Crash
  <1>4. /\ faults \subseteq faults' /\ faults' \subseteq Fault /\ trouble' \in 0 .. MaxTrouble
        /\ "crash" \in faults'
    BY <1>1, <1>2, TroubleFacts DEF Fault
  <1>5. Idle.at = "idle" /\ "idle" \notin Locked /\ ~ Saving(Idle) /\ Idle.stage = "none"
    BY IdleIs, AtsAre, IdleExpects
  <1>6. Typed'
    <2>1. CountsOK' /\ projects <= projects' /\ deployments <= deployments' /\ projects' \in Nat /\ deployments' \in Nat
      BY <1>1, <1>2, <1>4 DEF CountsOK
    <2>2. FilesOK'
      BY <1>1, <1>2, <2>1, FilesKept
    <2>3. LocksOK'
      <3>1. /\ lock' \in [Process -> Thread \cup {None}]
            /\ \A q \in Process : lock'[q] = IF q = p THEN None ELSE lock[q]
        BY <1>1, <1>2 DEF LocksOK
      <3>2. \A q \in Process :
              lock'[q] # None => ProcessOf[lock'[q]] = q /\ thread'[lock'[q]].at \in Locked
        BY <1>1, <1>3, <3>1 DEF LocksOK
      <3>3. \A t \in Thread : thread'[t].at \in Locked => lock'[ProcessOf[t]] = t
        BY <1>1, <1>3, <1>5, <3>1 DEF LocksOK
      <3> QED BY <3>1, <3>2, <3>3 DEF LocksOK
    <2>4. ASSUME NEW t \in Thread PROVE ThreadOK(thread[t])'
      <3>1. PICK w : w = thread'[t]
        OBVIOUS
      <3>2. ThreadOK(w)
        BY <1>1, <1>3, <3>1, IdleOK, ThreadIs
      <3>3. ThreadOK(w)'
        BY <1>1, <2>1, <3>2, ThreadGrows
      <3> QED BY <3>1, <3>3 DEF ThreadOK
    <2> QED BY <1>3, <2>1, <2>2, <2>3, <2>4 DEF Typed
  <1>7. Ordered'
    <2> SUFFICES ASSUME Calm' PROVE Solo' /\ FileSound' /\ \A t \in Thread : Expects(thread[t])' /\ Saves(thread[t])'
      BY DEF Ordered
    <2>1. Solo /\ FileSound /\ \A t \in Thread : Expects(thread[t]) /\ Saves(thread[t])
      BY <1>1, <1>4, FaultsGrow DEF Ordered
    <2>2. FileSound'
      BY <1>2, <2>1 DEF FileSound
    <2>3. Solo'
      <3>1. \A t \in Thread : /\ thread'[t].at \in Locked => thread[t].at \in Locked
                              /\ thread'[t].at = "insert_project" => thread[t].at = "insert_project"
                              /\ Saving(thread[t])' => Saving(thread[t])
        BY <1>3, <1>5 DEF Saving
      <3> QED BY <2>1, <3>1 DEF Solo
    <2>4. ASSUME NEW t \in Thread PROVE Expects(thread[t])' /\ Saves(thread[t])'
      <3>1. PICK w : w = thread'[t]
        OBVIOUS
      <3>2. Saves(Idle)
        BY <1>5 DEF Saves
      <3>3. Expects(w) /\ Saves(w)
        BY <1>3, <2>1, <3>1, <3>2, IdleExpects
      <3>4. Expects(w)' /\ Saves(w)'
        BY <1>2, <3>3 DEF Expects, NewProject, OwnProject, OwnDeployment, OldDeployment, ActiveProject, Saves
      <3> QED BY <3>1, <3>4 DEF Expects, NewProject, OwnProject, OwnDeployment, OldDeployment, ActiveProject,
                                Saves, Saving
    <2> QED BY <2>2, <2>3, <2>4
  <1>8. Known' /\ Served'
    BY <1>4 DEF Known, Served, Steady, Smooth
  <1> QED BY <1>6, <1>7, <1>8 DEF Inv

---------------------------------------------------------------------------
(* Saving                                                                  *)

\* The state file with a deployment inserted or replaced.
DeploymentSet(x, p, st) ==
  /\ file'.torn = file.torn /\ file'.projects = file.projects
  /\ DOMAIN file'.deployments = DOMAIN file.deployments \cup {x}
  /\ file'.deployments[x].project = p /\ file'.deployments[x].status = st
  /\ \A e \in DOMAIN file.deployments : e # x => file'.deployments[e] = file.deployments[e]

\* The state file with a project inserted or replaced.
ProjectSet(p, name, active) ==
  /\ file'.torn = file.torn /\ file'.deployments = file.deployments
  /\ DOMAIN file'.projects = DOMAIN file.projects \cup {p}
  /\ file'.projects[p].name = name /\ file'.projects[p].active = active
  /\ \A q \in DOMAIN file.projects : q # p => file'.projects[q] = file.projects[q]

\* What is left to show of the order when t has saved.
LEMMA SavedOrdered ==
  ASSUME Calm, Ordered, NEW t \in Thread, NEW v, Moves(t, v), Saving(thread[t]), ~ Saving(v),
         v.at # "insert_project", v.at \in Locked => thread[t].at \in Locked,
         FileSound', Expects(v)',
         \A u \in Thread \ {t} : \A w : w = thread[u] => Expects(w)'
  PROVE  Ordered'
  <1>1. Solo /\ FileSound /\ \A u \in Thread : Expects(thread[u]) /\ Saves(thread[u])
    BY DEF Ordered
  <1>2. Apart(t, v)
    BY <1>1, SoloApart DEF Apart
  <1>3. Solo'
    BY <1>1, <1>2, MoveSolo
  <1>4. ASSUME NEW u \in Thread PROVE Expects(thread[u])' /\ Saves(thread[u])'
    <2>1. PICK w : w = thread'[u]
      OBVIOUS
    <2>2. ~ Saving(w) /\ Expects(w)'
      <3>1. CASE u = t
        <4>1. w = v
          BY <2>1, <3>1 DEF Moves
        <4> QED BY <4>1
      <3>2. CASE u # t
        <4>1. PICK th : th = thread[u]
          OBVIOUS
        <4>2. Core(th, w) /\ Place(th, w)
          BY <2>1, <3>2, <4>1 DEF Moves, Core
        <4>3. ~ Saving(th)
          BY <1>1, <3>2, <4>1 DEF Solo
        <4>4. Expects(th)'
          BY <3>2, <4>1
        <4>5. Expects(w)'
          BY <4>2, <4>4 DEF Place, Expects, NewProject, OwnProject, OwnDeployment, OldDeployment, ActiveProject
        <4> QED BY <4>2, <4>3, <4>5 DEF Core, Saving
      <3> QED BY <3>1, <3>2
    <2>3. w.stage # "write" /\ w.stage # "rename"
      BY <2>2 DEF Saving
    <2> QED BY <2>1, <2>2, <2>3 DEF Expects, Saves, NewProject, OwnProject, OwnDeployment, OldDeployment,
                             ActiveProject, Saving
  <1> QED BY <1>3, <1>4 DEF Ordered

\* deploy or stop has saved a deployment of its project.
LEMMA DeploymentSaved ==
  ASSUME Inv, Calm, NEW t \in Thread, NEW th, th = thread[t], Saving(th), th.at \in Locked,
         NEW v, Moves(t, v), ~ Saving(v), UNCHANGED <<containers, faults>>,
         NEW p, p = th.project, p \in DOMAIN file.projects,
         NEW x, NEW st, DeploymentSet(x, p, st),
         x \in DOMAIN file.deployments => file.deployments[x].project = p,
         st \in {"running", "stopped"} \/ file.projects[p].active # x,
         Expects(v)', Gone(v)', v.at # "insert_project",
         Steady => st = "running" \/ x \notin containers,
         st = "running" => x \in DOMAIN file.deployments,
         th.at # "unstart", th.at = "running" => th.dep = x /\ st = "running",
         v.at \in Locked => v.project = p,
         Serves(th) => IF v.at \in Locked THEN Serves(v) ELSE Containers(p) = Active(p)
  PROVE  Ordered' /\ Known' /\ Served'
  <1>1. Ordered /\ Known /\ Served /\ Solo /\ FileSound /\ \A u \in Thread : Expects(thread[u])
    BY DEF Inv, Ordered
  <1>2. /\ thread'[t] = v
        /\ \A u \in Thread \ {t} : Place(thread[u], thread'[u]) /\ thread[u].at \notin Locked
                                   /\ thread'[u].at \notin Locked
    BY <1>1 DEF Moves, Core, Place, Solo
  <1>3. FileSound'
    <2>1. \A d \in DOMAIN file'.deployments : file'.deployments[d].project \in DOMAIN file'.projects
      BY <1>1 DEF FileSound, DeploymentSet
    <2>2. ASSUME NEW q \in DOMAIN file.projects, file.projects[q].active # 0
          PROVE  /\ file.projects[q].active \in DOMAIN file'.deployments
                 /\ file'.deployments[file.projects[q].active].project = q
                 /\ file'.deployments[file.projects[q].active].status \in {"running", "stopped"}
      <3>1. /\ file.projects[q].active \in DOMAIN file.deployments
            /\ file.deployments[file.projects[q].active].project = q
            /\ file.deployments[file.projects[q].active].status \in {"running", "stopped"}
        BY <1>1, <2>2 DEF FileSound
      <3>2. CASE file.projects[q].active = x
        BY <3>1, <3>2 DEF DeploymentSet
      <3>3. CASE file.projects[q].active # x
        BY <3>1, <3>3 DEF DeploymentSet
      <3> QED BY <3>2, <3>3
    <2> QED BY <1>1, <2>1, <2>2 DEF FileSound, DeploymentSet
  <1>4. Ordered'
    <2>1. ASSUME NEW u \in Thread \ {t}, NEW w, w = thread[u] PROVE Expects(w)'
      <3>1. Expects(w) /\ w.at \notin Locked
        BY <1>1, <1>2, <2>1
      <3>2. w.at # "old_stopped" /\ w.at # "clear" /\ w.at \notin Deploying /\ w.at # "insert_deployment"
        BY <3>1 DEF Locked, Deploying, Stopping
      <3> QED BY <3>1, <3>2 DEF Expects, NewProject, DeploymentSet
    <2> QED BY <1>1, <1>3, <2>1, SavedOrdered
  <1>5. Known'
    <2> SUFFICES ASSUME Steady'
                 PROVE  /\ \A d \in containers : Recorded(d)'
                        /\ \A u \in Thread : Gone(thread[u])'
      BY DEF Known
    <2>1. Steady /\ \A d \in containers : Recorded(d) \/ Started(d)
      BY <1>1 DEF Known, Steady
    <2>2. ASSUME NEW d \in containers PROVE Recorded(d)'
      <3>1. CASE d = x
        BY <2>1, <2>2, <3>1 DEF Recorded, DeploymentSet
      <3>2. CASE d # x
        <4>1. ~ Started(d)
          BY <1>2, <3>2 DEF Started, Locked, Deploying
        <4> QED BY <2>1, <2>2, <3>2, <4>1 DEF Recorded, DeploymentSet
      <3> QED BY <3>1, <3>2
    <2>3. ASSUME NEW u \in Thread PROVE Gone(thread[u])'
      <3>1. CASE u = t
        BY <1>2, <3>1 DEF Gone
      <3>2. CASE u # t
        BY <1>2, <3>2 DEF Gone, Locked, Deploying, Stopping
      <3> QED BY <3>1, <3>2
    <2> QED BY <2>2, <2>3
  <1>6. Served'
    <2> SUFFICES ASSUME Smooth'
                 PROVE  /\ \A q \in DOMAIN file.projects : ~ Busy(q)' => Containers(q)' = Active(q)'
                        /\ \A u \in Thread : thread'[u].at \in Locked => Serves(thread[u])'
      BY DEF Served, DeploymentSet
    <2>1. Smooth /\ Steady
      BY DEF Smooth, Steady
    <2>2. Serves(th) /\ \A q \in DOMAIN file.projects : ~ Busy(q) => Containers(q) = Active(q)
      BY <1>1, <2>1 DEF Served
    <2>3. ASSUME NEW q PROVE Containers(q)' = Containers(q) /\ Active(q)' = Active(q)
      <3>1. Active(q)' = Active(q)
        BY DEF Active, DeploymentSet
      <3>2. ASSUME NEW d \in containers
            PROVE  (d \in DOMAIN file'.deployments /\ file'.deployments[d].project = q)
                   <=> (d \in DOMAIN file.deployments /\ file.deployments[d].project = q)
        <4>1. CASE d = x
          BY <2>1, <3>2, <4>1 DEF DeploymentSet
        <4>2. CASE d # x
          BY <4>2 DEF DeploymentSet
        <4> QED BY <4>1, <4>2
      <3>3. Containers(q)' = Containers(q)
        BY <3>2 DEF Containers
      <3> QED BY <3>1, <3>3
    <2>4. ASSUME NEW q \in DOMAIN file.projects, ~ Busy(q)' PROVE Containers(q)' = Active(q)'
      <3>1. CASE q = p
        <4>1. v.at \notin Locked
          BY <1>2, <2>4, <3>1 DEF Busy
        <4> QED BY <2>2, <2>3, <3>1, <4>1
      <3>2. CASE q # p
        <4>1. ~ Busy(q)
          BY <1>2, <3>2 DEF Busy
        <4> QED BY <2>2, <2>3, <2>4, <4>1
      <3> QED BY <3>1, <3>2
    <2>5. ASSUME NEW u \in Thread, thread'[u].at \in Locked PROVE Serves(thread[u])'
      <3>1. u = t /\ thread'[u] = v
        BY <1>2, <2>5
      <3>2. Serves(v)
        BY <2>2, <2>5, <3>1
      <3>3. Serves(v)'
        BY <2>3, <3>2 DEF Serves
      <3> QED BY <3>1, <3>3 DEF Serves, Containers, Active
    <2> QED BY <2>4, <2>5
  <1> QED BY <1>4, <1>5, <1>6

\* A project is saved, which ends its operation.
LEMMA ProjectSaved ==
  ASSUME Inv, Calm, NEW t \in Thread, NEW th, th = thread[t], Saving(th),
         Moves(t, Idle), UNCHANGED <<containers, faults>>,
         th.at \in {"insert_project", "activate", "clear"},
         NEW p, p = th.project, NEW name, NEW active, ProjectSet(p, name, active),
         \A q \in DOMAIN file.projects : q # p => file.projects[q].name # name,
         p \in DOMAIN file.projects => th.at # "insert_project" /\ file.projects[p].name = name,
         p \notin DOMAIN file.projects => th.at = "insert_project" /\ active = 0,
         active # 0 => /\ active \in DOMAIN file.deployments
                       /\ file.deployments[active].project = p
                       /\ file.deployments[active].status = "running",
         th.at # "insert_project" /\ Serves(th) => Containers(p) = {active} \ {0}
  PROVE  Ordered' /\ Known' /\ Served'
  <1>1. /\ Ordered /\ Known /\ Served /\ Solo /\ FileSound
        /\ \A u \in Thread : Expects(thread[u])
    BY DEF Inv, Ordered
  <1>2. /\ thread'[t] = Idle /\ Idle.at = "idle" /\ "idle" \notin Locked /\ ~ Saving(Idle)
        /\ th.at \in Locked <=> th.at # "insert_project"
        /\ \A u \in Thread \ {t} : Place(thread[u], thread'[u])
    BY IdleIs, IdleExpects, AtsAre DEF Moves, Core, Locked, Deploying, Stopping
  <1>3. FileSound'
    BY <1>1 DEF FileSound, ProjectSet
  <1>4. Ordered'
    <2>1. ASSUME NEW u \in Thread \ {t}, NEW w, w = thread[u] PROVE Expects(w)'
      <3>1. Expects(w)
        BY <1>1, <2>1
      <3>2. CASE th.at = "insert_project"
        <4>1. w.at # "insert_project" /\ p \notin DOMAIN file.projects
          BY <1>1, <2>1, <3>2 DEF Solo
        <4> QED BY <3>1, <4>1 DEF Expects, OwnProject, OwnDeployment, OldDeployment, ActiveProject, ProjectSet
      <3>3. CASE th.at # "insert_project"
        <4>1. w.at \notin Locked /\ p \in DOMAIN file.projects /\ DOMAIN file'.projects = DOMAIN file.projects
          BY <1>1, <1>2, <2>1, <3>3 DEF Solo, ProjectSet
        <4>2. w.at # "old_stopped" /\ w.at # "clear" /\ w.at \notin Deploying /\ w.at # "insert_deployment"
          BY <4>1 DEF Locked, Deploying, Stopping
        <4>3. NewProject(w) => NewProject(w)'
          BY <4>1 DEF NewProject, ProjectSet
        <4> QED BY <3>1, <4>1, <4>2, <4>3 DEF Expects
      <3> QED BY <3>2, <3>3
    <2>2. Expects(Idle)'
      BY IdleIs, AtsAre DEF Expects, Deploying
    <2>3. PICK v : v = Idle
      OBVIOUS
    <2>4. /\ Moves(t, v) /\ ~ Saving(v) /\ v.at # "insert_project" /\ v.at \notin Locked /\ Expects(v)'
      BY <1>2, <2>2, <2>3
    <2> QED BY <1>1, <1>3, <2>1, <2>4, SavedOrdered
  <1>5. Known'
    <2> SUFFICES ASSUME Steady'
                 PROVE  /\ \A d \in containers : Recorded(d)' \/ Started(d)'
                        /\ \A u \in Thread : Gone(thread[u])'
      BY DEF Known
    <2>1. /\ \A d \in containers : Recorded(d) \/ Started(d)
          /\ \A u \in Thread : Gone(thread[u])
      BY <1>1 DEF Known, Steady
    <2>2. ASSUME NEW d PROVE (Recorded(d) => Recorded(d)') /\ (Started(d) => Started(d)')
      <3>1. Recorded(d) => Recorded(d)'
        BY DEF Recorded, ProjectSet
      <3>2. ASSUME Started(d) PROVE Started(d)'
        <4>1. PICK u \in Thread : thread[u].at \in {"running", "unstart"} /\ d = thread[u].dep
          BY <3>2 DEF Started
        <4>2. u # t
          BY <4>1
        <4> QED BY <1>2, <4>1, <4>2 DEF Started, Place
      <3> QED BY <3>1, <3>2
    <2>3. ASSUME NEW u \in Thread PROVE Gone(thread[u])'
      <3>1. CASE u = t
        BY <1>2, <3>1 DEF Gone
      <3>2. CASE u # t
        BY <1>2, <2>1, <3>2 DEF Gone, Place
      <3> QED BY <3>1, <3>2
    <2> QED BY <2>1, <2>2, <2>3
  <1>6. Served'
    <2> SUFFICES ASSUME Smooth'
                 PROVE  /\ \A q \in DOMAIN file'.projects : ~ Busy(q)' => Containers(q)' = Active(q)'
                        /\ \A u \in Thread : thread'[u].at \in Locked /\ thread'[u].project \in DOMAIN file'.projects
                             => Serves(thread[u])'
      BY DEF Served
    <2>1. /\ \A q \in DOMAIN file.projects : ~ Busy(q) => Containers(q) = Active(q)
          /\ \A u \in Thread : thread[u].at \in Locked /\ thread[u].project \in DOMAIN file.projects
                                 => Serves(thread[u])
      BY <1>1 DEF Served, Smooth
    <2>2. \A q : Containers(q)' = Containers(q)
      BY DEF Containers, ProjectSet
    <2>3. \A q \in DOMAIN file.projects \ {p} : Active(q)' = Active(q)
      BY DEF Active, ProjectSet
    <2>4. Active(p)' = {active} \ {0}
      BY DEF Active, ProjectSet
    <2>5. p \notin DOMAIN file.projects => Containers(p) = {}
      BY <1>1 DEF FileSound, Containers
    <2>6. ASSUME NEW q \in DOMAIN file'.projects, ~ Busy(q)' PROVE Containers(q)' = Active(q)'
      <3>1. CASE q = p
        <4>1. CASE th.at = "insert_project"
          BY <2>2, <2>4, <2>5, <3>1, <4>1
        <4>2. CASE th.at # "insert_project"
          <5>1. Serves(th)
            BY <1>2, <2>1, <4>2
          <5> QED BY <2>2, <2>4, <3>1, <4>2, <5>1
        <4> QED BY <4>1, <4>2
      <3>2. CASE q # p
        <4>1. q \in DOMAIN file.projects
          BY <2>6, <3>2 DEF ProjectSet
        <4>2. ~ Busy(q)
          <5>1. ASSUME NEW u \in Thread, thread[u].at \in Locked, thread[u].project = q PROVE FALSE
            <6>1. u # t
              BY <3>2, <5>1
            <6> QED BY <1>2, <2>6, <5>1, <6>1 DEF Busy, Place
          <5> QED BY <5>1 DEF Busy
        <4> QED BY <2>1, <2>2, <2>3, <3>2, <4>1, <4>2
      <3> QED BY <3>1, <3>2
    <2>7. ASSUME NEW u \in Thread, thread'[u].at \in Locked, thread'[u].project \in DOMAIN file'.projects
          PROVE  Serves(thread[u])'
      <3>1. u # t
        BY <1>2, <2>7
      <3>2. PICK w : w = thread[u]
        OBVIOUS
      <3>3. w.at \in Locked /\ Place(w, thread'[u])
        BY <1>2, <2>7, <3>1, <3>2 DEF Place
      <3>4. th.at = "insert_project" /\ p \notin DOMAIN file.projects
        BY <1>1, <1>2, <3>1, <3>2, <3>3 DEF Solo
      <3>5. w.project \in DOMAIN file.projects
        <4>1. Expects(w)
          BY <1>1, <3>2
        <4> QED BY <1>1, <3>3, <4>1 DEF Expects, OwnProject, OwnDeployment, FileSound, Locked, Deploying
      <3>6. Serves(w)
        BY <2>1, <3>2, <3>3, <3>5
      <3>7. Serves(w)'
        BY <2>2, <2>3, <3>4, <3>5, <3>6 DEF Serves
      <3> QED BY <3>3, <3>7 DEF Place, Serves, Containers, Active
    <2> QED BY <2>6, <2>7
  <1> QED BY <1>4, <1>5, <1>6

\* The thread's own deployment was saved with its next status.
LEMMA OwnSaved ==
  ASSUME Inv, Calm, NEW t \in Thread, NEW th, th = thread[t], Saving(th), th.at \in Owns,
         ThreadOK(th), NEW at, at = OnOk[th.at],
         NEW v, Moves(t, v), ~ Saving(v), UNCHANGED <<containers, faults>>,
         at = "done" => v = Idle, at # "done" => Continued(th, at, v),
         NEW x, x = th.dep, NEW p, p = th.project, NEW st, st = Becomes[th.at], DeploymentSet(x, p, st)
  PROVE  Ordered' /\ Known' /\ Served'
  <1>1. Solo /\ FileSound /\ Expects(th) /\ th.at \in Locked
    BY UpdatesAre DEF Inv, Ordered
  <1>2. th.at = "stopped" \/ (th.at \in Deploying /\ OwnProject(th))
    BY <1>1 DEF Owns, Expects, Deploying
  <1>3. th.at # "insert_deployment" => OwnDeployment(th)
    BY <1>1 DEF Expects
  <1>4. th.at = "insert_deployment" => x \notin DOMAIN file.deployments
    BY <1>1 DEF Expects
  <1>5. p \in DOMAIN file.projects
    BY <1>1, <1>2, <1>3 DEF OwnProject, OwnDeployment, FileSound
  <1>6. x \in DOMAIN file.deployments => file.deployments[x].project = p
    BY <1>3, <1>4 DEF OwnDeployment
  <1>7. st \in {"running", "stopped"} \/ file.projects[p].active # x
    BY <1>2 DEF OwnProject, Becomes
  <1>8. \/ th.at = "failed" /\ at = "done"
        \/ /\ at # "done" /\ at \in Locked /\ at \notin {"insert_deployment", "old_stopped", "clear", "stopped"}
           /\ StatusAt[at] = st /\ (at \in Deploying <=> th.at \in Deploying)
    BY DEF Owns, OnOk, Locked, Deploying, Stopping, StatusAt, Becomes
  <1>9. at = "done" => v.at = "idle" /\ v.at \notin Locked
    BY IdleIs, AtsAre
  <1>10. at # "done" => v.at = at /\ v.project = p /\ v.name = th.name /\ v.old = th.old /\ v.dep = x
    BY DEF Continued
  <1>11. Expects(v)'
    <2>1. CASE at = "done"
      BY <2>1, IdleIs, AtsAre DEF Expects, Deploying
    <2>2. CASE at # "done"
      <3>1. OwnDeployment(v)'
        BY <1>8, <1>10, <2>2 DEF OwnDeployment, DeploymentSet
      <3>2. at \in Deploying => OwnProject(v)'
        <4>1. ASSUME at \in Deploying PROVE OwnProject(th)
          BY <1>2, <1>8, <2>2, <4>1 DEF Deploying
        <4> QED BY <1>10, <2>2, <4>1 DEF OwnProject, DeploymentSet
      <3>3. v.at # "insert_project"
        BY <1>8, <1>10, <2>2, AtsAre
      <3> QED BY <1>8, <1>10, <2>2, <3>1, <3>2, <3>3 DEF Expects
    <2> QED BY <2>1, <2>2
  <1>12. Gone(v)' /\ v.at # "insert_project"
    BY <1>8, <1>9, <1>10, AtsAre DEF Gone
  <1>13. Steady => st = "running" \/ x \notin containers
    <2> SUFFICES ASSUME Steady, x \in containers, st # "running" PROVE FALSE
      OBVIOUS
    <2>1. /\ Recorded(x) \/ Started(x)
          /\ Gone(th)
      BY DEF Inv, Known
    <2>2. CASE th.at = "stopped"
      BY <2>1, <2>2 DEF Gone
    <2>3. CASE th.at # "stopped"
      <3>1. ~ Recorded(x)
        BY <1>3, <1>4, <2>3 DEF Recorded, OwnDeployment, StatusAt, Owns, Becomes
      <3>2. ~ Started(x)
        BY <1>1 DEF Started, Solo, Locked, Deploying, Becomes, Owns
      <3> QED BY <2>1, <3>1, <3>2
    <2> QED BY <2>2, <2>3
  <1>14. st = "running" => x \in DOMAIN file.deployments
    BY <1>3 DEF Becomes, Owns, OwnDeployment
  <1>15. th.at # "unstart" /\ (th.at = "running" => st = "running")
    BY DEF Owns, Becomes
  <1>16. Serves(th) => IF v.at \in Locked THEN Serves(v) ELSE Containers(p) = Active(p)
    <2>1. CASE th.at = "failed"
      BY <1>8, <1>9, <2>1 DEF Serves, OnOk
    <2>2. CASE th.at # "failed"
      <3>1. v.at = at /\ at \in Locked /\ v.project = p /\ v.dep = th.dep
        BY <1>8, <1>10, <2>2
      <3> QED BY <2>2, <3>1 DEF Serves, Owns, OnOk
    <2> QED BY <2>1, <2>2
  <1>17. v.at \in Locked => v.project = p
    BY <1>9, <1>10
  <1> QED BY <1>1, <1>5, <1>6, <1>7, <1>11, <1>12, <1>13, <1>14, <1>15, <1>16, <1>17, DeploymentSaved

\* The deployment that was active is saved as stopped.
LEMMA OldSaved ==
  ASSUME Inv, Calm, NEW t \in Thread, NEW th, th = thread[t], Saving(th), th.at = "old_stopped",
         ThreadOK(th), NEW v, Moves(t, v), ~ Saving(v), UNCHANGED <<containers, faults>>,
         Continued(th, "activate", v),
         NEW x, x = th.old, NEW p, p = th.project, NEW st, st = "stopped", DeploymentSet(x, p, st)
  PROVE  Ordered' /\ Known' /\ Served'
  <1>1. /\ Solo /\ FileSound /\ Expects(th) /\ th.at \in Locked /\ th.at \in Deploying
        /\ OwnProject(th) /\ OwnDeployment(th) /\ OldDeployment(th)
    BY DEF Inv, Ordered, Expects, Locked, Deploying
  <1>2. x # 0 /\ file.projects[p].active = x /\ p \in DOMAIN file.projects
    BY <1>1 DEF ThreadOK, OwnProject
  <1>3. file.deployments[x].project = p
    BY <1>1, <1>2 DEF FileSound
  <1>4. v.at = "activate" /\ v.at \in Locked /\ v.project = p /\ v.name = th.name /\ v.old = th.old /\ v.dep = th.dep
    BY DEF Continued, Locked, Deploying
  <1>5. Expects(v)'
    <2>1. StatusAt["activate"] = StatusAt["old_stopped"]
      BY DEF StatusAt
    <2>2. th.dep # x
      BY <1>1 DEF OwnProject
    <2>3. OwnDeployment(v)'
      BY <1>1, <1>4, <2>1, <2>2 DEF OwnDeployment, DeploymentSet
    <2>4. OwnProject(v)'
      BY <1>1, <1>4 DEF OwnProject, DeploymentSet
    <2> QED BY <1>4, <2>3, <2>4 DEF Expects
  <1>6. Steady => x \notin containers
    BY DEF Inv, Known, Gone
  <1>7. Gone(v)' /\ v.at # "insert_project"
    BY <1>4 DEF Gone
  <1>8. Serves(th) => Serves(v)
    BY <1>4 DEF Serves
  <1>9. th.at # "unstart" /\ th.at # "running"
    OBVIOUS
  <1> QED BY <1>1, <1>2, <1>3, <1>4, <1>5, <1>6, <1>7, <1>8, <1>9, DeploymentSaved

\* The temporary file replaces the state file.
LEMMA RenameStep ==
  ASSUME Inv, NEW t \in Thread, Rename(t)
  PROVE  Inv'
  <1>1. PICK th : th = thread[t]
    OBVIOUS
  <1>2. /\ Typed /\ CountsOK /\ FilesOK /\ projects \in Nat /\ deployments \in Nat
        /\ ThreadOK(th) /\ th.stage = "rename" /\ Saving(th)
    BY <1>1, ThreadIs DEF Inv, Typed, CountsOK, Rename, Saving
  <1>3. UNCHANGED <<containers, projects, deployments, faults, trouble>>
    BY DEF Rename, idVars
  <1>4. th.at \in Updates
    BY <1>2 DEF ThreadOK
  <1>5. CountsOK' /\ projects <= projects' /\ deployments <= deployments' /\ projects' \in Nat /\ deployments' \in Nat
    BY <1>2, <1>3 DEF CountsOK
  <1>6. PICK f, g, e : f = file /\ g = temp.state /\ e = Empty
    OBVIOUS
  <1>7. StateOK(f)' /\ StateOK(g)' /\ StateOK(e)'
    <2>1. StateOK(f) /\ StateOK(g) /\ StateOK(e)
      BY <1>2, <1>6, EmptyOK DEF FilesOK
    <2> QED BY <1>2, <1>5, <2>1, StateGrows
  <1>8. CASE ~ temp.exists /\ Goto(t, th, OnError(th.at)) /\ UNCHANGED <<file, temp>>
    <2>1. PICK at : at = OnError(th.at)
      OBVIOUS
    <2>2. PICK v : v = Continue(th, at)
      OBVIOUS
    <2>3. thread' = [thread EXCEPT ![t] = v] /\ lock' = Release(t, at)
      BY <1>8, <2>1, <2>2 DEF Goto
    <2>4. ThreadOK(v) /\ LockKept(t, v)
      BY <1>1, <1>2, <1>4, <2>1, <2>2, <2>3, NextPoint
    <2>5. Moves(t, v)
      BY <1>2, <2>3, ExceptMoves
    <2>6. ThreadOK(v)' /\ FilesOK'
      BY <1>2, <1>5, <1>8, <2>4, ThreadGrows, FilesKept
    <2>7. Typed'
      BY <1>2, <1>5, <2>4, <2>5, <2>6, MoveTyped
    <2>8. ~ Calm'
      <3>1. Calm => Saves(th)
        BY <1>1 DEF Inv, Ordered
      <3> QED BY <1>2, <1>3, <1>8, <3>1 DEF Saves, Calm
    <2> QED BY <2>7, <2>8, OnlyTyped
  <1>9. CASE /\ temp.exists /\ file' = temp.state /\ temp' = NoTemp
             /\ thread' = [u \in Thread |-> IF u = t THEN Continue(th, OnOk[th.at])
                                           ELSE [thread[u] EXCEPT !.fd = Moved(@)]]
             /\ lock' = Release(t, OnOk[th.at])
    <2>1. PICK at : at = OnOk[th.at]
      OBVIOUS
    <2>2. PICK v : v = Continue(th, at)
      OBVIOUS
    <2>3. /\ ThreadOK(v) /\ LockKept(t, v) /\ ~ Saving(v)
          /\ at = "done" => v = Idle
          /\ at # "done" => th.at \in Locked /\ at \in Locked /\ Continued(th, at, v)
      BY <1>1, <1>2, <1>4, <1>9, <2>1, <2>2, NextPoint
    <2>4. /\ thread' = [u \in Thread |-> thread'[u]] /\ thread'[t] = v
          /\ \A u \in Thread \ {t} : thread'[u] = [thread[u] EXCEPT !.fd = Moved(thread[u].fd)]
      BY <1>9, <2>1, <2>2
    <2>5. Moves(t, v)
      <3>1. ASSUME NEW u \in Thread \ {t} PROVE Core(thread[u], thread'[u]) /\ ThreadOK(thread'[u])
        <4>1. ThreadOK(thread[u])
          BY <1>2, <3>1, ThreadIs
        <4>2. thread[u].fd \in Fds
          BY <4>1 DEF ThreadOK, Locals
        <4>3. PICK h \in Fds : h = Moved(thread[u].fd)
          BY <4>2 DEF Fds, Moved
        <4>4. thread[u].fd = "none" => h = "none"
          BY <4>3 DEF Moved
        <4> QED BY <2>4, <3>1, <4>1, <4>3, <4>4, FileMoved
      <3> QED BY <2>4, <3>1 DEF Moves
    <2>6. Typed'
      <3>1. FilesOK'
        BY <1>6, <1>7, <1>9 DEF FilesOK, NoTemp
      <3>2. ThreadOK(v)'
        BY <1>2, <1>5, <2>3, ThreadGrows
      <3> QED BY <1>2, <1>5, <2>3, <2>5, <3>1, <3>2, MoveTyped
    <2>7. CASE ~ Calm
      <3>1. ~ Calm'
        BY <1>3, <2>7 DEF Calm
      <3> QED BY <2>6, <3>1, OnlyTyped
    <2>8. CASE Calm
      <3>1. Solo /\ FileSound /\ Expects(th) /\ Saves(th)
        BY <1>1, <2>8 DEF Inv, Ordered
      <3>2. file' = Change(th, file)
        BY <1>2, <1>9, <3>1 DEF Saves
      <3>3. f \in States(f.projects, f.deployments)
        BY <1>2, <1>6 DEF FilesOK, StateOK
      <3>4. PICK p : p = th.project
        OBVIOUS
      <3>5. CASE th.at \in Owns
        <4>1. PICK x, st : x = th.dep /\ st = Becomes[th.at]
          OBVIOUS
        <4>2. DeploymentSet(x, p, st)
          <5>1. file' = PutDeployment(f, x, p, st)
            BY <1>6, <3>2, <3>4, <3>5, <4>1, ChangeIs
          <5> QED BY <1>6, <3>3, <5>1, PutDeploymentFacts DEF DeploymentSet
        <4>3. Ordered' /\ Known' /\ Served'
          BY <1>1, <1>2, <1>3, <2>1, <2>3, <2>5, <2>8, <3>4, <3>5, <4>1, <4>2, OwnSaved
        <4> QED BY <2>6, <4>3 DEF Inv
      <3>6. CASE th.at = "old_stopped"
        <4>1. PICK x, st : x = th.old /\ st = "stopped"
          OBVIOUS
        <4>2. DeploymentSet(x, p, st)
          <5>1. file' = PutDeployment(f, x, p, st)
            BY <1>6, <3>2, <3>4, <3>6, <4>1, ChangeIs
          <5> QED BY <1>6, <3>3, <5>1, PutDeploymentFacts DEF DeploymentSet
        <4>3. Continued(th, "activate", v)
          BY <2>1, <2>3, <3>6 DEF OnOk
        <4>4. Ordered' /\ Known' /\ Served'
          BY <1>1, <1>2, <1>3, <2>3, <2>5, <2>8, <3>4, <3>6, <4>1, <4>2, <4>3, OldSaved
        <4> QED BY <2>6, <4>4 DEF Inv
      <3>7. CASE th.at \in {"insert_project", "clear", "activate"}
        <4>1. PICK name, active : name = th.name /\ active = IF th.at = "activate" THEN th.dep ELSE 0
          OBVIOUS
        <4>2. ProjectSet(p, name, active)
          <5>1. file' = PutProject(f, p, name, active)
            BY <1>6, <3>2, <3>4, <3>7, <4>1, ChangeIs
          <5> QED BY <1>6, <3>3, <5>1, PutProjectFacts DEF ProjectSet
        <4>3. Moves(t, Idle)
          <5>1. at = "done"
            BY <2>1, <3>7 DEF OnOk
          <5> QED BY <2>3, <2>5, <5>1
        <4>4. /\ th.at = "insert_project" => NewProject(th)
              /\ th.at = "clear" => ActiveProject(th)
              /\ th.at = "activate" => OwnProject(th) /\ OwnDeployment(th)
          BY <3>1 DEF Expects, Deploying, Locked
        <4>5. /\ th.at = "insert_project" => p \notin DOMAIN file.projects
              /\ th.at # "insert_project" => p \in DOMAIN file.projects /\ file.projects[p].name = name
          BY <3>4, <3>7, <4>1, <4>4 DEF NewProject, ActiveProject, OwnProject
        <4>6. \A q \in DOMAIN file.projects : q # p => file.projects[q].name # name
          BY <3>1, <4>1, <4>4, <4>5 DEF NewProject, FileSound
        <4>7. active # 0 => /\ active \in DOMAIN file.deployments
                            /\ file.deployments[active].project = p
                            /\ file.deployments[active].status = "running"
          BY <3>4, <4>1, <4>4 DEF OwnDeployment, StatusAt
        <4>8. ASSUME th.at # "insert_project", Serves(th) PROVE Containers(p) = {active} \ {0}
          <5>1. CASE th.at = "activate"
            <6>1. th.dep # 0
              BY <1>2, <5>1 DEF ThreadOK, Locked, Deploying
            <6> QED BY <3>4, <4>1, <4>8, <5>1, <6>1 DEF Serves
          <5>2. CASE th.at = "clear"
            BY <3>4, <4>1, <4>4, <4>8, <5>2 DEF Serves, Active, ActiveProject
          <5> QED BY <3>7, <4>8, <5>1, <5>2
        <4>9. Ordered' /\ Known' /\ Served'
          BY <1>1, <1>2, <1>3, <2>8, <3>4, <3>7, <4>1, <4>2, <4>3, <4>5, <4>6, <4>7, <4>8, ProjectSaved
        <4> QED BY <2>6, <4>9 DEF Inv
      <3> QED BY <1>4, <3>5, <3>6, <3>7, UpdatesAre
    <2> QED BY <2>7, <2>8
  <1> QED BY <1>1, <1>8, <1>9 DEF Rename

---------------------------------------------------------------------------
(* The theorems                                                            *)

\* Nothing has been saved, nobody does anything.
LEMMA InvInit == Init => Inv
  <1> SUFFICES ASSUME Init PROVE Inv
    OBVIOUS
  <1>1. /\ projects = 0 /\ deployments = 0 /\ containers = {} /\ faults = {} /\ trouble = 0
        /\ file = Empty /\ temp = NoTemp /\ lock = [p \in Process |-> None]
        /\ thread = [t \in Thread |-> Idle]
    BY DEF Init
  <1>2. \A t \in Thread : thread[t] = Idle
    BY <1>1
  <1>3. StateOK(Empty) /\ ThreadOK(Idle) /\ Empty.torn = FALSE /\ Empty.projects = <<>> /\ Empty.deployments = <<>>
    BY <1>1, EmptyOK, IdleOK DEF Empty
  <1>4. Typed
    <2>1. CountsOK
      BY <1>1, DeploymentServiceAssumption DEF CountsOK
    <2>2. FilesOK
      BY <1>1, <1>3 DEF FilesOK, NoTemp
    <2>3. LocksOK
      BY <1>1, <1>2, IdleIs, AtsAre DEF LocksOK
    <2>4. thread = [t \in Thread |-> thread[t]]
      BY <1>1
    <2> QED BY <1>2, <1>3, <2>1, <2>2, <2>3, <2>4 DEF Typed
  <1>5. Ordered
    <2>1. Solo
      BY <1>2, IdleIs, IdleExpects, AtsAre DEF Solo
    <2>2. FileSound
      BY <1>1, <1>3 DEF FileSound
    <2>3. Saves(Idle)
      BY IdleIs, IdleExpects DEF Saves
    <2> QED BY <1>2, <2>1, <2>2, <2>3, IdleExpects DEF Ordered
  <1>6. Known
    BY <1>1, <1>2, IdleExpects DEF Known
  <1>7. Served
    BY <1>1, <1>2, <1>3, IdleIs, AtsAre DEF Served
  <1> QED BY <1>4, <1>5, <1>6, <1>7 DEF Inv

\* Every step keeps the invariant.
LEMMA InvNext == Inv /\ [Next]_vars => Inv'
  <1> SUFFICES ASSUME Inv, [Next]_vars PROVE Inv'
    OBVIOUS
  <1>1. ASSUME NEW t \in Thread, NEW name \in Name, CreateProject(t, name) PROVE Inv'
    BY <1>1, CreateProjectStep
  <1>2. ASSUME NEW t \in Thread, NEW p \in 1 .. projects, Deploy(t, p) PROVE Inv'
    BY <1>2, DeployStep
  <1>3. ASSUME NEW t \in Thread, NEW d \in 1 .. deployments, Stop(t, d) PROVE Inv'
    BY <1>3, StopStep
  <1>4. ASSUME NEW t \in Thread,
               Load(t) \/ LoadFails(t) \/ Create(t) \/ Write(t) \/ Rename(t) \/ SaveFails(t)
        PROVE Inv'
    BY <1>4, LoadStep, LoadFailsStep, CreateStep, WriteStep, RenameStep, SaveFailsStep
  <1>5. ASSUME NEW t \in Thread,
               \/ Build(t) \/ StartStatic(t) \/ Unstart(t) \/ StopOld(t)
               \/ Halt(t) \/ ClearActive(t)
        PROVE Inv'
    BY <1>5, BuildStep, StartStaticStep, UnstartStep, StopOldStep, HaltStep, ClearActiveStep
  <1>6. ASSUME NEW p \in Process, Crash(p) PROVE Inv'
    BY <1>6, CrashStep
  <1>7. CASE UNCHANGED vars
    <2>1. /\ file' = file /\ temp' = temp /\ lock' = lock /\ thread' = thread /\ containers' = containers
          /\ projects' = projects /\ deployments' = deployments /\ faults' = faults /\ trouble' = trouble
      BY <1>7 DEF vars
    <2>2. Typed' <=> Typed
      BY <2>1 DEF Typed, CountsOK, FilesOK, LocksOK, ThreadOK, StateOK, StateType
    <2>3. Ordered' <=> Ordered
      BY <2>1 DEF Ordered, Calm, Solo, FileSound, Expects, Saves, Saving, NewProject, OwnProject,
                  OwnDeployment, OldDeployment, ActiveProject
    <2>4. Known' <=> Known
      BY <2>1 DEF Known, Steady, Recorded, Started, Gone
    <2>5. Served' <=> Served
      BY <2>1 DEF Served, Smooth, Containers, Active, Serves, Busy
    <2> QED BY <2>2, <2>3, <2>4, <2>5 DEF Inv
  <1> QED BY <1>1, <1>2, <1>3, <1>4, <1>5, <1>6, <1>7 DEF Next

\* The invariant holds in every state the service reaches.
LEMMA InvHolds == Spec => []Inv
  BY InvInit, InvNext, PTL DEF Spec

\* The platform's state is well typed, and no lock is held by a thread that waits
\* for nothing: deploy and stop give operation_lock back however they end.
THEOREM TypeCorrect == Spec => []TypeOK
  <1>1. Inv => TypeOK
    <2> SUFFICES ASSUME Typed PROVE TypeOK
      BY DEF Inv
    <2>1. CountsOK /\ FilesOK /\ LocksOK
      BY DEF Typed
    <2>2. ASSUME NEW p \in Process, lock[p] # None PROVE ProcessOf[lock[p]] = p /\ thread[lock[p]] # Idle
      BY <2>1, <2>2, IdleIs, AtsAre DEF LocksOK
    <2>3. ASSUME NEW t \in Thread
          PROVE  /\ thread[t].at \in Updates \cup {"idle", "build", "start", "unstart", "old", "halt", "own"}
                 /\ thread[t].stage \in {"none", "load", "create", "write", "rename"}
                 /\ thread[t].fd \in {"none", "temp", "state", "gone"}
                 /\ thread[t].alone \in BOOLEAN /\ StateType(thread[t].buf)
      BY <2>3, ThreadIs, AtsAre DEF ThreadOK, Locals, Stages, Fds, StateOK
    <2>4. StateType(file) /\ StateType(temp.state) /\ temp.exists \in BOOLEAN
      BY <2>1 DEF FilesOK, StateOK
    <2> QED BY <2>1, <2>2, <2>3, <2>4 DEF TypeOK, CountsOK
  <1> QED BY <1>1, InvHolds, PTL

\* Whatever fails, and wherever a process ends, state.json is complete and
\* consistent, as long as no two operations overlapped that no lock keeps apart.
THEOREM StateAlwaysSound == Spec => []StateSound
  <1>1. Inv => StateSound
    <2>1. Kept({"overlap"}) => Calm
      BY DEF Kept, Calm
    <2> QED BY <2>1 DEF Inv, Ordered, FileSound, StateSound
  <1> QED BY <1>1, InvHolds, PTL

\* A deployment the store operation of a thread replaces has not ended.
LEMMA ReplacedNotFinal ==
  ASSUME NEW th, Expects(th)
  PROVE  /\ th.at \in Owns /\ th.dep \in DOMAIN file.deployments =>
              file.deployments[th.dep].status \notin Final
         /\ th.at = "old_stopped" => file.deployments[th.old].status \notin Final
  BY DEF Expects, OwnDeployment, OldDeployment, StatusAt, Final, Owns, Locked, Deploying, Stopping

\* What a rename puts in place keeps the records of the state file.
LEMMA RenameKeeps ==
  ASSUME Inv, Calm, NEW t \in Thread, Rename(t)
  PROVE  /\ DOMAIN file.projects \subseteq DOMAIN file'.projects
         /\ \A d \in DOMAIN file.deployments :
              /\ d \in DOMAIN file'.deployments
              /\ file.deployments[d].status \in Final => file'.deployments[d] = file.deployments[d]
  <1>1. PICK th : th = thread[t]
    OBVIOUS
  <1>2. /\ ThreadOK(th) /\ th.stage = "rename" /\ Saving(th) /\ th.at \in Updates
        /\ Expects(th) /\ Saves(th) /\ StateOK(file)
    BY <1>1, ThreadIs DEF Inv, Typed, FilesOK, Rename, Saving, Ordered, ThreadOK
  <1>3. file' = Change(th, file)
    BY <1>1, <1>2 DEF Rename, Saves
  <1>4. PICK f, p : f = file /\ f \in States(f.projects, f.deployments) /\ p = th.project
    BY <1>2 DEF StateOK
  <1>5. ASSUME NEW x, NEW st, file' = PutDeployment(f, x, p, st),
               x \in DOMAIN file.deployments => file.deployments[x].status \notin Final
        PROVE  /\ DOMAIN file.projects \subseteq DOMAIN file'.projects
               /\ \A d \in DOMAIN file.deployments :
                    /\ d \in DOMAIN file'.deployments
                    /\ file.deployments[d].status \in Final => file'.deployments[d] = file.deployments[d]
    <2>1. DeploymentSet(x, p, st)
      BY <1>4, <1>5, PutDeploymentFacts DEF DeploymentSet
    <2> QED BY <1>5, <2>1 DEF DeploymentSet
  <1>6. CASE th.at \in Owns
    <2>1. PICK x, st : x = th.dep /\ st = Becomes[th.at]
      OBVIOUS
    <2>2. file' = PutDeployment(f, x, p, st)
      BY <1>3, <1>4, <1>6, <2>1, ChangeIs
    <2> QED BY <1>2, <1>5, <1>6, <2>1, <2>2, ReplacedNotFinal
  <1>7. CASE th.at = "old_stopped"
    <2>1. PICK x, st : x = th.old /\ st = "stopped"
      OBVIOUS
    <2>2. file' = PutDeployment(f, x, p, st)
      BY <1>3, <1>4, <1>7, <2>1, ChangeIs
    <2> QED BY <1>2, <1>5, <1>7, <2>1, <2>2, ReplacedNotFinal
  <1>8. CASE th.at \in {"insert_project", "clear", "activate"}
    <2>1. PICK name, active : name = th.name /\ active = IF th.at = "activate" THEN th.dep ELSE 0
      OBVIOUS
    <2>2. file' = PutProject(f, p, name, active)
      BY <1>3, <1>4, <1>8, <2>1, ChangeIs
    <2>3. ProjectSet(p, name, active)
      BY <1>4, <2>2, PutProjectFacts DEF ProjectSet
    <2> QED BY <2>3 DEF ProjectSet
  <1> QED BY <1>2, <1>6, <1>7, <1>8, UpdatesAre

\* No other step changes the state file while no two operations overlap.
LEMMA OthersLeaveFile ==
  ASSUME Inv, Next, Calm, \A t \in Thread : ~ Rename(t)
  PROVE  file' = file
  <1>1. ASSUME NEW t \in Thread, Write(t) PROVE file' = file
    <2>1. thread[t].stage = "write" /\ Saves(thread[t])
      BY <1>1 DEF Write, Inv, Ordered
    <2>2. thread[t].fd = "temp"
      BY <2>1 DEF Saves
    <2> QED BY <1>1, <2>2 DEF Write
  <1> QED BY <1>1 DEF Next, CreateProject, Deploy, Stop, Load, LoadFails, Create, SaveFails, Build, StartStatic,
                      Unstart, StopOld, Halt, ClearActive, Crash

\* Saving loses no record and changes none that is final, as long as no two
\* operations overlapped.
THEOREM RecordsAlwaysKept == Spec => RecordsKept
  <1>1. ASSUME Inv, [Next]_vars, Kept({"overlap"})'
        PROVE  /\ DOMAIN file.projects \subseteq DOMAIN file'.projects
               /\ \A d \in DOMAIN file.deployments :
                    /\ d \in DOMAIN file'.deployments
                    /\ file.deployments[d].status \in Final => file'.deployments[d] = file.deployments[d]
    <2>1. CASE UNCHANGED vars
      BY <2>1 DEF vars
    <2>2. CASE Next
      <3>1. Calm
        <4>1. faults \subseteq faults'
          BY <2>2 DEF Next, CreateProject, Deploy, Stop, Load, LoadFails, Create, Write, Rename, SaveFails, Build,
                      StartStatic, Unstart, StopOld, Halt, ClearActive, Crash, NoteOverlap, Trouble, StopContainer
        <4> QED BY <1>1, <4>1 DEF Kept, Calm
      <3>2. CASE \E t \in Thread : Rename(t)
        BY <1>1, <3>1, <3>2, RenameKeeps
      <3>3. CASE \A t \in Thread : ~ Rename(t)
        <4>1. file' = file
          BY <1>1, <2>2, <3>1, <3>3, OthersLeaveFile
        <4> QED BY <4>1
      <3> QED BY <3>2, <3>3
    <2> QED BY <1>1, <2>1, <2>2
  <1>2. Inv /\ [Next]_vars =>
          [Kept({"overlap"})' =>
             /\ DOMAIN file.projects \subseteq DOMAIN file'.projects
             /\ \A d \in DOMAIN file.deployments :
                  /\ d \in DOMAIN file'.deployments
                  /\ file.deployments[d].status \in Final =>
                       file'.deployments[d] = file.deployments[d]]_vars
    BY <1>1
  <1> QED BY <1>2, InvHolds, PTL DEF Spec, RecordsKept

\* A container that runs is recorded as running, or was just started by a deploy
\* in progress, unless a stop failed, a container was not found, or a process
\* ended or operations overlapped.
THEOREM ContainersAlwaysKnown == Spec => []ContainersKnown
  <1>1. Inv => ContainersKnown
    <2>1. Kept({"overlap", "crash", "stop", "discovery"}) => Steady
      BY DEF Kept, Steady
    <2> QED BY <2>1 DEF Inv, Known, Recorded, Started, ContainersKnown
  <1> QED BY <1>1, InvHolds, PTL

\* Between operations, a project has the container of its active deployment and
\* no other, as long as nothing but builds has failed.
THEOREM ActiveAlwaysServes == Spec => []ActiveServes
  <1>1. Inv => ActiveServes
    <2> SUFFICES ASSUME Inv, Kept({"overlap", "crash", "disk", "stop", "discovery"}),
                        \A q \in Process : lock[q] = None, NEW p \in DOMAIN file.projects
                 PROVE  {d \in containers : file.deployments[d].project = p} = {file.projects[p].active} \ {0}
      BY DEF ActiveServes
    <2>1. Smooth /\ Steady
      BY DEF Kept, Smooth, Steady
    <2>2. ASSUME NEW t \in Thread PROVE thread[t].at \notin Locked
      BY <2>2, DeploymentServiceAssumption DEF Inv, Typed, LocksOK
    <2>3. ~ Busy(p)
      BY <2>2 DEF Busy
    <2>4. Containers(p) = Active(p)
      BY <2>1, <2>3 DEF Inv, Served
    <2>5. \A d \in containers : d \in DOMAIN file.deployments
      <3>1. \A d : ~ Started(d)
        BY <2>2 DEF Started, Locked, Deploying
      <3> QED BY <2>1, <3>1 DEF Inv, Known, Recorded
    <2> QED BY <2>4, <2>5 DEF Containers, Active
  <1> QED BY <1>1, InvHolds, PTL
=============================================================================
