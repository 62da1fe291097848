------------------------- MODULE DeploymentService -------------------------
(***************************************************************************)
(* The single-node platform: DeploymentService of src/service.rs over the  *)
(* state file of src/store.rs and the containers of src/runtime.rs.        *)
(*                                                                         *)
(* deploy and stop hold operation_lock, which is one per process;          *)
(* create_project holds nothing, and the command line is a process of its  *)
(* own.  A store operation loads the file, changes what it loaded, writes  *)
(* state.json.tmp and renames it: four steps, since other threads may come *)
(* between.  The temporary file is the same for all of them.               *)
(***************************************************************************)
EXTENDS Integers, FiniteSets

CONSTANTS
  Thread,          \* requests and commands being carried out
  Process,         \* processes on the state directory
  ProcessOf,       \* the process of each thread
  Name,            \* project names
  MaxProjects,     \* bound on the projects created
  MaxDeployments,  \* bound on the deployments
  MaxTrouble,      \* bound on failures, crashes and steps that overlap
  None             \* no thread

ASSUME DeploymentServiceAssumption ==
  /\ ProcessOf \in [Thread -> Process]
  /\ MaxProjects \in Nat /\ MaxDeployments \in Nat /\ MaxTrouble \in Nat
  /\ None \notin Thread

VARIABLES
  file,         \* what state.json holds
  temp,         \* what state.json.tmp holds, and whether it exists
  lock,         \* operation_lock of each process
  thread,       \* what each thread is doing
  containers,   \* deployments whose container runs
  projects,     \* how many project ids were drawn
  deployments,  \* how many deployment ids were drawn
  faults,       \* history: kinds of things that went wrong
  trouble       \* history: how many things went wrong

vars == <<file, temp, lock, thread, containers, projects, deployments, faults,
          trouble>>
idVars == <<projects, deployments>>

Status == {"pending", "building", "running", "stopped", "failed"}
Final == {"stopped", "failed"}

\* "overlap": two operations were under way that no lock keeps apart.
Fault == {"overlap", "crash", "disk", "build", "stop", "discovery"}

Empty == [torn |-> FALSE, projects |-> <<>>, deployments |-> <<>>]
\* A file that was truncated and not yet written, or written by two at a time.
Torn == [Empty EXCEPT !.torn = TRUE]

NoTemp == [exists |-> FALSE, state |-> Empty]

\* at: the store operation or call in progress; stage: how far a store operation
\* is; buf: the state it will save; fd: where its open temporary file is now;
\* alone: nobody else has written that file meanwhile.
Idle == [at |-> "idle", stage |-> "none", project |-> 0, name |-> None, old |-> 0,
         dep |-> 0, buf |-> Empty, fd |-> "none", alone |-> TRUE]

Init ==
  /\ file = Empty
  /\ temp = NoTemp
  /\ lock = [p \in Process |-> None]
  /\ thread = [t \in Thread |-> Idle]
  /\ containers = {}
  /\ projects = 0
  /\ deployments = 0
  /\ faults = {}
  /\ trouble = 0

---------------------------------------------------------------------------
(* Control.                                                                *)

Updates == {"insert_project", "insert_deployment", "building", "image", "running",
            "old_stopped", "activate", "failed", "stopped", "clear"}

\* Where an operation goes on when a store operation succeeded.
OnOk == [insert_project |-> "done", insert_deployment |-> "building",
         building |-> "build", image |-> "start", running |-> "old",
         old_stopped |-> "activate", activate |-> "done", failed |-> "done",
         stopped |-> "own", clear |-> "done"]

\* Mutant: a deployment that could not be saved as running keeps its container.
KeepsContainer(at) == IF at = "old_stopped" THEN "activate" ELSE "done"

\* Where it goes on when the store operation failed.
OnError(at) == CASE at = "running" -> "unstart"
                 [] at = "old_stopped" -> "activate"
                 [] OTHER -> "done"

\* The thread at its next store operation or call; a thread that is done has
\* returned and holds no lock.
Continue(th, at) ==
  IF at = "done" THEN Idle
  ELSE [th EXCEPT !.at = at, !.stage = IF at \in Updates THEN "load" ELSE "none",
                  !.buf = Empty, !.fd = "none", !.alone = TRUE]

\* Mutant: an operation that ends keeps the lock.
KeepsLock(t, at) == lock

Release(t, at) ==
  IF at = "done" /\ lock[ProcessOf[t]] = t THEN [lock EXCEPT ![ProcessOf[t]] = None]
  ELSE lock

Goto(t, th, at) ==
  /\ thread' = [thread EXCEPT ![t] = Continue(th, at)]
  /\ lock' = Release(t, at)

\* operation_lock of the process can be taken.
CanLock(t) == thread[t] = Idle /\ lock[ProcessOf[t]] = None

\* deploy and stop of one process are kept apart by the lock.
Serialised(t, u) ==
  ProcessOf[t] = ProcessOf[u] /\ "insert_project" \notin {thread[t].at, thread[u].at}

\* u has loaded the state and not yet replaced it, or has checked a name that t
\* may be about to use.
Overlapping(t, u) ==
  /\ u # t
  /\ ~ Serialised(t, u)
  /\ \/ thread[u].stage \in {"create", "write", "rename"}
     \/ thread[t].at = "insert_project" /\ thread[u].at = "insert_project"

Trouble(kind) ==
  /\ trouble < MaxTrouble
  /\ trouble' = trouble + 1
  /\ faults' = faults \cup {kind}

NoteOverlap(b) == IF b THEN Trouble("overlap") ELSE UNCHANGED <<faults, trouble>>

---------------------------------------------------------------------------
(* StateStore.                                                             *)

\* A table with the row of this id inserted or replaced.
Put(rows, id, row) ==
  [i \in DOMAIN rows \cup {id} |-> IF i = id THEN row ELSE rows[i]]

PutProject(s, p, name, active) ==
  [s EXCEPT !.projects = Put(@, p, [name |-> name, active |-> active])]

PutDeployment(s, d, project, status) ==
  [s EXCEPT !.deployments = Put(@, d, [project |-> project, status |-> status])]

\* What the operation in progress does to the state it loaded.  update_project
\* and update_deployment write back the whole record the caller holds.
Change(th, s) ==
  CASE th.at = "insert_project" -> PutProject(s, th.project, th.name, 0)
    [] th.at = "insert_deployment" -> PutDeployment(s, th.dep, th.project, "pending")
    [] th.at \in {"building", "image"} -> PutDeployment(s, th.dep, th.project, "building")
    [] th.at = "running" -> PutDeployment(s, th.dep, th.project, "running")
    [] th.at = "failed" -> PutDeployment(s, th.dep, th.project, "failed")
    [] th.at = "old_stopped" -> PutDeployment(s, th.old, th.project, "stopped")
    [] th.at = "stopped" -> PutDeployment(s, th.dep, th.project, "stopped")
    [] th.at = "activate" -> PutProject(s, th.project, th.name, th.dep)
    [] th.at = "clear" -> PutProject(s, th.project, th.name, 0)

\* The record an update replaces is there; an insert needs none.
Present(th, s) ==
  CASE th.at \in {"insert_project", "insert_deployment"} -> TRUE
    [] th.at \in {"activate", "clear"} -> th.project \in DOMAIN s.projects
    [] th.at = "old_stopped" -> th.old \in DOMAIN s.deployments
    [] OTHER -> th.dep \in DOMAIN s.deployments

\* load, and the change
Load(t) ==
  LET th == thread[t] IN
  /\ th.stage = "load"
  /\ \/ /\ ~ file.torn /\ Present(th, file)
        /\ thread' = [thread EXCEPT ![t] = [th EXCEPT !.stage = "create", !.buf = Change(th, file)]]
        /\ UNCHANGED lock
     \/ /\ file.torn \/ ~ Present(th, file)
        /\ Goto(t, th, OnError(th.at))
  /\ NoteOverlap(\E u \in Thread : Overlapping(t, u))
  /\ UNCHANGED <<file, temp, containers, idVars>>

\* load fails, though the file is sound.
LoadFails(t) ==
  /\ thread[t].stage = "load"
  /\ Goto(t, thread[t], OnError(thread[t].at))
  /\ Trouble("disk")
  /\ UNCHANGED <<file, temp, containers, idVars>>

\* Mutant: the state file is written in place.
CreateInPlace(t) ==
  /\ thread[t].stage = "create"
  /\ file' = Torn
  /\ thread' = [thread EXCEPT ![t].stage = "write", ![t].fd = "state"]
  /\ UNCHANGED <<temp, lock, containers, idVars, faults, trouble>>

\* save: File::create truncates a temporary file that is there.
Create(t) ==
  /\ thread[t].stage = "create"
  /\ temp' = [exists |-> TRUE, state |-> Torn]
  /\ thread' = [u \in Thread |->
       IF u = t THEN [thread[t] EXCEPT !.stage = "write", !.fd = "temp",
                        !.alone = \A v \in Thread : thread[v].fd # "temp"]
       ELSE IF thread[u].fd = "temp" THEN [thread[u] EXCEPT !.alone = FALSE]
       ELSE thread[u]]
  /\ UNCHANGED <<file, lock, containers, idVars, faults, trouble>>

\* to_writer_pretty and sync_all, into the file the thread opened, wherever that
\* is by now.
Write(t) ==
  LET th == thread[t] IN
  /\ th.stage = "write"
  /\ \E s \in {th.buf} \cup (IF th.alone THEN {} ELSE {Torn}) :
       /\ temp' = IF th.fd = "temp" THEN [temp EXCEPT !.state = s] ELSE temp
       /\ file' = IF th.fd = "state" THEN s ELSE file
  /\ thread' = [thread EXCEPT ![t] = [th EXCEPT !.stage = "rename", !.fd = "none"]]
  /\ UNCHANGED <<lock, containers, idVars, faults, trouble>>

\* The open files follow the file: what is renamed is the state now, what it
\* replaced has no name any more.
Moved(f) == CASE f = "temp" -> "state" [] f = "state" -> "gone" [] OTHER -> f

\* rename; it fails when another thread's rename took the temporary file.
Rename(t) ==
  LET th == thread[t] IN
  /\ th.stage = "rename"
  /\ \/ /\ temp.exists
        /\ file' = temp.state
        /\ temp' = NoTemp
        /\ thread' = [u \in Thread |-> IF u = t THEN Continue(th, OnOk[th.at])
                                      ELSE [thread[u] EXCEPT !.fd = Moved(@)]]
        /\ lock' = Release(t, OnOk[th.at])
     \/ /\ ~ temp.exists
        /\ Goto(t, th, OnError(th.at))
        /\ UNCHANGED <<file, temp>>
  /\ UNCHANGED <<containers, idVars, faults, trouble>>

\* The disk refuses a step of save, which then removes the temporary file.
SaveFails(t) ==
  LET th == thread[t] IN
  /\ th.stage \in {"create", "write", "rename"}
  /\ temp' = NoTemp
  /\ thread' = [u \in Thread |->
       IF u = t THEN Continue(th, OnError(th.at))
       ELSE [thread[u] EXCEPT !.fd = IF @ = "temp" THEN "gone" ELSE @]]
  /\ lock' = Release(t, OnError(th.at))
  /\ Trouble("disk")
  /\ UNCHANGED <<file, containers, idVars>>

---------------------------------------------------------------------------
(* DeploymentService.                                                      *)

\* create_project: the name is checked on a state of its own.  Other checks of
\* the input refuse it before anything is read.
CreateProject(t, name) ==
  /\ thread[t] = Idle
  /\ projects < MaxProjects
  /\ ~ file.torn
  /\ \A p \in DOMAIN file.projects : file.projects[p].name # name
  /\ projects' = projects + 1
  /\ Goto(t, [Idle EXCEPT !.project = projects', !.name = name], "insert_project")
  /\ NoteOverlap(\E u \in Thread : thread[u].at = "insert_project")
  /\ UNCHANGED <<file, temp, containers, deployments>>

\* The lock is taken while an operation of another process is under way.
OtherProcess(t) == \E p \in Process \ {ProcessOf[t]} : lock[p] # None

\* deploy, up to the first store operation that writes
Deploy(t, p) ==
  /\ CanLock(t)
  /\ deployments < MaxDeployments
  /\ ~ file.torn
  /\ p \in DOMAIN file.projects
  /\ deployments' = deployments + 1
  /\ thread' = [thread EXCEPT ![t] = Continue(
       [Idle EXCEPT !.project = p, !.name = file.projects[p].name,
                    !.old = file.projects[p].active, !.dep = deployments'],
       "insert_deployment")]
  /\ lock' = [lock EXCEPT ![ProcessOf[t]] = t]
  /\ NoteOverlap(OtherProcess(t))
  /\ UNCHANGED <<file, temp, containers, projects>>

\* detect_static_source and ImageBuilder::build
Build(t) ==
  /\ thread[t].at = "build"
  /\ \/ Goto(t, thread[t], "image") /\ UNCHANGED <<faults, trouble>>
     \/ Goto(t, thread[t], "failed") /\ Trouble("build")
  /\ UNCHANGED <<file, temp, containers, idVars>>

\* start_static.  When it fails no container is left, unless it was started and
\* then not found in the list, or was unhealthy and could not be stopped.
StartStatic(t) ==
  /\ thread[t].at = "start"
  /\ \/ /\ containers' = containers \cup {thread[t].dep}
        /\ Goto(t, thread[t], "running")
        /\ UNCHANGED <<faults, trouble>>
     \/ /\ Goto(t, thread[t], "failed")
        /\ \/ Trouble("build") /\ UNCHANGED containers
           \/ Trouble("discovery") /\ containers' = containers \cup {thread[t].dep}
  /\ UNCHANGED <<file, temp, idVars>>

\* Runtime::stop
StopContainer(d) ==
  \/ containers' = containers \ {d} /\ UNCHANGED <<faults, trouble>>
  \/ UNCHANGED containers /\ Trouble("stop")

\* A container whose deployment could not be saved is stopped again.
Unstart(t) ==
  /\ thread[t].at = "unstart"
  /\ StopContainer(thread[t].dep)
  /\ Goto(t, thread[t], "done")
  /\ UNCHANGED <<file, temp, idVars>>

\* Mutant: the deployment that was active is left alone.
ReplacesNothing(th) == FALSE

\* The deployment that was active when deploy began is read again.
ReplacesOld(th) ==
  /\ ~ file.torn
  /\ th.old \in DOMAIN file.deployments
  /\ file.deployments[th.old].status = "running"

\* It is stopped, and counts as stopped even if that failed; one that cannot be
\* read is left alone.
StopOld(t) ==
  LET th == thread[t] IN
  /\ th.at = "old"
  /\ \/ ReplacesOld(th) /\ StopContainer(th.old) /\ Goto(t, th, "old_stopped")
     \/ /\ ~ ReplacesOld(th)
        /\ Goto(t, th, "activate")
        /\ UNCHANGED <<containers, faults, trouble>>
     \/ Goto(t, th, "activate") /\ Trouble("disk") /\ UNCHANGED containers
  /\ UNCHANGED <<file, temp, idVars>>

\* Mutant: stop returns early only for a deployment that was stopped, and does not
\* ask for its container.
StopsFailed(d) == file.deployments[d].status # "stopped"

\* A deployment that ended is returned as it is; one that has no container yet is
\* an error.
Stoppable(d) == file.deployments[d].status = "running"

\* stop, up to the call of the runtime
Stop(t, d) ==
  /\ CanLock(t)
  /\ ~ file.torn
  /\ d \in DOMAIN file.deployments
  /\ Stoppable(d)
  /\ thread' = [thread EXCEPT ![t] = Continue(
       [Idle EXCEPT !.project = file.deployments[d].project, !.dep = d], "halt")]
  /\ lock' = [lock EXCEPT ![ProcessOf[t]] = t]
  /\ NoteOverlap(OtherProcess(t))
  /\ UNCHANGED <<file, temp, containers, idVars>>

Halt(t) ==
  /\ thread[t].at = "halt"
  /\ \/ /\ containers' = containers \ {thread[t].dep}
        /\ Goto(t, thread[t], "stopped")
        /\ UNCHANGED <<faults, trouble>>
     \/ /\ Goto(t, thread[t], "done")
        /\ Trouble("stop")
        /\ UNCHANGED containers
  /\ UNCHANGED <<file, temp, idVars>>

\* The project of the stopped deployment, if it can be read and that was the
\* active one.
ClearActive(t) ==
  LET th == thread[t]
      isActive == /\ ~ file.torn
                  /\ th.project \in DOMAIN file.projects
                  /\ file.projects[th.project].active = th.dep
  IN
  /\ th.at = "own"
  /\ \/ /\ isActive
        /\ Goto(t, [th EXCEPT !.name = file.projects[th.project].name], "clear")
        /\ UNCHANGED <<faults, trouble>>
     \/ ~ isActive /\ Goto(t, th, "done") /\ UNCHANGED <<faults, trouble>>
     \/ Goto(t, th, "done") /\ Trouble("disk")
  /\ UNCHANGED <<file, temp, containers, idVars>>

\* The process ends; the containers are detached and stay.
Crash(p) ==
  /\ \E t \in Thread : ProcessOf[t] = p /\ thread[t] # Idle
  /\ thread' = [t \in Thread |-> IF ProcessOf[t] = p THEN Idle ELSE thread[t]]
  /\ lock' = [lock EXCEPT ![p] = None]
  /\ Trouble("crash")
  /\ UNCHANGED <<file, temp, containers, idVars>>

Next ==
  \/ \E t \in Thread :
       \/ \E name \in Name : CreateProject(t, name)
       \/ \E p \in 1 .. projects : Deploy(t, p)
       \/ \E d \in 1 .. deployments : Stop(t, d)
       \/ Load(t) \/ LoadFails(t) \/ Create(t) \/ Write(t) \/ Rename(t) \/ SaveFails(t)
       \/ Build(t) \/ StartStatic(t) \/ Unstart(t) \/ StopOld(t)
       \/ Halt(t) \/ ClearActive(t)
  \/ \E p \in Process : Crash(p)

Spec == Init /\ [][Next]_vars

---------------------------------------------------------------------------
(* Properties.                                                             *)

StateType(s) ==
  /\ s.torn \in BOOLEAN
  /\ DOMAIN s.projects \subseteq 1 .. projects
  /\ \A p \in DOMAIN s.projects : /\ s.projects[p].name \in Name
                                  /\ s.projects[p].active \in 0 .. deployments
  /\ DOMAIN s.deployments \subseteq 1 .. deployments
  /\ \A d \in DOMAIN s.deployments : /\ s.deployments[d].status \in Status
                                     /\ s.deployments[d].project \in 1 .. projects

\* The state of the platform is well formed: what the files and the threads hold
\* names projects and deployments that were made, and a thread that waits for
\* nothing holds no lock.
TypeOK ==
  /\ StateType(file) /\ StateType(temp.state) /\ temp.exists \in BOOLEAN
  /\ \A p \in Process : lock[p] # None => ProcessOf[lock[p]] = p /\ thread[lock[p]] # Idle
  /\ \A t \in Thread :
       /\ thread[t].at \in Updates \cup {"idle", "build", "start", "unstart", "old", "halt", "own"}
       /\ thread[t].stage \in {"none", "load", "create", "write", "rename"}
       /\ thread[t].fd \in {"none", "temp", "state", "gone"}
       /\ thread[t].alone \in BOOLEAN
       /\ StateType(thread[t].buf)
  /\ containers \subseteq 1 .. deployments
  /\ faults \subseteq Fault
  /\ trouble \in 0 .. MaxTrouble

Kept(kinds) == faults \cap kinds = {}

\* Whatever fails or crashes between the steps of save, state.json is a complete
\* state with distinct project names, whose active deployments are deployments of
\* their projects that were started, as long as no two operations that no lock
\* keeps apart changed the file at the same time.
StateSound ==
  Kept({"overlap"}) =>
    /\ ~ file.torn
    /\ \A p, q \in DOMAIN file.projects :
         p # q => file.projects[p].name # file.projects[q].name
    /\ \A p \in DOMAIN file.projects :
         LET d == file.projects[p].active IN
         d # 0 => /\ d \in DOMAIN file.deployments
                  /\ file.deployments[d].project = p
                  /\ file.deployments[d].status \in {"running", "stopped"}

\* Saving never loses a project or a deployment another operation saved, and a
\* deployment that is stopped or failed stays so, under the same condition.
RecordsKept ==
  [][Kept({"overlap"})' =>
       /\ DOMAIN file.projects \subseteq DOMAIN file'.projects
       /\ \A d \in DOMAIN file.deployments :
            /\ d \in DOMAIN file'.deployments
            /\ file.deployments[d].status \in Final =>
                 file'.deployments[d] = file.deployments[d]]_vars

\* A container that runs is one the state records as running, or one a deploy
\* in progress has just started: failures to build or to save leave none behind.
ContainersKnown ==
  Kept({"overlap", "crash", "stop", "discovery"}) =>
    \A d \in containers :
      \/ d \in DOMAIN file.deployments /\ file.deployments[d].status = "running"
      \/ \E t \in Thread : thread[t].at \in {"running", "unstart"} /\ d = thread[t].dep

\* When no deploy or stop is under way, the containers of a project are that of
\* its active deployment and no other, though builds may have failed.
ActiveServes ==
  Kept({"overlap", "crash", "disk", "stop", "discovery"})
    /\ (\A p \in Process : lock[p] = None) =>
    \A p \in DOMAIN file.projects :
      {d \in containers : file.deployments[d].project = p} = {file.projects[p].active} \ {0}
===========================================================================
