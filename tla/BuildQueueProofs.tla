-------------------------- MODULE BuildQueueProofs --------------------------
(* Theorems about BuildQueue, for every set of deployments, workers and    *)
(* API requests, any retry limit and any number of crashes.                *)
EXTENDS BuildQueue, FiniteSetTheorems, TLAPS

TypeInv == TypeOK /\ LocalsOK

-----------------------------------------------------------------------------
(* What the statements and moves that the actions share do to the types.   *)

\* The local states that operations start from are well typed.
LEMMA IdleTypes ==
  /\ IdleWorker \in WorkerState
  /\ IdleRequest \in RequestState
  /\ IdleReaper \in ReaperState
  BY ConstantsAssumption
     DEF IdleWorker, IdleRequest, IdleReaper, WorkerState, RequestState,
         ReaperState, WorkerPC, RequestPC, ReaperPC, Priority

\* Each SQL statement and Redis command keeps the types of what it writes.
LEMMA InsertJobType ==
  ASSUME TypeOK, NEW d \in Deployment, NEW p \in Priority, InsertJob(d, p)
  PROVE  job' \in [Deployment -> JobRow]
  BY ConstantsAssumption DEF TypeOK, InsertJob, JobRow, JobStatus

\* The statement that clears a lease.
LEMMA ReleaseJobType ==
  ASSUME TypeOK, NEW d \in Deployment, NEW s \in JobStatus, ReleaseJob(d, s)
  PROVE  job' \in [Deployment -> JobRow] /\ expired' \in [Deployment -> BOOLEAN]
  <1> DEFINE row == [job[d] EXCEPT !.status = s, !.owner = None]
  <1>1. job \in [Deployment -> JobRow] /\ expired \in [Deployment -> BOOLEAN]
    BY DEF TypeOK
  <1>2. job[d] \in JobRow  BY <1>1
  <1>3. row \in JobRow  BY <1>2 DEF JobRow
  <1>4. job' = [job EXCEPT ![d] = row]  BY Zenon DEF ReleaseJob
  <1> HIDE DEF row
  <1>5. job' \in [Deployment -> JobRow]  BY <1>1, <1>3, <1>4
  <1>6. expired' \in [Deployment -> BOOLEAN]
    BY <1>1, Zenon DEF ReleaseJob
  <1> QED  BY <1>5, <1>6

\* The statement that sets a deployment's status.
LEMMA SetDeploymentType ==
  ASSUME TypeOK, NEW d \in Deployment, NEW s \in DeploymentStatus,
         SetDeployment(d, s)
  PROVE  deployment' \in [Deployment -> DeploymentStatus]
  BY DEF TypeOK, SetDeployment

\* The statement that settles the running attempts of a worker.
LEMMA SettleAttemptsType ==
  ASSUME TypeOK, NEW d \in Deployment, NEW w \in Worker,
         NEW s \in {"succeeded", "failed"}, SettleAttempts(d, w, s)
  PROVE  attempts' \in [Deployment -> [1..MaxAttempts -> AttemptRow]]
  <1> DEFINE rows == [n \in 1..MaxAttempts |->
               IF attempts[d][n] = [status |-> "running", worker |-> w]
                 THEN [status |-> s, worker |-> w] ELSE attempts[d][n]]
  <1>1. attempts \in [Deployment -> [1..MaxAttempts -> AttemptRow]]
    BY DEF TypeOK
  <1>2. [status |-> s, worker |-> w] \in AttemptRow  BY DEF AttemptRow
  <1>3. rows \in [1..MaxAttempts -> AttemptRow]  BY <1>1, <1>2
  <1>4. attempts' = [attempts EXCEPT ![d] = rows]  BY DEF SettleAttempts
  <1> HIDE DEF rows
  <1> QED  BY <1>1, <1>3, <1>4

\* XADD.
LEMMA XAddType ==
  ASSUME TypeOK, NEW d \in Deployment, NEW p \in Priority, XAdd(p, d)
  PROVE  stream' \in [Priority -> Seq(Deployment)]
  BY DEF TypeOK, XAdd

\* The moves of requests and workers keep the types of local states.
LEMMA GotoReqType ==
  ASSUME TypeOK, NEW c \in Client, NEW pc \in RequestPC, GotoReq(c, pc)
  PROVE  req' \in [Client -> RequestState]
  BY DEF TypeOK, GotoReq, RequestState

\* A request that ends.
LEMMA EndReqType ==
  ASSUME TypeOK, NEW c \in Client, EndReq(c)
  PROVE  req' \in [Client -> RequestState]
  BY IdleTypes DEF TypeOK, EndReq

\* A worker that goes on.
LEMMA GotoType ==
  ASSUME TypeOK, NEW w \in Worker, NEW pc \in WorkerPC, Goto(w, pc)
  PROVE  wk' \in [Worker -> WorkerState]
  BY DEF TypeOK, Goto, WorkerState

\* A worker whose run ends.
LEMMA EndRunType ==
  ASSUME TypeOK, NEW w \in Worker, EndRun(w)
  PROVE  wk' \in [Worker -> WorkerState]
  BY IdleTypes DEF TypeOK, EndRun

\* A worker that goes on with its next stream.
LEMMA NextStreamType ==
  ASSUME TypeOK, NEW w \in Worker, wk[w].streams # <<>>, NextStream(w)
  PROVE  wk' \in [Worker -> WorkerState]
  <1>1. wk[w].streams \in Seq(Priority)  BY DEF TypeOK, WorkerState
  <1>2. Tail(wk[w].streams) \in Seq(Priority)  BY <1>1
  <1>3. [IdleWorker EXCEPT !.pc = "read", !.streams = Tail(wk[w].streams)]
           \in WorkerState
    BY <1>2, IdleTypes DEF WorkerState, WorkerPC
  <1> QED  BY <1>3, IdleTypes DEF TypeOK, NextStream

\* The locals of everybody else stay as they are.
LEMMA WorkerMoveLocals ==
  ASSUME LocalsOK, NEW w \in Worker,
         \A v \in Worker \ {w} :
           wk'[v] = wk[v] /\ prodClaims'[v] = prodClaims[v],
         UNCHANGED <<req, reaper>>, WorkerLocalsOK(w)'
  PROVE  LocalsOK'
  BY DEF LocalsOK, WorkerLocalsOK

\* The same for a step of a request.
LEMMA RequestMoveLocals ==
  ASSUME LocalsOK, NEW c \in Client,
         \A b \in Client \ {c} : req'[b] = req[b],
         UNCHANGED <<wk, prodClaims, reaper>>,
         req'[c].pc # "idle" => req'[c].job \in Deployment
  PROVE  LocalsOK'
  BY DEF LocalsOK, WorkerLocalsOK

\* Going on inside the same request or the same run keeps its locals.
LEMMA GotoReqLocals ==
  ASSUME TypeInv, NEW c \in Client, NEW pc \in RequestPC, req[c].pc # "idle",
         GotoReq(c, pc), UNCHANGED <<wk, prodClaims, reaper>>
  PROVE  LocalsOK'
  <1>1. req'[c].job = req[c].job /\ \A b \in Client \ {c} : req'[b] = req[b]
    BY DEF TypeInv, TypeOK, GotoReq, RequestState
  <1> QED  BY <1>1, RequestMoveLocals DEF TypeInv, LocalsOK

\* A request that ended holds no locals.
LEMMA EndReqLocals ==
  ASSUME TypeInv, NEW c \in Client,
         EndReq(c), UNCHANGED <<wk, prodClaims, reaper>>
  PROVE  LocalsOK'
  <1>1. req'[c].pc = "idle" /\ \A b \in Client \ {c} : req'[b] = req[b]
    BY DEF TypeInv, TypeOK, EndReq, IdleRequest
  <1> QED  BY <1>1, RequestMoveLocals DEF TypeInv

\* A worker that goes on keeps what its locals hold.
LEMMA GotoLocals ==
  ASSUME TypeInv, NEW w \in Worker, NEW pc \in WorkerPC,
         Goto(w, pc), UNCHANGED <<prodClaims, req, reaper>>,
         \/ wk[w].pc = "record" /\ pc = "mark"
         \/ /\ wk[w].pc \notin {"idle", "read", "lease"}
            /\ pc \notin {"read", "lease", "record", "mark"}
  PROVE  LocalsOK'
  <1>1. /\ wk'[w].pc = pc /\ wk'[w].job = wk[w].job
        /\ wk'[w].streams = wk[w].streams /\ wk'[w].attempt = wk[w].attempt
        /\ \A v \in Worker \ {w} : wk'[v] = wk[v]
    BY DEF TypeInv, TypeOK, Goto, WorkerState
  <1>2. WorkerLocalsOK(w)'
    BY <1>1 DEF TypeInv, LocalsOK, WorkerLocalsOK
  <1> QED  BY <1>1, <1>2, WorkerMoveLocals DEF TypeInv

\* A worker whose run ended holds no locals.
LEMMA EndRunLocals ==
  ASSUME TypeInv, NEW w \in Worker, EndRun(w), UNCHANGED <<req, reaper>>,
         \A v \in Worker \ {w} : prodClaims'[v] = prodClaims[v]
  PROVE  LocalsOK'
  <1>1. wk'[w].pc = "idle" /\ \A v \in Worker \ {w} : wk'[v] = wk[v]
    BY DEF TypeInv, TypeOK, EndRun, IdleWorker
  <1>2. WorkerLocalsOK(w)'  BY <1>1 DEF WorkerLocalsOK
  <1> QED  BY <1>1, <1>2, WorkerMoveLocals DEF TypeInv

\* A worker that leaves a stream holds only the streams left to try.
LEMMA NextStreamLocals ==
  ASSUME TypeInv, NEW w \in Worker, wk[w].pc \in {"read", "lease"},
         NextStream(w), UNCHANGED <<prodClaims, req, reaper>>
  PROVE  LocalsOK'
  <1>1. \A v \in Worker \ {w} : wk'[v] = wk[v]
    BY DEF TypeInv, TypeOK, NextStream
  <1>2. \/ wk'[w] = IdleWorker
        \/ /\ wk'[w].pc = "read" /\ wk'[w].streams # <<>>
    BY DEF TypeInv, TypeOK, NextStream, IdleWorker
  <1>3. prodClaims[w] < 3  BY DEF TypeInv, LocalsOK, WorkerLocalsOK
  <1>4. WorkerLocalsOK(w)'
    BY <1>2, <1>3 DEF WorkerLocalsOK, IdleWorker
  <1> QED  BY <1>1, <1>4, WorkerMoveLocals DEF TypeInv

-----------------------------------------------------------------------------
(* Type correctness                                                        *)

\* The first step: the initial state is well typed.
LEMMA InitTypeInv == Init => TypeInv
  BY ConstantsAssumption, IdleTypes
     DEF Init, TypeInv, TypeOK, LocalsOK, WorkerLocalsOK, IdleWorker,
         IdleRequest, IdleReaper, NoRow, Priority, JobStatus,
         DeploymentStatus, JobRow, AttemptRow

\* The statements of enqueue, cancel and cancel_deployment.
LEMMA RequestTypeInv ==
  ASSUME TypeInv, NEW c \in Client, RequestStep(c)
  PROVE  TypeInv'
  <1> DEFINE d == req[c].job
  <1>0. /\ d \in Deployment /\ req[c].priority \in Priority
        /\ req[c].pc # "idle"
    BY DEF RequestStep, EnqueueInsert, EnqueuePublish, EnqueueMark, CancelJob,
           CancelMark, CancelFinish, TypeInv, LocalsOK, TypeOK, RequestState
  <1>1. CASE EnqueueInsert(c)
    <2>1. job' \in [Deployment -> JobRow]
      BY <1>0, <1>1, InsertJobType DEF EnqueueInsert, TypeInv, TypeOK
    <2>2. req' \in [Client -> RequestState]
      BY <1>1, GotoReqType, EndReqType DEF EnqueueInsert, RequestPC, TypeInv
    <2>3. LocalsOK'
      BY <1>0, <1>1, GotoReqLocals, EndReqLocals DEF EnqueueInsert, RequestPC
    <2> QED  BY <1>1, <2>1, <2>2, <2>3
                DEF EnqueueInsert, TypeInv, TypeOK, history
  <1>2. CASE EnqueuePublish(c)
    <2>1. stream' \in [Priority -> Seq(Deployment)]
      BY <1>0, <1>2, XAddType DEF EnqueuePublish, TypeInv
    <2>2. req' \in [Client -> RequestState] /\ LocalsOK'
      BY <1>0, <1>2, GotoReqType, GotoReqLocals
         DEF EnqueuePublish, RequestPC, TypeInv
    <2> QED  BY <1>2, <2>1, <2>2
                DEF EnqueuePublish, TypeInv, TypeOK, history, db
  <1>3. CASE EnqueueMark(c)
    <2>1. deployment' \in [Deployment -> DeploymentStatus]
      BY <1>0, <1>3, SetDeploymentType
         DEF EnqueueMark, TypeInv, DeploymentStatus
    <2>2. req' \in [Client -> RequestState] /\ LocalsOK'
      BY <1>0, <1>3, EndReqType, EndReqLocals DEF EnqueueMark, TypeInv
    <2> QED  BY <1>3, <2>1, <2>2 DEF EnqueueMark, TypeInv, TypeOK, history
  <1>4. CASE CancelJob(c)
    <2>1. job' \in [Deployment -> JobRow] /\ expired' \in [Deployment -> BOOLEAN]
      BY <1>0, <1>4, ReleaseJobType
         DEF CancelJob, NoRowMatched, TypeInv, TypeOK, JobStatus
    <2>2. req' \in [Client -> RequestState] /\ LocalsOK'
      BY <1>0, <1>4, GotoReqType, GotoReqLocals
         DEF CancelJob, RequestPC, TypeInv
    <2> QED  BY <1>4, <2>1, <2>2 DEF CancelJob, TypeInv, TypeOK, history
  <1>5. CASE CancelMark(c)
    <2>1. deployment' \in [Deployment -> DeploymentStatus]
      BY <1>0, <1>5, SetDeploymentType
         DEF CancelMark, TypeInv, DeploymentStatus
    <2>2. req' \in [Client -> RequestState] /\ LocalsOK'
      BY <1>0, <1>5, GotoReqType, GotoReqLocals
         DEF CancelMark, RequestPC, TypeInv
    <2> QED  BY <1>5, <2>1, <2>2 DEF CancelMark, TypeInv, TypeOK, history
  <1>6. CASE CancelFinish(c)
    <2>1. deployment' \in [Deployment -> DeploymentStatus]
      BY <1>0, <1>6, SetDeploymentType
         DEF CancelFinish, TypeInv, DeploymentStatus
    <2>2. req' \in [Client -> RequestState] /\ LocalsOK'
      BY <1>0, <1>6, EndReqType, EndReqLocals DEF CancelFinish, TypeInv
    <2> QED  BY <1>6, <2>1, <2>2 DEF CancelFinish, TypeInv, TypeOK, history
  <1> QED  BY <1>1, <1>2, <1>3, <1>4, <1>5, <1>6 DEF RequestStep

\* A request that arrives.
LEMMA NewRequestTypeInv ==
  ASSUME TypeInv, NEW c \in Client, NEW d \in Deployment, NewRequest(c, d)
  PROVE  TypeInv'
  <1>1. ASSUME NEW p \in Priority, NEW pc \in RequestPC,
               StartRequest(c, d, p, pc), UNCHANGED <<wk, prodClaims, reaper>>
        PROVE  req' \in [Client -> RequestState] /\ LocalsOK'
    <2>1. req' \in [Client -> RequestState]
      BY <1>1 DEF StartRequest, TypeInv, TypeOK, RequestState
    <2>2. req'[c].job = d /\ \A b \in Client \ {c} : req'[b] = req[b]
      BY <1>1 DEF StartRequest, TypeInv, TypeOK
    <2> QED  BY <1>1, <2>1, <2>2, RequestMoveLocals DEF TypeInv
  <1>2. "queued" \in DeploymentStatus /\ "production" \in Priority
        /\ "insertJob" \in RequestPC /\ "cancelJob" \in RequestPC
    BY DEF DeploymentStatus, Priority, RequestPC
  <1>3. ASSUME NEW p \in Priority, CreateDeployment(c, d, p) PROVE TypeInv'
    <2>1. deployment' \in [Deployment -> DeploymentStatus]
      BY <1>2, <1>3, SetDeploymentType DEF CreateDeployment, TypeInv
    <2> QED  BY <1>1, <1>2, <1>3, <2>1
                DEF CreateDeployment, TypeInv, TypeOK, history
  <1>4. CASE RetryDeployment(c, d)
    <2>1. deployment' \in [Deployment -> DeploymentStatus]
      BY <1>2, <1>4, SetDeploymentType DEF RetryDeployment, TypeInv
    <2> QED  BY <1>1, <1>2, <1>4, <2>1
                DEF RetryDeployment, TypeInv, TypeOK, history
  <1>5. CASE CancelDeployment(c, d)
    BY <1>1, <1>2, <1>5 DEF CancelDeployment, TypeInv, TypeOK, history, db
  <1> QED  BY <1>3, <1>4, <1>5 DEF NewRequest

\* BuildQueue::claim
LEMMA ClaimTypeInv ==
  ASSUME TypeInv, NEW w \in Worker,
         \/ ClaimBegin(w) \/ ClaimRead(w) \/ ClaimLease(w) \/ ClaimRecord(w)
         \/ ClaimMark(w)
  PROVE  TypeInv'
  <1> DEFINE d == wk[w].job
  <1>0. /\ wk \in [Worker -> WorkerState] /\ prodClaims \in [Worker -> 0..3]
        /\ wk[w] \in WorkerState /\ WorkerLocalsOK(w)
    BY DEF TypeInv, TypeOK, LocalsOK
  <1>1. CASE ClaimBegin(w)
    <2> DEFINE order == IF prodClaims[w] >= 3
                          THEN <<"preview", "production">>
                          ELSE <<"production", "preview">>
    <2>c. /\ <<"preview", "production">> \in Seq(Priority)
          /\ <<"production", "preview">> \in Seq(Priority)
      BY DEF Priority
    <2>d. /\ <<"preview", "production">> # <<>>
          /\ <<"production", "preview">> # <<>>
      OBVIOUS
    <2>0. order \in Seq(Priority) /\ order # <<>> /\ "read" \in WorkerPC
      BY <2>c, <2>d DEF WorkerPC
    <2> HIDE DEF order
    <2>a. wk' = [wk EXCEPT ![w].pc = "read", ![w].streams = order]
      BY <1>1 DEF ClaimBegin, order
    <2>1. wk' \in [Worker -> WorkerState]
      BY <1>0, <2>0, <2>a DEF WorkerState
    <2>2. prodClaims' \in [Worker -> 0..3]  BY <1>0, <1>1 DEF ClaimBegin
    <2>b. /\ wk'[w].pc = "read" /\ wk'[w].streams # <<>>
          /\ \A v \in Worker \ {w} : wk'[v] = wk[v]
      BY <1>0, <2>0, <2>a DEF WorkerState
    <2>3. /\ prodClaims'[w] < 3
          /\ \A v \in Worker \ {w} : prodClaims'[v] = prodClaims[v]
      BY <1>0, <1>1 DEF ClaimBegin
    <2>4. WorkerLocalsOK(w)'  BY <2>b, <2>3 DEF WorkerLocalsOK
    <2>5. LocalsOK'
      BY <1>1, <2>b, <2>3, <2>4, WorkerMoveLocals DEF ClaimBegin, TypeInv
    <2> QED  BY <1>1, <2>1, <2>2, <2>5
                DEF ClaimBegin, TypeInv, TypeOK, db, history
  <1>2. CASE ClaimRead(w)
    <2> DEFINE s == Head(wk[w].streams)
    <2>1. s \in Priority /\ stream[s] \in Seq(Deployment)
      BY <1>0, <1>2 DEF ClaimRead, WorkerLocalsOK, WorkerState, TypeInv, TypeOK
    <2>2. CASE /\ stream[s] # <<>>
               /\ wk' = [wk EXCEPT ![w].pc = "lease",
                                   ![w].job = Head(stream[s])]
               /\ stream' = [stream EXCEPT ![s] = Tail(@)]
      <3>1. stream' \in [Priority -> Seq(Deployment)]
        BY <2>1, <2>2 DEF TypeInv, TypeOK
      <3>2. Head(stream[s]) \in Deployment  BY <2>1, <2>2
      <3>3. wk' \in [Worker -> WorkerState]
        BY <1>0, <2>2, <3>2 DEF WorkerState, WorkerPC
      <3>4. /\ wk'[w].pc = "lease" /\ wk'[w].job \in Deployment
            /\ wk'[w].streams = wk[w].streams
            /\ \A v \in Worker \ {w} : wk'[v] = wk[v]
        BY <1>0, <2>2, <3>2 DEF WorkerState
      <3>5. WorkerLocalsOK(w)'
        BY <1>0, <1>2, <3>4 DEF ClaimRead, WorkerLocalsOK
      <3>6. LocalsOK'
        BY <1>2, <3>4, <3>5, WorkerMoveLocals DEF ClaimRead, TypeInv
      <3> QED  BY <1>2, <3>1, <3>3, <3>6
                  DEF ClaimRead, TypeInv, TypeOK, db, history
    <2>3. CASE stream[s] = <<>> /\ NextStream(w) /\ UNCHANGED stream
      <3>1. wk' \in [Worker -> WorkerState]
        BY <1>0, <1>2, <2>3, NextStreamType
           DEF ClaimRead, TypeInv, WorkerLocalsOK
      <3>2. LocalsOK'  BY <1>2, <2>3, NextStreamLocals DEF ClaimRead
      <3> QED  BY <1>2, <2>3, <3>1, <3>2
                  DEF ClaimRead, TypeInv, TypeOK, db, history
    <2> QED  BY <1>2, <2>2, <2>3 DEF ClaimRead
  <1>3. CASE ClaimLease(w)
    <2>1. d \in Deployment  BY <1>0, <1>3 DEF ClaimLease, WorkerLocalsOK
    <2>2. job[d] \in JobRow  BY <2>1 DEF TypeInv, TypeOK
    <2>3. CASE /\ Claimable(d)
               /\ job' = [job EXCEPT ![d].status = "running", ![d].owner = w,
                                     ![d].attempt = @ + 1]
               /\ expired' = [expired EXCEPT ![d] = FALSE]
               /\ wk' = [wk EXCEPT ![w].pc = "record",
                                   ![w].attempt = job[d].attempt + 1]
      <3>1. job[d].attempt + 1 \in 1..MaxAttempts
        BY <2>2, <2>3, ConstantsAssumption DEF Claimable, JobRow
      <3>a. job[d].attempt + 1 \in 0..MaxAttempts /\ "running" \in JobStatus
            /\ "record" \in WorkerPC
        BY <3>1, ConstantsAssumption DEF JobStatus, WorkerPC
      <3> DEFINE row == [job[d] EXCEPT !.status = "running", !.owner = w,
                                       !.attempt = job[d].attempt + 1]
      <3>b. row \in JobRow  BY <2>2, <3>a DEF JobRow
      <3>c. job' = [job EXCEPT ![d] = row]
        BY <2>1, <2>2, <2>3 DEF TypeInv, TypeOK, JobRow
      <3> HIDE DEF row
      <3>2. job' \in [Deployment -> JobRow]
        BY <2>1, <3>b, <3>c DEF TypeInv, TypeOK
      <3>3. expired' \in [Deployment -> BOOLEAN]
        BY <2>3 DEF TypeInv, TypeOK
      <3>4. wk' \in [Worker -> WorkerState]
        BY <1>0, <2>3, <3>a DEF WorkerState
      <3>5. /\ wk'[w].pc = "record" /\ wk'[w].job = d
            /\ wk'[w].streams = wk[w].streams
            /\ wk'[w].attempt = job[d].attempt + 1
            /\ \A v \in Worker \ {w} : wk'[v] = wk[v]
        BY <1>0, <2>3 DEF WorkerState
      <3>6. WorkerLocalsOK(w)'
        BY <1>0, <1>3, <2>1, <3>1, <3>5 DEF ClaimLease, WorkerLocalsOK
      <3>7. LocalsOK'
        BY <1>3, <3>5, <3>6, WorkerMoveLocals DEF ClaimLease, TypeInv
      <3> QED  BY <1>3, <3>2, <3>3, <3>4, <3>7
                  DEF ClaimLease, TypeInv, TypeOK, history
    <2>4. CASE ~Claimable(d) /\ NoRowMatched /\ NextStream(w)
      <3>1. wk' \in [Worker -> WorkerState]
        BY <1>0, <1>3, <2>4, NextStreamType
           DEF ClaimLease, TypeInv, WorkerLocalsOK
      <3>2. LocalsOK'  BY <1>3, <2>4, NextStreamLocals DEF ClaimLease
      <3> QED  BY <1>3, <2>4, <3>1, <3>2
                  DEF ClaimLease, NoRowMatched, TypeInv, TypeOK, history
    <2> QED  BY <1>3, <2>3, <2>4 DEF ClaimLease, LeaseJob
  <1>4. CASE ClaimRecord(w)
    <2>1. d \in Deployment /\ wk[w].attempt \in 1..MaxAttempts
      BY <1>0, <1>4 DEF ClaimRecord, WorkerLocalsOK
    <2>2. attempts' \in [Deployment -> [1..MaxAttempts -> AttemptRow]]
      <3> DEFINE n == wk[w].attempt
                 row == IF attempts[d][n] = NoRow
                          THEN [status |-> "running", worker |-> w]
                          ELSE attempts[d][n]
      <3>1. attempts[d] \in [1..MaxAttempts -> AttemptRow]
        BY <2>1 DEF TypeInv, TypeOK
      <3>2. row \in AttemptRow  BY <2>1, <3>1 DEF AttemptRow
      <3>3. attempts' = [attempts EXCEPT ![d] = [@ EXCEPT ![n] = row]]
        BY <1>4, <2>1, <3>1 DEF ClaimRecord, TypeInv, TypeOK
      <3> HIDE DEF row
      <3> QED  BY <2>1, <3>1, <3>2, <3>3 DEF TypeInv, TypeOK
    <2>3. wk' \in [Worker -> WorkerState] /\ LocalsOK'
      BY <1>4, GotoType, GotoLocals DEF ClaimRecord, TypeInv, WorkerPC
    <2> QED  BY <1>4, <2>2, <2>3 DEF ClaimRecord, TypeInv, TypeOK, history
  <1>5. CASE ClaimMark(w)
    <2>1. d \in Deployment /\ prodClaims[w] < 3
      BY <1>0, <1>5 DEF ClaimMark, WorkerLocalsOK
    <2>2. deployment' \in [Deployment -> DeploymentStatus]
      BY <1>5, <2>1, SetDeploymentType
         DEF ClaimMark, TypeInv, DeploymentStatus
    <2>3. prodClaims' \in [Worker -> 0..3]  BY <1>0, <1>5, <2>1 DEF ClaimMark
    <2>4. wk' \in [Worker -> WorkerState]
      BY <1>5, GotoType DEF ClaimMark, TypeInv, WorkerPC
    <2>5. /\ wk'[w].pc = "check" /\ wk'[w].job = d
          /\ wk'[w].streams = wk[w].streams /\ wk'[w].attempt = wk[w].attempt
          /\ \A v \in Worker \ {w} :
               wk'[v] = wk[v] /\ prodClaims'[v] = prodClaims[v]
      BY <1>0, <1>5 DEF ClaimMark, Goto, WorkerState
    <2>6. WorkerLocalsOK(w)'
      BY <1>0, <1>5, <2>5 DEF ClaimMark, WorkerLocalsOK
    <2>7. LocalsOK'
      BY <1>5, <2>5, <2>6, WorkerMoveLocals DEF ClaimMark, TypeInv
    <2> QED  BY <1>5, <2>2, <2>3, <2>4, <2>7
                DEF ClaimMark, TypeInv, TypeOK, history
  <1> QED  BY <1>1, <1>2, <1>3, <1>4, <1>5

\* BuildWorker::run_once from a claim to the end of the pipeline
LEMMA RunTypeInv ==
  ASSUME TypeInv, NEW w \in Worker,
         \/ RunCheck(w) \/ RunWorkspace(w) \/ RunPipeline(w)
         \/ RunSucceeded(w) \/ RunFatal(w) \/ Renew(w)
  PROVE  TypeInv'
  <1> DEFINE d == wk[w].job
  <1>0. /\ wk \in [Worker -> WorkerState] /\ wk[w] \in WorkerState
        /\ d \in Deployment /\ wk[w].attempt \in 1..MaxAttempts
        /\ WorkerLocalsOK(w)
    BY DEF TypeInv, TypeOK, LocalsOK, WorkerLocalsOK, RunCheck, RunWorkspace,
           RunPipeline, RunSucceeded, RunFatal, Renew
  <1>1. ASSUME NEW pc \in {"fatal", "failRead"}, NEW r \in BOOLEAN,
               wk[w].pc \in {"workspace", "building"},
               wk' = [wk EXCEPT ![w].pc = pc, ![w].retryable = r],
               UNCHANGED <<prodClaims, req, reaper>>
        PROVE  wk' \in [Worker -> WorkerState] /\ LocalsOK'
    <2>1. wk' \in [Worker -> WorkerState]
      BY <1>0, <1>1 DEF WorkerState, WorkerPC
    <2>2. /\ wk'[w].pc = pc /\ wk'[w].job = d
          /\ wk'[w].streams = wk[w].streams /\ wk'[w].attempt = wk[w].attempt
          /\ \A v \in Worker \ {w} : wk'[v] = wk[v]
      BY <1>0, <1>1 DEF WorkerState
    <2>3. WorkerLocalsOK(w)'  BY <1>0, <1>1, <2>2 DEF WorkerLocalsOK
    <2> QED  BY <1>1, <2>1, <2>2, <2>3, WorkerMoveLocals DEF TypeInv
  <1>2. CASE RunCheck(w)
    <2>1. attempts' \in [Deployment -> [1..MaxAttempts -> AttemptRow]]
      <3> DEFINE row == [status |-> "running", worker |-> w]
      <3>1. attempts[d] \in [1..MaxAttempts -> AttemptRow]
        BY <1>0 DEF TypeInv, TypeOK
      <3>2. row \in AttemptRow  BY DEF AttemptRow
      <3>3. \/ attempts' = attempts
            \/ attempts' = [attempts EXCEPT ![d] =
                              [@ EXCEPT ![wk[w].attempt] = row]]
        BY <1>0, <1>2, <3>1 DEF RunCheck, TypeInv, TypeOK
      <3> HIDE DEF row
      <3>4. [attempts[d] EXCEPT ![wk[w].attempt] = row]
               \in [1..MaxAttempts -> AttemptRow]
        BY <3>1, <3>2
      <3> QED  BY <1>0, <3>3, <3>4 DEF TypeInv, TypeOK
    <2>2. wk' \in [Worker -> WorkerState] /\ LocalsOK'
      BY <1>2, GotoType, GotoLocals DEF RunCheck, TypeInv, WorkerPC
    <2> QED  BY <1>2, <2>1, <2>2 DEF RunCheck, TypeInv, TypeOK, history
  <1>3. CASE RunWorkspace(w)
    <2>1. builds' \in [Deployment -> Nat]
      BY <1>0, <1>3 DEF RunWorkspace, TypeInv, TypeOK
    <2>2. wk' \in [Worker -> WorkerState] /\ LocalsOK'
      <3>1. CASE Goto(w, "building")
        BY <1>3, <3>1, GotoType, GotoLocals
           DEF RunWorkspace, TypeInv, WorkerPC
      <3>2. CASE wk' = [wk EXCEPT ![w].pc = "failRead", ![w].retryable = TRUE]
        BY <1>1, <1>3, <3>2 DEF RunWorkspace
      <3> QED  BY <1>3, <3>1, <3>2 DEF RunWorkspace
    <2> QED  BY <1>3, <2>1, <2>2 DEF RunWorkspace, TypeInv, TypeOK, db
  <1>4. CASE RunPipeline(w)
    <2>1. wk' \in [Worker -> WorkerState] /\ LocalsOK'
      <3>1. CASE Goto(w, "succeeded")
        BY <1>4, <3>1, GotoType, GotoLocals DEF RunPipeline, TypeInv, WorkerPC
      <3>2. CASE wk' = [wk EXCEPT ![w].pc = "fatal", ![w].retryable = FALSE]
        BY <1>1, <1>4, <3>2 DEF RunPipeline
      <3>3. CASE wk' = [wk EXCEPT ![w].pc = "failRead", ![w].retryable = TRUE]
        BY <1>1, <1>4, <3>3 DEF RunPipeline
      <3> QED
        BY <1>4, <3>1, <3>2, <3>3 DEF RunPipeline, PipelineError, Retryable
    <2> QED  BY <1>4, <2>1 DEF RunPipeline, TypeInv, TypeOK, db, history
  <1>5. CASE RunSucceeded(w)
    <2>1. deployment' \in [Deployment -> DeploymentStatus]
      BY <1>0, <1>5, SetDeploymentType
         DEF RunSucceeded, TypeInv, DeploymentStatus
    <2>2. wk' \in [Worker -> WorkerState] /\ LocalsOK'
      BY <1>5, GotoType, GotoLocals DEF RunSucceeded, TypeInv, WorkerPC
    <2> QED  BY <1>5, <2>1, <2>2 DEF RunSucceeded, TypeInv, TypeOK, history
  <1>6. CASE RunFatal(w)
    <2>1. deployment' \in [Deployment -> DeploymentStatus]
      BY <1>0, <1>6, SetDeploymentType DEF RunFatal, TypeInv, DeploymentStatus
    <2>2. wk' \in [Worker -> WorkerState] /\ LocalsOK'
      BY <1>6, GotoType, GotoLocals DEF RunFatal, TypeInv, WorkerPC
    <2> QED  BY <1>6, <2>1, <2>2 DEF RunFatal, TypeInv, TypeOK, history
  <1>7. CASE Renew(w)
    BY <1>0, <1>7
       DEF Renew, TypeInv, TypeOK, LocalsOK, WorkerLocalsOK, history
  <1> QED  BY <1>2, <1>3, <1>4, <1>5, <1>6, <1>7

\* BuildQueue::ack and BuildQueue::fail
LEMMA SettleTypeInv ==
  ASSUME TypeInv, NEW w \in Worker,
         \/ AckJob(w) \/ AckAttempt(w) \/ FailRead(w) \/ FailRequeue(w)
         \/ FailBury(w) \/ FailSettle(w) \/ FailRepublish(w)
         \/ FailBuryMark(w)
  PROVE  TypeInv'
  <1> DEFINE d == wk[w].job
             PC == {"ack", "ackAttempt", "failRead", "requeue", "requeued",
                    "republish", "bury", "buried", "buryMark"}
  <1>0. d \in Deployment /\ Head(wk[w].streams) \in Priority /\ wk[w].pc \in PC
    <2>1. wk[w].pc \in PC
      BY DEF AckJob, AckAttempt, FailRead, FailRequeue, FailSettle,
             FailRepublish, FailBury, FailBuryMark
    <2>2. wk[w].streams \in Seq(Priority) /\ WorkerLocalsOK(w)
      BY DEF TypeInv, TypeOK, LocalsOK, WorkerState
    <2>3. d \in Deployment /\ wk[w].streams # <<>>
      BY <2>1, <2>2 DEF WorkerLocalsOK
    <2> QED  BY <2>1, <2>2, <2>3
  <1>1. ASSUME NEW s \in {"completed", "queued", "failed"},
               ReleaseJob(d, s) \/ NoRowMatched
        PROVE  /\ job' \in [Deployment -> JobRow]
               /\ expired' \in [Deployment -> BOOLEAN]
    <2>1. s \in JobStatus  BY <1>1 DEF JobStatus
    <2> QED  BY <1>0, <1>1, <2>1, ReleaseJobType
                DEF NoRowMatched, TypeInv, TypeOK
  <1>2. ASSUME NEW pc \in PC, Goto(w, pc),
               UNCHANGED <<prodClaims, req, reaper>>
        PROVE  wk' \in [Worker -> WorkerState] /\ LocalsOK'
    <2>1. pc \in WorkerPC  BY <1>2 DEF WorkerPC
    <2> QED  BY <1>0, <1>2, <2>1, GotoType, GotoLocals DEF TypeInv
  <1>3. ASSUME EndRun(w), UNCHANGED <<prodClaims, req, reaper>>
        PROVE  wk' \in [Worker -> WorkerState] /\ LocalsOK'
    BY <1>3, EndRunType, EndRunLocals DEF TypeInv
  <1>4. CASE AckJob(w)
    BY <1>1, <1>2, <1>4 DEF AckJob, TypeInv, TypeOK, history
  <1>5. CASE AckAttempt(w)
    <2>1. attempts' \in [Deployment -> [1..MaxAttempts -> AttemptRow]]
      BY <1>0, <1>5, SettleAttemptsType DEF AckAttempt, TypeInv
    <2> QED  BY <1>3, <1>5, <2>1 DEF AckAttempt, TypeInv, TypeOK, history
  <1>6. CASE FailRead(w)
    BY <1>2, <1>6 DEF FailRead, TypeInv, TypeOK, history, db
  <1>7. CASE FailRequeue(w)
    BY <1>1, <1>2, <1>7 DEF FailRequeue, TypeInv, TypeOK, history
  <1>8. CASE FailBury(w)
    BY <1>1, <1>2, <1>8 DEF FailBury, TypeInv, TypeOK, history
  <1>9. CASE FailSettle(w)
    <2>1. attempts' \in [Deployment -> [1..MaxAttempts -> AttemptRow]]
      BY <1>0, <1>9, SettleAttemptsType DEF FailSettle, TypeInv
    <2> QED  BY <1>2, <1>9, <2>1 DEF FailSettle, TypeInv, TypeOK, history
  <1>10. CASE FailRepublish(w)
    <2>1. stream' \in [Priority -> Seq(Deployment)]
      BY <1>0, <1>10, XAddType DEF FailRepublish, TypeInv
    <2> QED  BY <1>3, <1>10, <2>1
                DEF FailRepublish, TypeInv, TypeOK, history, db
  <1>11. CASE FailBuryMark(w)
    <2>1. deployment' \in [Deployment -> DeploymentStatus]
      BY <1>0, <1>11, SetDeploymentType
         DEF FailBuryMark, TypeInv, DeploymentStatus
    <2> QED  BY <1>3, <1>11, <2>1
                DEF FailBuryMark, TypeInv, TypeOK, history
  <1> QED  BY <1>4, <1>5, <1>6, <1>7, <1>8, <1>9, <1>10, <1>11

\* BuildQueue::requeue_expired
LEMMA ReaperTypeInv ==
  ASSUME TypeInv, ReaperStep
  PROVE  TypeInv'
  <1>0. /\ reaper \in ReaperState
        /\ reaper.rows \in SUBSET [id : Deployment, attempt : 0..MaxAttempts]
        /\ reaper.pc \in {"publish", "bury"} => reaper.job \in Deployment
    BY DEF TypeInv, TypeOK, LocalsOK, ReaperState
  <1>1. ASSUME reaper' \in ReaperState, UNCHANGED <<wk, req, prodClaims>>,
               reaper'.pc \in {"publish", "bury"} => reaper'.job \in Deployment
        PROVE  LocalsOK'
    BY <1>1 DEF TypeInv, LocalsOK, WorkerLocalsOK
  <1>2. CASE ReapScan
    <2> DEFINE rows == {[id |-> d, attempt |-> job[d].attempt] :
                 d \in {e \in Deployment :
                          job[e].status = "running" /\ expired[e]}}
    <2>1. \A d \in Deployment : job[d].attempt \in 0..MaxAttempts
      BY DEF TypeInv, TypeOK, JobRow
    <2>2. rows \in SUBSET [id : Deployment, attempt : 0..MaxAttempts]
      BY <2>1
    <2>3. reaper' = [pc |-> "scan", rows |-> rows, job |-> None]
      BY <1>2 DEF ReapScan, IdleReaper
    <2> HIDE DEF rows
    <2>4. reaper' \in ReaperState /\ reaper'.pc = "scan"
      BY <2>2, <2>3 DEF ReaperState, ReaperPC
    <2> QED  BY <1>1, <1>2, <2>4
                DEF ReapScan, TypeInv, TypeOK, db, history
  <1>3. ASSUME NEW r \in reaper.rows, ReapRow(r)
        PROVE  TypeInv'
    <2> DEFINE retry == r.attempt < MaxAttempts
               s == IF retry THEN "queued" ELSE "failed"
               pc == IF retry THEN "publish" ELSE "bury"
    <2>1. r.id \in Deployment /\ s \in JobStatus /\ pc \in {"publish", "bury"}
      BY <1>0, <1>3 DEF JobStatus
    <2>2. /\ ReleaseJob(r.id, s) \/ NoRowMatched
          /\ reaper' = [pc |-> pc, rows |-> reaper.rows \ {r}, job |-> r.id]
      BY <1>3 DEF ReapRow
    <2> HIDE DEF s, pc
    <2>3. job' \in [Deployment -> JobRow] /\ expired' \in [Deployment -> BOOLEAN]
      BY <2>1, <2>2, ReleaseJobType DEF NoRowMatched, TypeInv, TypeOK
    <2>4. reaper' \in ReaperState /\ reaper'.job \in Deployment
      BY <1>0, <2>1, <2>2 DEF ReaperState, ReaperPC
    <2> QED  BY <1>1, <1>3, <2>3, <2>4 DEF ReapRow, TypeInv, TypeOK, history
  <1>4. ASSUME NextRow
        PROVE  reaper' \in ReaperState /\ reaper'.pc \in {"idle", "scan"}
    BY <1>0, <1>4 DEF NextRow, ReaperState, ReaperPC
  <1>5. CASE ReapPublish
    <2>1. job[reaper.job].priority \in Priority
      BY <1>0, <1>5 DEF ReapPublish, TypeInv, TypeOK, JobRow
    <2>2. stream' \in [Priority -> Seq(Deployment)]
      BY <1>0, <1>5, <2>1, XAddType DEF ReapPublish, TypeInv
    <2> QED  BY <1>1, <1>4, <1>5, <2>2
                DEF ReapPublish, TypeInv, TypeOK, db, history
  <1>6. CASE ReapBury
    <2>1. deployment' \in [Deployment -> DeploymentStatus]
      BY <1>0, <1>6, SetDeploymentType DEF ReapBury, TypeInv, DeploymentStatus
    <2> QED  BY <1>1, <1>4, <1>6, <2>1 DEF ReapBury, TypeInv, TypeOK, history
  <1> QED  BY <1>2, <1>3, <1>5, <1>6 DEF ReaperStep

\* An operation that is interrupted.
LEMMA CrashTypeInv ==
  ASSUME TypeInv,
         \/ \E w \in Worker : WorkerCrash(w)
         \/ \E c \in Client : RequestCrash(c)
         \/ ReaperCrash
  PROVE  TypeInv'
  <1>1. ASSUME NEW k, Crash(k) PROVE crashes' \in 0..MaxCrashes
    BY <1>1, ConstantsAssumption DEF Crash, TypeInv, TypeOK
  <1>2. ASSUME NEW w \in Worker, WorkerCrash(w) PROVE TypeInv'
    <2>1. /\ prodClaims' \in [Worker -> 0..3]
          /\ \A v \in Worker \ {w} : prodClaims'[v] = prodClaims[v]
      <3>1. prodClaims \in [Worker -> 0..3]  BY DEF TypeInv, TypeOK
      <3>2. \/ prodClaims' = [prodClaims EXCEPT ![w] = 0]
            \/ prodClaims' = prodClaims
        BY <1>2 DEF WorkerCrash
      <3> QED  BY <3>1, <3>2
    <2>2. wk' \in [Worker -> WorkerState] /\ LocalsOK'
      BY <1>2, <2>1, EndRunType, EndRunLocals DEF WorkerCrash, TypeInv
    <2> QED  BY <1>1, <1>2, <2>1, <2>2 DEF WorkerCrash, TypeInv, TypeOK, db
  <1>3. ASSUME NEW c \in Client, RequestCrash(c) PROVE TypeInv'
    <2>1. req' \in [Client -> RequestState] /\ LocalsOK'
      BY <1>3, EndReqType, EndReqLocals DEF RequestCrash, TypeInv
    <2> QED  BY <1>1, <1>3, <2>1 DEF RequestCrash, TypeInv, TypeOK, db
  <1>4. CASE ReaperCrash
    <2>1. reaper' \in ReaperState /\ reaper'.pc = "idle"
      BY <1>4, IdleTypes DEF ReaperCrash, IdleReaper
    <2>2. LocalsOK'
      BY <1>4, <2>1 DEF ReaperCrash, TypeInv, LocalsOK, WorkerLocalsOK
    <2> QED  BY <1>1, <1>4, <2>1, <2>2 DEF ReaperCrash, TypeInv, TypeOK, db
  <1> QED  BY <1>2, <1>3, <1>4

\* Every step keeps the types.
LEMMA NextTypeInv == TypeInv /\ [Next]_vars => TypeInv'
  <1> SUFFICES ASSUME TypeInv, [Next]_vars PROVE TypeInv'
    OBVIOUS
  <1>1. ASSUME NEW w \in Worker, WorkerStep(w) \/ Renew(w) PROVE TypeInv'
    BY <1>1, ClaimTypeInv, RunTypeInv, SettleTypeInv DEF WorkerStep
  <1>2. ASSUME NEW d \in Deployment, LeaseExpires(d) PROVE TypeInv'
    BY <1>2 DEF LeaseExpires, TypeInv, TypeOK, LocalsOK, WorkerLocalsOK,
                history
  <1>3. CASE UNCHANGED vars
    BY <1>3 DEF vars, db, history, TypeInv, TypeOK, LocalsOK, WorkerLocalsOK
  <1> QED
    BY <1>1, <1>2, <1>3, RequestTypeInv, NewRequestTypeInv, ReaperTypeInv,
       CrashTypeInv DEF Next

\* Every variable of the queue keeps its type, whatever interleaving of
\* workers, requests, reaper and crashes: in particular no attempt counter
\* passes max_attempts and no production-claim counter passes 3.
THEOREM TypeCorrect == Spec => []TypeOK
  <1>1. TypeInv => TypeOK  BY DEF TypeInv
  <1> QED  BY <1>1, InitTypeInv, NextTypeInv, PTL DEF Spec

-----------------------------------------------------------------------------
(* What a step can do to the build_jobs table.                             *)

Released(d, s) == job' = [job EXCEPT ![d].status = s, ![d].owner = None]

LeasedBy(w, d) ==
  job' = [job EXCEPT ![d].status = "running", ![d].owner = w,
                     ![d].attempt = @ + 1]

JobEffect ==
  \/ UNCHANGED job
  \/ \E d \in Deployment, p \in Priority :
       job[d].status = "none" /\ InsertJob(d, p)
  \/ \E d \in Deployment, w \in Worker :
       wk[w].pc = "lease" /\ wk[w].job = d /\ Claimable(d) /\ LeasedBy(w, d)
  \/ \E d \in Deployment :
       job[d].status \in Open /\ Released(d, "cancelled")
  \/ \E d \in Deployment, s \in {"queued", "completed", "failed"} :
       job[d].status = "running" /\ Released(d, s)

\* What claim, ack and fail do to build_jobs.
LEMMA WorkerJobEffect ==
  ASSUME TypeInv, OwnedIffRunning, NEW w \in Worker, WorkerStep(w)
  PROVE  JobEffect
  <1> DEFINE d == wk[w].job
  <1>0. wk[w].pc \notin {"idle", "read"} => d \in Deployment
    BY DEF TypeInv, LocalsOK, WorkerLocalsOK
  <1>1. CASE UNCHANGED job  BY <1>1 DEF JobEffect
  <1>2. CASE ClaimLease(w)
    <2>1. d \in Deployment  BY <1>0, <1>2 DEF ClaimLease
    <2>2. CASE Claimable(d)
      <3>1. wk[w].pc = "lease" /\ LeasedBy(w, d)
        BY <1>2, <2>2, Zenon DEF ClaimLease, LeaseJob, LeasedBy
      <3> QED  BY <2>1, <2>2, <3>1 DEF JobEffect
    <2>3. CASE ~Claimable(d)
      BY <1>1, <1>2, <2>3, Zenon DEF ClaimLease, NoRowMatched
    <2> QED  BY <2>2, <2>3
  <1>3. ASSUME d \in Deployment, NEW s \in {"queued", "completed", "failed"},
               job[d].owner = w, ReleaseJob(d, s)
        PROVE  JobEffect
    <2>1. job[d].status = "running"
      BY <1>3, ConstantsAssumption DEF OwnedIffRunning
    <2> QED  BY <1>3, <2>1 DEF JobEffect, ReleaseJob, Released
  <1>4. CASE AckJob(w)
    <2>1. d \in Deployment  BY <1>0, <1>4 DEF AckJob
    <2> QED  BY <1>1, <1>3, <1>4, <2>1 DEF AckJob, NoRowMatched
  <1>5. CASE FailRequeue(w)
    <2>1. d \in Deployment  BY <1>0, <1>5 DEF FailRequeue
    <2> QED  BY <1>1, <1>3, <1>5, <2>1 DEF FailRequeue, NoRowMatched
  <1>6. CASE FailBury(w)
    <2>1. d \in Deployment  BY <1>0, <1>6 DEF FailBury
    <2> QED  BY <1>1, <1>3, <1>6, <2>1 DEF FailBury, NoRowMatched
  <1>7. CASE \/ ClaimBegin(w) \/ ClaimRead(w) \/ ClaimRecord(w) \/ ClaimMark(w)
             \/ RunCheck(w) \/ RunWorkspace(w) \/ RunPipeline(w)
             \/ RunSucceeded(w) \/ RunFatal(w) \/ AckAttempt(w) \/ FailRead(w)
             \/ FailSettle(w) \/ FailRepublish(w) \/ FailBuryMark(w)
    BY <1>1, <1>7
       DEF ClaimBegin, ClaimRead, ClaimRecord, ClaimMark, RunCheck,
           RunWorkspace, RunPipeline, RunSucceeded, RunFatal, AckAttempt,
           FailRead, FailSettle, FailRepublish, FailBuryMark, db
  <1> QED  BY <1>2, <1>4, <1>5, <1>6, <1>7 DEF WorkerStep

\* What enqueue and cancel do to build_jobs.
LEMMA RequestJobEffect ==
  ASSUME TypeInv, NEW c \in Client, RequestStep(c)
  PROVE  JobEffect
  <1> DEFINE d == req[c].job
  <1>0. /\ req[c].pc # "idle" => d \in Deployment
        /\ req[c].priority \in Priority
    BY DEF TypeInv, TypeOK, LocalsOK, RequestState
  <1>1. CASE UNCHANGED job  BY <1>1 DEF JobEffect
  <1>2. CASE EnqueueInsert(c)
    <2>1. d \in Deployment  BY <1>0, <1>2 DEF EnqueueInsert
    <2>2. \/ UNCHANGED job
          \/ job[d].status = "none" /\ InsertJob(d, req[c].priority)
      BY <1>2 DEF EnqueueInsert
    <2> QED  BY <1>0, <2>1, <2>2 DEF JobEffect
  <1>3. CASE CancelJob(c)
    <2>1. d \in Deployment  BY <1>0, <1>3 DEF CancelJob
    <2>2. \/ UNCHANGED job
          \/ job[d].status \in Open /\ Released(d, "cancelled")
      BY <1>3 DEF CancelJob, NoRowMatched, ReleaseJob, Released, Open
    <2> QED  BY <2>1, <2>2 DEF JobEffect
  <1> QED
    BY <1>1, <1>2, <1>3
       DEF RequestStep, EnqueuePublish, EnqueueMark, CancelMark, CancelFinish,
           db

\* What requeue_expired does to build_jobs.
LEMMA ReaperJobEffect ==
  ASSUME TypeInv, ReaperStep
  PROVE  JobEffect
  <1>1. CASE UNCHANGED job  BY <1>1 DEF JobEffect
  <1>2. ASSUME NEW r \in reaper.rows, ReapRow(r) PROVE JobEffect
    <2>1. r.id \in Deployment  BY <1>2 DEF TypeInv, TypeOK, ReaperState
    <2>2. \/ UNCHANGED job
          \/ /\ job[r.id].status = "running"
             /\ Released(r.id, "queued") \/ Released(r.id, "failed")
      BY <1>2 DEF ReapRow, NoRowMatched, ReleaseJob, Released
    <2> QED  BY <2>1, <2>2 DEF JobEffect
  <1> QED  BY <1>1, <1>2 DEF ReaperStep, ReapScan, ReapPublish, ReapBury, db

\* Nothing else writes build_jobs.
LEMMA JobEffects == TypeInv /\ OwnedIffRunning /\ [Next]_vars => JobEffect
  <1> SUFFICES ASSUME TypeInv, OwnedIffRunning, [Next]_vars PROVE JobEffect
    OBVIOUS
  <1>1. CASE UNCHANGED job  BY <1>1 DEF JobEffect
  <1>2. \/ \E w \in Worker : WorkerStep(w)
        \/ \E c \in Client : RequestStep(c)
        \/ ReaperStep
        \/ UNCHANGED job
    BY DEF Next, Renew, WorkerCrash, RequestCrash, NewRequest,
           CreateDeployment, RetryDeployment, CancelDeployment,
           LeaseExpires, ReaperCrash, vars, db
  <1> QED  BY <1>1, <1>2, WorkerJobEffect, RequestJobEffect, ReaperJobEffect

\* Every one of these effects clears the owner with the running status.
LEMMA OwnerStep == TypeInv /\ OwnedIffRunning /\ JobEffect => OwnedIffRunning'
  <1> SUFFICES ASSUME TypeInv, OwnedIffRunning, JobEffect, NEW e \in Deployment
               PROVE  (job'[e].owner # None) <=> (job'[e].status = "running")
    BY DEF OwnedIffRunning
  <1>0. /\ (job[e].owner # None) <=> (job[e].status = "running")
        /\ job \in [Deployment -> JobRow]
    BY DEF OwnedIffRunning, TypeInv, TypeOK
  <1>1. CASE UNCHANGED job  BY <1>0, <1>1
  <1>2. ASSUME NEW d \in Deployment, NEW p \in Priority, InsertJob(d, p)
        PROVE  (job'[e].owner # None) <=> (job'[e].status = "running")
    BY <1>0, <1>2 DEF InsertJob, JobRow
  <1>3. ASSUME NEW d \in Deployment, NEW w \in Worker, LeasedBy(w, d)
        PROVE  (job'[e].owner # None) <=> (job'[e].status = "running")
    BY <1>0, <1>3, ConstantsAssumption DEF LeasedBy, JobRow
  <1>4. ASSUME NEW d \in Deployment, NEW s, s # "running", Released(d, s)
        PROVE  (job'[e].owner # None) <=> (job'[e].status = "running")
    BY <1>0, <1>4 DEF Released, JobRow
  <1> QED  BY <1>1, <1>2, <1>3, <1>4 DEF JobEffect

OwnerInv == TypeInv /\ OwnedIffRunning

\* No job is owned in the beginning.
LEMMA InitOwnerInv == Init => OwnerInv
  <1>1. ASSUME Init, NEW d \in Deployment
        PROVE  job[d].owner = None /\ job[d].status = "none"
    <2> DEFINE row == [status |-> "none", attempt |-> 0, owner |-> None,
                       priority |-> "production"]
    <2>1. job[d] = row  BY <1>1 DEF Init
    <2>2. row.owner = None /\ row.status = "none"  OBVIOUS
    <2> QED  BY <2>1, <2>2
  <1>2. Init => OwnedIffRunning  BY <1>1 DEF OwnedIffRunning
  <1> QED  BY <1>2, InitTypeInv DEF OwnerInv

\* Every step keeps owner and status together.
LEMMA NextOwnerInv == OwnerInv /\ [Next]_vars => OwnerInv'
  BY NextTypeInv, JobEffects, OwnerStep DEF OwnerInv

\* lease_owner is set exactly while a job is running, whoever cancels,
\* completes, fails or reaps it: the owner test of fail is a status test too.
THEOREM OwnedExactlyWhileRunning == Spec => []OwnedIffRunning
  <1>1. OwnerInv => OwnedIffRunning  BY DEF OwnerInv
  <1> QED  BY <1>1, InitOwnerInv, NextOwnerInv, PTL DEF Spec

\* No worker, request or reaper pass that is still under way changes the row
\* of a job that was completed or cancelled.
THEOREM SettledStay == Spec => SettledJobsStay
  <1> DEFINE Stay == \A d \in Deployment :
               job[d].status \in {"completed", "cancelled"} => job'[d] = job[d]
  <1>1. OwnerInv /\ [Next]_vars => Stay
    <2> SUFFICES ASSUME OwnerInv, [Next]_vars, NEW e \in Deployment,
                        job[e].status \in {"completed", "cancelled"}
                 PROVE  job'[e] = job[e]
      OBVIOUS
    <2>1. JobEffect /\ job \in [Deployment -> JobRow]
      BY JobEffects DEF OwnerInv, TypeInv, TypeOK
    <2>2. ASSUME NEW d \in Deployment, d # e, NEW p, NEW w, NEW s,
                 InsertJob(d, p) \/ LeasedBy(w, d) \/ Released(d, s)
          PROVE  job'[e] = job[e]
      BY <2>1, <2>2 DEF InsertJob, LeasedBy, Released
    <2>3. UNCHANGED job \/ \E d \in Deployment : d # e /\ \E p, w, s :
            InsertJob(d, p) \/ LeasedBy(w, d) \/ Released(d, s)
      BY <2>1 DEF JobEffect, Claimable, Open
    <2> QED  BY <2>2, <2>3
  <1>2. OwnerInv /\ [Next]_vars => [Stay]_vars  BY <1>1
  <1> QED  BY <1>2, InitOwnerInv, NextOwnerInv, PTL DEF Spec, SettledJobsStay

-----------------------------------------------------------------------------
(* What a step of a worker does to the local states.                       *)

\* Going on inside a run changes the program counter only.
LEMMA GotoMove ==
  ASSUME TypeOK, NEW w \in Worker, NEW pc, Goto(w, pc)
  PROVE  /\ wk'[w].pc = pc /\ wk'[w].job = wk[w].job
         /\ wk'[w].attempt = wk[w].attempt
         /\ \A v \in Worker : v # w => wk'[v] = wk[v]
  <1>1. wk \in [Worker -> WorkerState]  BY DEF TypeOK
  <1>2. wk[w] \in WorkerState  BY <1>1
  <1>3. wk' = [wk EXCEPT ![w] = [wk[w] EXCEPT !.pc = pc]]  BY DEF Goto
  <1>4. wk'[w] = [wk[w] EXCEPT !.pc = pc]  BY <1>1, <1>3
  <1>5. /\ wk'[w].pc = pc /\ wk'[w].job = wk[w].job
        /\ wk'[w].attempt = wk[w].attempt
    BY <1>2, <1>4 DEF WorkerState
  <1> QED  BY <1>1, <1>3, <1>5

\* Going on with a verdict about the pipeline's error keeps job and attempt.
LEMMA GotoFailMove ==
  ASSUME TypeOK, NEW w \in Worker, NEW pc, NEW b,
         wk' = [wk EXCEPT ![w].pc = pc, ![w].retryable = b]
  PROVE  /\ wk'[w].pc = pc /\ wk'[w].job = wk[w].job
         /\ wk'[w].attempt = wk[w].attempt
         /\ \A v \in Worker : v # w => wk'[v] = wk[v]
  <1>1. wk \in [Worker -> WorkerState]  BY DEF TypeOK
  <1>2. wk[w] \in WorkerState  BY <1>1
  <1>3. wk' = [wk EXCEPT ![w] = [wk[w] EXCEPT !.pc = pc, !.retryable = b]]
    OBVIOUS
  <1>4. wk'[w] = [wk[w] EXCEPT !.pc = pc, !.retryable = b]  BY <1>1, <1>3
  <1>5. {"pc", "job", "attempt", "retryable"} \subseteq DOMAIN wk[w]
    BY <1>2 DEF WorkerState
  <1>6. /\ wk'[w].pc = pc /\ wk'[w].job = wk[w].job
        /\ wk'[w].attempt = wk[w].attempt
    BY <1>4, <1>5
  <1> QED  BY <1>1, <1>3, <1>6

\* A run that ends leaves the worker idle.
LEMMA EndRunMove ==
  ASSUME TypeOK, NEW w \in Worker, EndRun(w)
  PROVE  wk'[w].pc = "idle" /\ \A v \in Worker : v # w => wk'[v] = wk[v]
  BY DEF TypeOK, EndRun, IdleWorker

\* Leaving a stream ends the claim or goes on reading.
LEMMA NextStreamMove ==
  ASSUME TypeOK, NEW w \in Worker, NextStream(w)
  PROVE  /\ wk'[w].pc \in {"idle", "read"}
         /\ \A v \in Worker : v # w => wk'[v] = wk[v]
  BY DEF TypeOK, NextStream, IdleWorker

\* Before its lease a worker is on no job.
BeforeLease == {"idle", "read", "lease"}

\* Opening a claim and reading a stream leave the worker before its lease.
LEMMA ClaimMove ==
  ASSUME TypeOK, NEW w \in Worker, ClaimBegin(w) \/ ClaimRead(w)
  PROVE  /\ wk[w].pc \in BeforeLease /\ wk'[w].pc \in BeforeLease
         /\ \A v \in Worker : v # w => wk'[v] = wk[v]
  <1>1. wk \in [Worker -> WorkerState] /\ wk[w] \in WorkerState  BY DEF TypeOK
  <1>2. CASE ClaimBegin(w)
    <2>1. PICK s : wk' = [wk EXCEPT ![w].pc = "read", ![w].streams = s]
      BY <1>2, Zenon DEF ClaimBegin
    <2>2. wk'[w].pc = "read" /\ \A v \in Worker : v # w => wk'[v] = wk[v]
      BY <1>1, <2>1 DEF WorkerState
    <2> QED  BY <1>2, <2>2 DEF ClaimBegin, BeforeLease
  <1>3. CASE ClaimRead(w)
    <2>1. CASE NextStream(w)
      BY <1>3, <2>1, NextStreamMove DEF ClaimRead, BeforeLease
    <2>2. CASE \E e : wk' = [wk EXCEPT ![w].pc = "lease", ![w].job = e]
      <3>1. PICK e : wk' = [wk EXCEPT ![w].pc = "lease", ![w].job = e]
        BY <2>2
      <3>2. wk'[w].pc = "lease" /\ \A v \in Worker : v # w => wk'[v] = wk[v]
        BY <1>1, <3>1 DEF WorkerState
      <3> QED  BY <1>3, <3>2 DEF ClaimRead, BeforeLease
    <2> QED  BY <1>3, <2>1, <2>2, Zenon DEF ClaimRead
  <1> QED  BY <1>2, <1>3

\* The lease statement puts the worker on the job, or nowhere.
LEMMA LeaseMove ==
  ASSUME TypeOK, NEW w \in Worker, ClaimLease(w)
  PROVE  /\ wk[w].pc = "lease" /\ \A v \in Worker : v # w => wk'[v] = wk[v]
         /\ \/ wk'[w].pc \in BeforeLease
            \/ /\ wk'[w].pc = "record" /\ wk'[w].job = wk[w].job
               /\ LeaseJob(wk[w].job, w)
  <1>1. wk \in [Worker -> WorkerState] /\ wk[w] \in WorkerState  BY DEF TypeOK
  <1>2. CASE NextStream(w)
    BY <1>2, NextStreamMove DEF ClaimLease, BeforeLease
  <1>3. CASE /\ LeaseJob(wk[w].job, w)
             /\ \E n : wk' = [wk EXCEPT ![w].pc = "record", ![w].attempt = n]
    <2>1. PICK n : wk' = [wk EXCEPT ![w].pc = "record", ![w].attempt = n]
      BY <1>3
    <2>2. /\ wk'[w].pc = "record" /\ wk'[w].job = wk[w].job
          /\ \A v \in Worker : v # w => wk'[v] = wk[v]
      BY <1>1, <2>1 DEF WorkerState
    <2> QED  BY <1>3, <2>2 DEF ClaimLease
  <1> QED  BY <1>2, <1>3, Zenon DEF ClaimLease

\* The steps of a run between its lease and its end.
Middle(w) ==
  \/ ClaimRecord(w) \/ ClaimMark(w) \/ RunCheck(w) \/ RunWorkspace(w)
  \/ RunPipeline(w) \/ RunSucceeded(w) \/ RunFatal(w) \/ AckJob(w)
  \/ FailRead(w) \/ FailRequeue(w) \/ FailBury(w) \/ FailSettle(w)

\* Inside a run job and attempt are fixed, and only the program counter moves.
LEMMA MiddleMove ==
  ASSUME TypeOK, NEW w \in Worker, Middle(w)
  PROVE  /\ wk[w].pc \notin BeforeLease \cup {"republish", "buryMark"}
         /\ wk'[w].pc \notin BeforeLease
         /\ wk'[w].pc \in {"republish", "buryMark"} => FailSettle(w)
         /\ wk'[w].pc # wk[w].pc
         /\ wk'[w].job = wk[w].job /\ wk'[w].attempt = wk[w].attempt
         /\ \A v \in Worker : v # w => wk'[v] = wk[v]
         /\ wk'[w].pc \in {"record", "mark", "check", "workspace"} =>
              wk[w].pc \in {"record", "mark", "check", "workspace"}
  <1>1. CASE FailSettle(w)
    BY <1>1, GotoMove DEF FailSettle, BeforeLease
  <1>2. CASE RunWorkspace(w)
    <2>1. CASE Goto(w, "building")
      BY <1>2, <2>1, GotoMove DEF RunWorkspace, BeforeLease
    <2>2. CASE wk' = [wk EXCEPT ![w].pc = "failRead", ![w].retryable = TRUE]
      <3>1. /\ wk'[w].pc = "failRead" /\ wk'[w].job = wk[w].job
            /\ wk'[w].attempt = wk[w].attempt
            /\ \A v \in Worker : v # w => wk'[v] = wk[v]
        BY <2>2, GotoFailMove, Zenon
      <3> QED  BY <1>2, <3>1 DEF RunWorkspace, BeforeLease
    <2> QED  BY <1>2, <2>1, <2>2, Zenon DEF RunWorkspace
  <1>3. CASE RunPipeline(w)
    <2>1. CASE Goto(w, "succeeded")
      BY <1>3, <2>1, GotoMove DEF RunPipeline, BeforeLease
    <2>2. ASSUME NEW error,
                 wk' = [wk EXCEPT ![w].pc = IF Retryable(error)
                                              THEN "failRead" ELSE "fatal",
                                  ![w].retryable = Retryable(error)]
          PROVE  /\ wk'[w].pc \in {"failRead", "fatal"}
                 /\ wk'[w].job = wk[w].job /\ wk'[w].attempt = wk[w].attempt
                 /\ \A v \in Worker : v # w => wk'[v] = wk[v]
      BY <2>2, GotoFailMove, Zenon
    <2> QED  BY <1>3, <2>1, <2>2 DEF RunPipeline, BeforeLease
  <1>4. CASE \/ ClaimRecord(w) \/ ClaimMark(w) \/ RunCheck(w)
             \/ RunSucceeded(w) \/ RunFatal(w) \/ AckJob(w)
             \/ FailRead(w) \/ FailRequeue(w) \/ FailBury(w)
    BY <1>4, GotoMove
       DEF ClaimRecord, ClaimMark, RunCheck, RunSucceeded, RunFatal, AckJob,
           FailRead, FailRequeue, FailBury, BeforeLease
  <1> QED  BY <1>1, <1>2, <1>3, <1>4 DEF Middle

\* The statements that end a run.
Ending(w) == AckAttempt(w) \/ FailRepublish(w) \/ FailBuryMark(w)

\* The steps of a worker, by what they do to its run.
LEMMA WorkerStepKinds ==
  ASSUME NEW w \in Worker, WorkerStep(w)
  PROVE  \/ ClaimBegin(w) \/ ClaimRead(w) \/ ClaimLease(w)
         \/ Middle(w) \/ Ending(w)
  BY DEF WorkerStep, Middle, Ending

\* The last statement of ack and fail ends the run.
LEMMA EndingMove ==
  ASSUME TypeOK, NEW w \in Worker, Ending(w)
  PROVE  /\ wk[w].pc \notin BeforeLease /\ wk'[w].pc = "idle"
         /\ \A v \in Worker : v # w => wk'[v] = wk[v]
  BY EndRunMove
     DEF Ending, AckAttempt, FailRepublish, FailBuryMark, BeforeLease

-----------------------------------------------------------------------------
(* Who may take a lease away.                                              *)

\* The reaper is inside requeue_expired only where something calls it.
ReaperCalled == reaper.pc # "idle" => ReaperRuns

\* requeue_expired is entered by ReapScan alone.
LEMMA NextReaperCalled ==
  TypeInv /\ ReaperCalled /\ [Next]_vars => ReaperCalled'
  <1> SUFFICES ASSUME TypeInv, ReaperCalled, [Next]_vars PROVE ReaperCalled'
    OBVIOUS
  <1>1. CASE UNCHANGED reaper  BY <1>1 DEF ReaperCalled
  <1>2. CASE ReaperStep
    BY <1>2 DEF ReaperStep, ReapScan, ReapRow, ReapPublish, ReapBury,
                ReaperCalled
  <1>3. CASE ReaperCrash  BY <1>3 DEF ReaperCrash, IdleReaper, ReaperCalled
  <1>4. ASSUME NEW w \in Worker, WorkerStep(w) \/ Renew(w) \/ WorkerCrash(w)
        PROVE  UNCHANGED reaper
    BY <1>4
       DEF WorkerStep, Renew, WorkerCrash, ClaimBegin, ClaimRead, ClaimLease,
           ClaimRecord, ClaimMark, RunCheck, RunWorkspace, RunPipeline,
           RunSucceeded, RunFatal, AckJob, AckAttempt, FailRead, FailRequeue,
           FailBury, FailSettle, FailRepublish, FailBuryMark
  <1>5. ASSUME NEW c \in Client, RequestStep(c) \/ RequestCrash(c)
        PROVE  UNCHANGED reaper
    BY <1>5
       DEF RequestStep, RequestCrash, EnqueueInsert, EnqueuePublish,
           EnqueueMark, CancelJob, CancelMark, CancelFinish
  <1>6. ASSUME NEW c \in Client, NEW d \in Deployment, NewRequest(c, d)
        PROVE  UNCHANGED reaper
    BY <1>6 DEF NewRequest, CreateDeployment, RetryDeployment, CancelDeployment
  <1>7. ASSUME NEW d \in Deployment, LeaseExpires(d) PROVE UNCHANGED reaper
    BY <1>7 DEF LeaseExpires
  <1>8. UNCHANGED vars => UNCHANGED reaper  BY DEF vars
  <1> QED  BY <1>1, <1>2, <1>3, <1>4, <1>5, <1>6, <1>7, <1>8 DEF Next

\* d's row was owned by w and is not any more.
Loses(w, d) == job[d].owner = w /\ job'[d].owner # w

\* Only the statement that writes a row takes its owner away.
LEMMA LosesWhere ==
  ASSUME OwnerInv, NEW w \in Worker, NEW d \in Deployment, Loses(w, d),
         NEW e \in Deployment, NEW s,
         ReleaseJob(e, s) \/ InsertJob(e, s) \/ LeaseJob(e, s)
  PROVE  d = e /\ job[d].status = "running"
  <1>1. job \in [Deployment -> JobRow]  BY DEF OwnerInv, TypeInv, TypeOK
  <1>2. job[d].status = "running"
    BY ConstantsAssumption DEF OwnerInv, OwnedIffRunning, Loses
  <1>3. d # e => job'[d] = job[d]
    BY <1>1 DEF ReleaseJob, InsertJob, LeaseJob
  <1> QED  BY <1>2, <1>3 DEF Loses

\* A worker's step takes a lease away only from that worker.
LEMMA WorkerLoses ==
  ASSUME OwnerInv, NEW v \in Worker, WorkerStep(v),
         NEW w \in Worker, NEW d \in Deployment, Loses(w, d)
  PROVE  OnJob(w, d) /\ wk'[w] # wk[w]
  <1>0. TypeOK /\ WorkerLocalsOK(v) /\ ~(UNCHANGED job)
    BY DEF OwnerInv, TypeInv, LocalsOK, Loses
  <1>1. CASE ClaimLease(v)
    <2>1. wk[v].job \in Deployment
      BY <1>0, <1>1 DEF ClaimLease, WorkerLocalsOK
    <2>2. Claimable(wk[v].job) /\ LeaseJob(wk[v].job, v)
      BY <1>0, <1>1 DEF ClaimLease, NoRowMatched
    <2>3. d = wk[v].job /\ job[d].status = "running"
      BY <2>1, <2>2, LosesWhere
    <2> QED  BY <2>2, <2>3 DEF Claimable
  <1>2. CASE AckJob(v) \/ FailRequeue(v) \/ FailBury(v)
    <2>1. wk[v].job \in Deployment
      BY <1>0, <1>2 DEF AckJob, FailRequeue, FailBury, WorkerLocalsOK
    <2>2. PICK s : job[wk[v].job].owner = v /\ ReleaseJob(wk[v].job, s)
      BY <1>0, <1>2 DEF AckJob, FailRequeue, FailBury, NoRowMatched
    <2>3. d = wk[v].job  BY <2>1, <2>2, LosesWhere
    <2>4. v = w  BY <2>2, <2>3 DEF Loses
    <2>5. wk[v].pc \notin BeforeLease /\ wk'[v].pc # wk[v].pc
      BY <1>0, <1>2, MiddleMove DEF Middle
    <2> QED  BY <2>3, <2>4, <2>5 DEF OnJob, BeforeLease
  <1> QED
    BY <1>0, <1>1, <1>2
       DEF WorkerStep, ClaimBegin, ClaimRead, ClaimRecord, ClaimMark, RunCheck,
           RunWorkspace, RunPipeline, RunSucceeded, RunFatal, AckAttempt,
           FailRead, FailSettle, FailRepublish, FailBuryMark, db

\* A request takes a lease away only by cancelling the job.
LEMMA RequestLoses ==
  ASSUME OwnerInv, NEW c \in Client, RequestStep(c),
         NEW w \in Worker, NEW d \in Deployment, Loses(w, d)
  PROVE  job'[d].status = "cancelled"
  <1>0. /\ TypeOK /\ ~(UNCHANGED job) /\ job \in [Deployment -> JobRow]
        /\ req[c].pc # "idle" => req[c].job \in Deployment
    BY DEF OwnerInv, TypeInv, LocalsOK, Loses, TypeOK
  <1>1. CASE EnqueueInsert(c)
    <2>1. req[c].job \in Deployment  BY <1>0, <1>1 DEF EnqueueInsert
    <2>2. /\ job[req[c].job].status = "none"
          /\ InsertJob(req[c].job, req[c].priority)
      BY <1>0, <1>1 DEF EnqueueInsert
    <2> QED  BY <2>1, <2>2, LosesWhere
  <1>2. CASE CancelJob(c)
    <2>1. req[c].job \in Deployment  BY <1>0, <1>2 DEF CancelJob
    <2>2. ReleaseJob(req[c].job, "cancelled")
      BY <1>0, <1>2 DEF CancelJob, NoRowMatched
    <2>3. d = req[c].job  BY <2>1, <2>2, LosesWhere
    <2> QED  BY <1>0, <2>2, <2>3 DEF ReleaseJob, JobRow
  <1> QED
    BY <1>0, <1>1, <1>2
       DEF RequestStep, EnqueuePublish, EnqueueMark, CancelMark, CancelFinish,
           db

\* requeue_expired takes a lease away only while it handles a row.
LEMMA ReaperLoses ==
  ASSUME OwnerInv, ReaperCalled, ReaperStep,
         NEW w \in Worker, NEW d \in Deployment, Loses(w, d)
  PROVE  ReaperRuns /\ reaper' # reaper
  <1>1. PICK r \in reaper.rows : ReapRow(r)
    BY DEF ReaperStep, ReapScan, ReapPublish, ReapBury, db, Loses
  <1>2. reaper.pc = "scan" /\ reaper'.pc \in {"publish", "bury"}
    BY <1>1 DEF ReapRow
  <1> QED  BY <1>2 DEF ReaperCalled

\* A lease is taken from a worker only by the worker itself, which has just
\* settled its own claim, by a cancellation, or by requeue_expired where
\* something calls it: no other worker's ack, fail or claim does it.
THEOREM LeaseTakenOnlyBy == Spec => LeaseIsTheWorkers
  <1> DEFINE Inv == OwnerInv /\ ReaperCalled
             Kept == \A d \in Deployment, w \in Worker :
                       job[d].owner = w /\ job'[d].owner # w =>
                         \/ OnJob(w, d) /\ wk'[w] # wk[w]
                         \/ job'[d].status = "cancelled"
                         \/ ReaperRuns /\ reaper' # reaper
  <1>1. Inv /\ [Next]_vars => Kept
    <2> SUFFICES ASSUME OwnerInv, ReaperCalled, [Next]_vars,
                        NEW d \in Deployment, NEW w \in Worker, Loses(w, d)
                 PROVE  \/ OnJob(w, d) /\ wk'[w] # wk[w]
                        \/ job'[d].status = "cancelled"
                        \/ ReaperRuns /\ reaper' # reaper
      BY DEF Loses
    <2>1. ~(UNCHANGED job)  BY DEF Loses
    <2>2. \/ \E v \in Worker : WorkerStep(v)
          \/ \E c \in Client : RequestStep(c)
          \/ ReaperStep
      BY <2>1
         DEF Next, Renew, WorkerCrash, RequestCrash, NewRequest,
             CreateDeployment, RetryDeployment, CancelDeployment,
             LeaseExpires, ReaperCrash, vars, db
    <2> QED  BY <2>2, WorkerLoses, RequestLoses, ReaperLoses
  <1>2. Inv /\ [Next]_vars => [Kept]_vars  BY <1>1
  <1>3. Init => Inv
    BY InitOwnerInv DEF Init, IdleReaper, ReaperCalled
  <1>4. Inv /\ [Next]_vars => Inv'
    BY NextOwnerInv, NextReaperCalled DEF OwnerInv
  <1> HIDE DEF Inv
  <1> QED  BY <1>2, <1>3, <1>4, PTL DEF Spec, LeaseIsTheWorkers

-----------------------------------------------------------------------------
(* A build_attempts row that says 'running' has its worker.                *)

\* w is inside the run of attempt n of d and has not settled it yet.
Working(w, d, n) ==
  /\ OnJob(w, d) /\ wk[w].attempt = n
  /\ wk[w].pc \notin {"republish", "buryMark"}

RunningBy(w, d, n) ==
  attempts[d][n].status = "running" /\ attempts[d][n].worker = w

AttemptHeld(d, n) ==
  attempts[d][n].status = "running" =>
    \E w \in Worker : RunningBy(w, d, n) /\ Working(w, d, n)

AttemptInv ==
  crashes = 0 => \A d \in Deployment, n \in 1..MaxAttempts : AttemptHeld(d, n)

\* A worker takes a step after which every running row is one it or somebody
\* else is working on, or was running before, by a worker that goes on.
LEMMA AttemptsKept ==
  ASSUME AttemptInv, NEW w \in Worker, UNCHANGED crashes,
         \A v \in Worker : v # w => wk'[v] = wk[v],
         \A d \in Deployment, n \in 1..MaxAttempts :
           \/ attempts'[d][n].status # "running"
           \/ attempts'[d][n].worker = w /\ Working(w, d, n)'
           \/ /\ attempts'[d][n] = attempts[d][n]
              /\ RunningBy(w, d, n) /\ Working(w, d, n) => Working(w, d, n)'
  PROVE  AttemptInv'
  <1> SUFFICES ASSUME crashes = 0, NEW d \in Deployment,
                      NEW n \in 1..MaxAttempts,
                      attempts'[d][n].status = "running"
               PROVE  \E v \in Worker :
                        RunningBy(v, d, n)' /\ Working(v, d, n)'
    BY DEF AttemptInv, AttemptHeld
  <1>1. CASE attempts'[d][n].worker = w /\ Working(w, d, n)'
    BY <1>1 DEF RunningBy
  <1>2. CASE /\ attempts'[d][n] = attempts[d][n]
             /\ RunningBy(w, d, n) /\ Working(w, d, n) => Working(w, d, n)'
    <2>1. PICK v \in Worker : RunningBy(v, d, n) /\ Working(v, d, n)
      BY <1>2 DEF AttemptInv, AttemptHeld
    <2>2. RunningBy(v, d, n)'  BY <1>2, <2>1 DEF RunningBy
    <2>3. Working(v, d, n)'
      <3>1. CASE v = w  BY <1>2, <2>1, <3>1
      <3>2. CASE v # w  BY <2>1, <3>2 DEF Working, OnJob
      <3> QED  BY <3>1, <3>2
    <2> QED  BY <2>2, <2>3
  <1> QED  BY <1>1, <1>2

\* UPDATE build_attempts settles every running row of the worker.
LEMMA SettledRows ==
  ASSUME TypeOK, NEW d \in Deployment, NEW w \in Worker,
         NEW s \in {"succeeded", "failed"}, SettleAttempts(d, w, s)
  PROVE  \A e \in Deployment, n \in 1..MaxAttempts :
           \/ attempts'[e][n].status # "running"
           \/ /\ attempts'[e][n] = attempts[e][n]
              /\ e = d => ~RunningBy(w, e, n)
  <1> SUFFICES ASSUME NEW e \in Deployment, NEW n \in 1..MaxAttempts
               PROVE  \/ attempts'[e][n].status # "running"
                      \/ /\ attempts'[e][n] = attempts[e][n]
                         /\ e = d => ~RunningBy(w, e, n)
    OBVIOUS
  <1>1. attempts \in [Deployment -> [1..MaxAttempts -> AttemptRow]]
    BY DEF TypeOK
  <1>2. CASE e # d  BY <1>1, <1>2 DEF SettleAttempts
  <1>3. CASE e = d
    <2>1. attempts'[e][n] =
            IF attempts[e][n] = [status |-> "running", worker |-> w]
              THEN [status |-> s, worker |-> w] ELSE attempts[e][n]
      BY <1>1, <1>3 DEF SettleAttempts
    <2>2. attempts[e][n] \in AttemptRow  BY <1>1
    <2>3. RunningBy(w, e, n) =>
            attempts[e][n] = [status |-> "running", worker |-> w]
      BY <2>2 DEF RunningBy, AttemptRow
    <2> QED  BY <2>1, <2>3
  <1> QED  BY <1>2, <1>3

\* A worker's step leaves no running row behind without its worker.
LEMMA WorkerAttempts ==
  ASSUME TypeInv, AttemptInv, NEW w \in Worker, WorkerStep(w)
  PROVE  AttemptInv'
  <1> DEFINE d == wk[w].job
             n == wk[w].attempt
  <1>0. /\ TypeOK /\ WorkerLocalsOK(w)
        /\ attempts \in [Deployment -> [1..MaxAttempts -> AttemptRow]]
    BY DEF TypeInv, LocalsOK, TypeOK
  <1>1. ASSUME wk[w].pc \in BeforeLease \cup {"republish", "buryMark"},
               UNCHANGED <<attempts, crashes>>,
               \A v \in Worker : v # w => wk'[v] = wk[v]
        PROVE  AttemptInv'
    <2>1. \A e, m : ~Working(w, e, m)
      BY <1>1 DEF Working, OnJob, BeforeLease
    <2> QED  BY <1>1, <2>1, AttemptsKept
  <1>2. CASE ClaimBegin(w) \/ ClaimRead(w)
    BY <1>0, <1>1, <1>2, ClaimMove DEF ClaimBegin, ClaimRead, db, history
  <1>3. CASE ClaimLease(w)
    BY <1>0, <1>1, <1>3, LeaseMove DEF ClaimLease, history, BeforeLease
  <1>4. CASE FailRepublish(w) \/ FailBuryMark(w)
    BY <1>0, <1>1, <1>4, EndingMove
       DEF Ending, FailRepublish, FailBuryMark, db, history
  <1>5. CASE AckAttempt(w) \/ FailSettle(w)
    <2>1. wk[w].pc \notin BeforeLease /\ UNCHANGED crashes
      BY <1>5 DEF AckAttempt, FailSettle, BeforeLease, history
    <2>2. d \in Deployment
      BY <1>0, <2>1 DEF WorkerLocalsOK, BeforeLease
    <2>3. \A v \in Worker : v # w => wk'[v] = wk[v]
      BY <1>0, <1>5, EndingMove, MiddleMove DEF Ending, Middle
    <2>4. PICK s \in {"succeeded", "failed"} : SettleAttempts(d, w, s)
      BY <1>5 DEF AckAttempt, FailSettle
    <2>5. \A e \in Deployment, m \in 1..MaxAttempts :
            \/ attempts'[e][m].status # "running"
            \/ /\ attempts'[e][m] = attempts[e][m]
               /\ e = d => ~RunningBy(w, e, m)
      BY <1>0, <2>2, <2>4, SettledRows
    <2>6. \A e, m : Working(w, e, m) => e = d  BY DEF Working, OnJob
    <2> HIDE DEF d
    <2> QED  BY <2>1, <2>3, <2>5, <2>6, AttemptsKept
  <1>6. CASE Middle(w) /\ ~FailSettle(w)
    <2>1. /\ wk[w].pc \notin BeforeLease
          /\ wk'[w].pc \notin BeforeLease \cup {"republish", "buryMark"}
          /\ wk'[w].job = d /\ wk'[w].attempt = n
          /\ \A v \in Worker : v # w => wk'[v] = wk[v]
      BY <1>0, <1>6, MiddleMove
    <2>2. d \in Deployment /\ n \in 1..MaxAttempts
      BY <1>0, <2>1 DEF WorkerLocalsOK, BeforeLease
    <2>3. UNCHANGED crashes
      BY <1>6 DEF Middle, ClaimRecord, ClaimMark, RunCheck, RunWorkspace,
                  RunPipeline, RunSucceeded, RunFatal, AckJob, FailRead,
                  FailRequeue, FailBury, history
    <2>4. PICK f \in Deployment, k \in 1..MaxAttempts : f = d /\ k = n
      BY <2>2
    <2>5. Working(w, f, k)'
      BY <2>1, <2>4 DEF Working, OnJob, BeforeLease
    <2>6. \A e, m : Working(w, e, m) => e = f /\ m = k
      BY <2>4 DEF Working, OnJob
    <2>7. \A e \in Deployment, m \in 1..MaxAttempts :
            \/ attempts'[e][m] = attempts[e][m]
            \/ e = d /\ m = n /\ attempts'[e][m].worker = w
      <3>1. CASE UNCHANGED attempts  BY <3>1
      <3>2. ASSUME attempts' = [attempts EXCEPT ![d][n] =
                                  [status |-> "running", worker |-> w]]
            PROVE  \A e \in Deployment, m \in 1..MaxAttempts :
                     \/ attempts'[e][m] = attempts[e][m]
                     \/ e = d /\ m = n /\ attempts'[e][m].worker = w
        BY <1>0, <2>2, <3>2
      <3>3. CASE ClaimRecord(w)
        <4>1. attempts' = [attempts EXCEPT ![d][n] =
                IF attempts[d][n] = NoRow
                  THEN [status |-> "running", worker |-> w]
                  ELSE attempts[d][n]]
          BY <1>0, <2>2, <3>3 DEF ClaimRecord
        <4>2. CASE attempts[d][n] = NoRow  BY <3>2, <4>1, <4>2
        <4>3. CASE attempts[d][n] # NoRow  BY <1>0, <2>2, <4>1, <4>3
        <4> QED  BY <4>2, <4>3
      <3>4. CASE RunCheck(w)  BY <3>1, <3>2, <3>4, Zenon DEF RunCheck
      <3> QED
        BY <1>6, <3>1, <3>3, <3>4
           DEF Middle, ClaimMark, RunWorkspace, RunPipeline, RunSucceeded,
               RunFatal, AckJob, FailRead, FailRequeue, FailBury, db
    <2> HIDE DEF d, n
    <2>8. \A e \in Deployment, m \in 1..MaxAttempts :
            \/ attempts'[e][m].worker = w /\ Working(w, e, m)'
            \/ /\ attempts'[e][m] = attempts[e][m]
               /\ Working(w, e, m) => Working(w, e, m)'
      <3> SUFFICES ASSUME NEW e \in Deployment, NEW m \in 1..MaxAttempts
                   PROVE  \/ attempts'[e][m].worker = w /\ Working(w, e, m)'
                          \/ /\ attempts'[e][m] = attempts[e][m]
                             /\ Working(w, e, m) => Working(w, e, m)'
        OBVIOUS
      <3>1. CASE e = f /\ m = k  BY <2>4, <2>5, <2>7, <3>1
      <3>2. CASE ~(e = f /\ m = k)  BY <2>4, <2>6, <2>7, <3>2
      <3> QED  BY <3>1, <3>2
    <2> QED  BY <2>1, <2>3, <2>8, AttemptsKept
  <1> QED
    BY <1>2, <1>3, <1>4, <1>5, <1>6, WorkerStepKinds DEF Ending

\* Nor does any other step: nobody but a worker writes attempts.
LEMMA NextAttemptInv == TypeInv /\ AttemptInv /\ [Next]_vars => AttemptInv'
  <1> SUFFICES ASSUME TypeInv, AttemptInv, [Next]_vars PROVE AttemptInv'
    OBVIOUS
  <1>1. CASE UNCHANGED <<attempts, wk, crashes>>
    BY <1>1 DEF AttemptInv, AttemptHeld, RunningBy, Working, OnJob
  <1>2. ASSUME NEW k, Crash(k) PROVE AttemptInv'
    <2>1. crashes' # 0  BY <1>2 DEF Crash, TypeInv, TypeOK
    <2> QED  BY <2>1 DEF AttemptInv
  <1>3. ASSUME NEW w \in Worker, Renew(w) \/ WorkerCrash(w) PROVE AttemptInv'
    BY <1>1, <1>2, <1>3 DEF Renew, WorkerCrash, history
  <1>4. ASSUME NEW c \in Client, RequestStep(c) \/ RequestCrash(c)
        PROVE  AttemptInv'
    BY <1>1, <1>2, <1>4
       DEF RequestStep, RequestCrash, EnqueueInsert, EnqueuePublish,
           EnqueueMark, CancelJob, CancelMark, CancelFinish, db, history
  <1>5. ASSUME NEW c \in Client, NEW d \in Deployment, NewRequest(c, d)
        PROVE  AttemptInv'
    BY <1>1, <1>5
       DEF NewRequest, CreateDeployment, RetryDeployment, CancelDeployment,
           db, history
  <1>6. ASSUME NEW d \in Deployment, LeaseExpires(d) PROVE AttemptInv'
    BY <1>1, <1>6 DEF LeaseExpires, history
  <1>7. CASE ReaperStep \/ ReaperCrash
    BY <1>1, <1>2, <1>7
       DEF ReaperStep, ReapScan, ReapRow, ReapPublish, ReapBury, ReaperCrash,
           db, history
  <1>8. CASE UNCHANGED vars  BY <1>1, <1>8 DEF vars, db, history
  <1> QED
    BY <1>3, <1>4, <1>5, <1>6, <1>7, <1>8, WorkerAttempts DEF Next

\* As long as nothing was interrupted, every build_attempts row in status
\* 'running' names a worker that is inside run_once with that very attempt,
\* also where the reaper takes jobs away from workers that are still building.
THEOREM RunningAttemptsAreHeld == Spec => []RunningAttemptHasWorker
  <1> DEFINE Inv == TypeInv /\ AttemptInv
  <1>1. Init => Inv
    <2>1. Init => AttemptInv
      BY DEF Init, NoRow, AttemptInv, AttemptHeld
    <2> QED  BY <2>1, InitTypeInv
  <1>2. Inv /\ [Next]_vars => Inv'  BY NextTypeInv, NextAttemptInv
  <1>3. Inv => RunningAttemptHasWorker
    BY DEF AttemptInv, AttemptHeld, RunningBy, Working, RunningAttemptHasWorker
  <1> HIDE DEF Inv
  <1> QED  BY <1>1, <1>2, <1>3, PTL DEF Spec

-----------------------------------------------------------------------------
(* A job's pipeline is started at most once per claim.                     *)

\* The workers that have leased d and may still start its pipeline.
Starts == {"record", "mark", "check", "workspace"}

Starting(d) == {w \in Worker : wk[w].job = d /\ wk[w].pc \in Starts}

\* Every pipeline that was started, and every one that still may be, has an
\* attempt of its own.
BuildsCounted(d) ==
  /\ IsFiniteSet(Starting(d))
  /\ builds[d] + Cardinality(Starting(d)) <= job[d].attempt

CountInv ==
  \A d \in Deployment : /\ BuildsCounted(d)
                        /\ job[d].status = "none" => job[d].attempt = 0

\* attempt never goes back, and counts from 0 for a job that is inserted.
LEMMA AttemptGrows ==
  ASSUME OwnerInv, CountInv, JobEffect, NEW e \in Deployment
  PROVE  /\ job'[e].attempt >= job[e].attempt
         /\ job'[e].status = "none" => job'[e].attempt = 0
  <1>0. /\ job \in [Deployment -> JobRow] /\ job[e] \in JobRow
        /\ job[e].attempt \in Nat
        /\ job[e].status = "none" => job[e].attempt = 0
    BY DEF OwnerInv, TypeInv, TypeOK, CountInv, JobRow
  <1>1. CASE UNCHANGED job  BY <1>0, <1>1
  <1>2. ASSUME NEW d \in Deployment, NEW p \in Priority,
               job[d].status = "none", InsertJob(d, p)
        PROVE  /\ job'[e].attempt >= job[e].attempt
               /\ job'[e].status = "none" => job'[e].attempt = 0
    BY <1>0, <1>2 DEF InsertJob
  <1>3. ASSUME NEW d \in Deployment, NEW w \in Worker, LeasedBy(w, d)
        PROVE  /\ job'[e].attempt >= job[e].attempt
               /\ job'[e].status = "none" => job'[e].attempt = 0
    BY <1>0, <1>3 DEF LeasedBy, JobRow
  <1>4. ASSUME NEW d \in Deployment, NEW s, s # "none", Released(d, s)
        PROVE  /\ job'[e].attempt >= job[e].attempt
               /\ job'[e].status = "none" => job'[e].attempt = 0
    BY <1>0, <1>4 DEF Released, JobRow
  <1> QED  BY <1>1, <1>2, <1>3, <1>4 DEF JobEffect

\* The numbers the count is about are natural numbers, before and after.
LEMMA CountTypes ==
  ASSUME TypeInv, TypeInv', NEW d \in Deployment
  PROVE  /\ job[d].attempt \in Nat /\ job'[d].attempt \in Nat
         /\ builds[d] \in Nat /\ builds'[d] \in Nat
  BY DEF TypeInv, TypeOK, JobRow

\* Steps that start no pipeline and give nobody the right to start one.
LEMMA NoneStarts ==
  ASSUME TypeInv, TypeInv', NEW d \in Deployment, BuildsCounted(d),
         builds'[d] = builds[d], job'[d].attempt >= job[d].attempt,
         \A w \in Worker : w \in Starting(d)' => w \in Starting(d)
  PROVE  BuildsCounted(d)'
  <1>1. IsFiniteSet(Starting(d)) /\ Starting(d)' \in SUBSET Starting(d)
    BY DEF Starting, BuildsCounted
  <1>2. /\ IsFiniteSet(Starting(d)')
        /\ Cardinality(Starting(d)') <= Cardinality(Starting(d))
    BY <1>1, FS_Subset
  <1>3. Cardinality(Starting(d)) \in Nat /\ Cardinality(Starting(d)') \in Nat
    BY <1>1, <1>2, FS_CardinalityType
  <1> QED  BY <1>2, <1>3, CountTypes DEF BuildsCounted

\* A lease counts an attempt and lets one more worker start the pipeline.
LEMMA LeaseCounted ==
  ASSUME TypeInv, TypeInv', NEW d \in Deployment, BuildsCounted(d),
         NEW w \in Worker, Starting(d)' \in SUBSET (Starting(d) \cup {w}),
         builds'[d] = builds[d], job'[d].attempt = job[d].attempt + 1
  PROVE  BuildsCounted(d)'
  <1>1. IsFiniteSet(Starting(d))  BY DEF BuildsCounted
  <1>2. /\ IsFiniteSet(Starting(d) \cup {w})
        /\ Cardinality(Starting(d) \cup {w}) <= Cardinality(Starting(d)) + 1
    <2>1. Cardinality(Starting(d)) \in Nat  BY <1>1, FS_CardinalityType
    <2>2. /\ IsFiniteSet(Starting(d) \cup {w})
          /\ Cardinality(Starting(d) \cup {w}) =
               IF w \in Starting(d) THEN Cardinality(Starting(d))
                                    ELSE Cardinality(Starting(d)) + 1
      BY <1>1, FS_AddElement, Zenon
    <2> QED  BY <2>1, <2>2
  <1>3. /\ IsFiniteSet(Starting(d)')
        /\ Cardinality(Starting(d)') <= Cardinality(Starting(d) \cup {w})
    BY <1>2, FS_Subset
  <1>4. /\ Cardinality(Starting(d)) \in Nat
        /\ Cardinality(Starting(d) \cup {w}) \in Nat
        /\ Cardinality(Starting(d)') \in Nat
    BY <1>1, <1>2, <1>3, FS_CardinalityType
  <1> QED  BY <1>2, <1>3, <1>4, CountTypes DEF BuildsCounted

\* A started pipeline uses up the right of the worker that starts it.
LEMMA StartCounted ==
  ASSUME TypeInv, TypeInv', NEW d \in Deployment, BuildsCounted(d),
         NEW w \in Worker, w \in Starting(d),
         Starting(d)' \in SUBSET (Starting(d) \ {w}),
         builds'[d] = builds[d] + 1, job'[d].attempt = job[d].attempt
  PROVE  BuildsCounted(d)'
  <1>1. IsFiniteSet(Starting(d))  BY DEF BuildsCounted
  <1>2. /\ IsFiniteSet(Starting(d) \ {w})
        /\ Cardinality(Starting(d) \ {w}) = Cardinality(Starting(d)) - 1
    BY <1>1, FS_RemoveElement
  <1>3. /\ IsFiniteSet(Starting(d)')
        /\ Cardinality(Starting(d)') <= Cardinality(Starting(d) \ {w})
    BY <1>2, FS_Subset
  <1>4. /\ Cardinality(Starting(d)) \in Nat
        /\ Cardinality(Starting(d) \ {w}) \in Nat
        /\ Cardinality(Starting(d)') \in Nat
    BY <1>1, <1>2, <1>3, FS_CardinalityType
  <1> QED  BY <1>2, <1>3, <1>4, CountTypes DEF BuildsCounted

\* A worker's step keeps started and startable pipelines counted.
LEMMA WorkerCounts ==
  ASSUME TypeInv, TypeInv', NEW w \in Worker, WorkerStep(w),
         NEW d \in Deployment, BuildsCounted(d),
         job'[d].attempt >= job[d].attempt
  PROVE  BuildsCounted(d)'
  <1>0. TypeOK /\ WorkerLocalsOK(w)  BY DEF TypeInv, LocalsOK
  <1>1. ASSUME builds' = builds,
               \A v \in Worker : v # w => wk'[v] = wk[v],
               w \in Starting(d)' => w \in Starting(d)
        PROVE  BuildsCounted(d)'
    BY <1>1, NoneStarts DEF Starting
  <1>2. CASE ClaimBegin(w) \/ ClaimRead(w)
    BY <1>0, <1>1, <1>2, ClaimMove
       DEF ClaimBegin, ClaimRead, history, Starting, Starts, BeforeLease
  <1>3. CASE ClaimLease(w)
    <2>1. builds' = builds  BY <1>3 DEF ClaimLease, history
    <2>2. CASE wk'[w].pc \in BeforeLease \/ wk[w].job # d
      BY <1>0, <1>1, <1>3, <2>1, <2>2, LeaseMove
         DEF Starting, Starts, BeforeLease
    <2>3. CASE wk'[w].pc \notin BeforeLease /\ wk[w].job = d
      <3>1. LeaseJob(d, w) /\ \A v \in Worker : v # w => wk'[v] = wk[v]
        BY <1>0, <1>3, <2>3, LeaseMove
      <3>2. job'[d].attempt = job[d].attempt + 1
        BY <1>0, <3>1 DEF LeaseJob, TypeOK, JobRow
      <3>3. Starting(d)' \in SUBSET (Starting(d) \cup {w})
        BY <3>1 DEF Starting
      <3> QED  BY <2>1, <3>2, <3>3, LeaseCounted
    <2> QED  BY <2>2, <2>3
  <1>4. CASE RunWorkspace(w) /\ builds' # builds
    <2>1. /\ wk[w].pc = "workspace" /\ Goto(w, "building")
          /\ builds' = [builds EXCEPT ![wk[w].job] = @ + 1] /\ job' = job
      BY <1>4 DEF RunWorkspace, db
    <2>2. /\ wk'[w].pc = "building"
          /\ \A v \in Worker : v # w => wk'[v] = wk[v]
      BY <1>0, <2>1, GotoMove
    <2>3. w \notin Starting(d)'  BY <2>2 DEF Starting, Starts
    <2>4. builds \in [Deployment -> Nat]  BY <1>0 DEF TypeOK
    <2>5. CASE wk[w].job = d
      <3>1. w \in Starting(d)  BY <2>1, <2>5 DEF Starting, Starts
      <3>2. Starting(d)' \in SUBSET (Starting(d) \ {w})
        BY <2>2, <2>3 DEF Starting
      <3>3. builds'[d] = builds[d] + 1  BY <2>1, <2>4, <2>5
      <3> QED  BY <2>1, <3>1, <3>2, <3>3, StartCounted
    <2>6. CASE wk[w].job # d
      <3>1. builds'[d] = builds[d]  BY <2>1, <2>4, <2>6
      <3>2. \A v \in Worker : v \in Starting(d)' => v \in Starting(d)
        BY <2>2, <2>3 DEF Starting
      <3> QED  BY <3>1, <3>2, NoneStarts
    <2> QED  BY <2>5, <2>6
  <1>5. CASE Middle(w) /\ builds' = builds
    BY <1>0, <1>1, <1>5, MiddleMove DEF Starting, Starts
  <1>6. CASE Ending(w)
    <2>1. builds' = builds
      BY <1>6 DEF Ending, AckAttempt, FailRepublish, FailBuryMark, history
    <2> QED  BY <1>0, <1>1, <1>6, <2>1, EndingMove DEF Starting, Starts
  <1>7. Middle(w) => RunWorkspace(w) \/ builds' = builds
    BY DEF Middle, ClaimRecord, ClaimMark, RunCheck, RunPipeline, RunSucceeded,
           RunFatal, AckJob, FailRead, FailRequeue, FailBury, FailSettle,
           history
  <1> QED
    BY <1>2, <1>3, <1>4, <1>5, <1>6, <1>7, WorkerStepKinds

\* The steps of everybody else leave the workers where they are, or idle.
LEMMA OtherCounts ==
  ASSUME TypeInv, [Next]_vars, ~ \E w \in Worker : WorkerStep(w),
         NEW d \in Deployment
  PROVE  /\ builds' = builds
         /\ \A w \in Worker : w \in Starting(d)' => w \in Starting(d)
  <1>1. ASSUME UNCHANGED <<builds, wk>>
        PROVE  /\ builds' = builds
               /\ \A w \in Worker : w \in Starting(d)' => w \in Starting(d)
    BY <1>1 DEF Starting
  <1>2. ASSUME NEW w \in Worker, WorkerCrash(w)
        PROVE  /\ builds' = builds
               /\ \A v \in Worker : v \in Starting(d)' => v \in Starting(d)
    <2>1. TypeOK /\ EndRun(w) /\ builds' = builds
      BY <1>2 DEF TypeInv, WorkerCrash
    <2>2. wk'[w].pc = "idle" /\ \A v \in Worker : v # w => wk'[v] = wk[v]
      BY <2>1, EndRunMove
    <2> QED  BY <2>1, <2>2 DEF Starting, Starts
  <1>3. ASSUME NEW w \in Worker, Renew(w) PROVE UNCHANGED <<builds, wk>>
    BY <1>3 DEF Renew, history
  <1>4. ASSUME NEW c \in Client, RequestStep(c) \/ RequestCrash(c)
        PROVE  UNCHANGED <<builds, wk>>
    BY <1>4
       DEF RequestStep, RequestCrash, EnqueueInsert, EnqueuePublish,
           EnqueueMark, CancelJob, CancelMark, CancelFinish, history
  <1>5. ASSUME NEW c \in Client, NEW e \in Deployment, NewRequest(c, e)
        PROVE  UNCHANGED <<builds, wk>>
    BY <1>5
       DEF NewRequest, CreateDeployment, RetryDeployment, CancelDeployment,
           history
  <1>6. ASSUME NEW e \in Deployment, LeaseExpires(e)
        PROVE  UNCHANGED <<builds, wk>>
    BY <1>6 DEF LeaseExpires, history
  <1>7. ReaperStep \/ ReaperCrash => UNCHANGED <<builds, wk>>
    BY DEF ReaperStep, ReapScan, ReapRow, ReapPublish, ReapBury, ReaperCrash,
           history
  <1>8. UNCHANGED vars => UNCHANGED <<builds, wk>>  BY DEF vars, history
  <1> QED  BY <1>1, <1>2, <1>3, <1>4, <1>5, <1>6, <1>7, <1>8 DEF Next

\* Every step keeps them counted.
LEMMA NextCountInv == OwnerInv /\ CountInv /\ [Next]_vars => CountInv'
  <1> SUFFICES ASSUME OwnerInv, CountInv, [Next]_vars, NEW d \in Deployment
               PROVE  /\ BuildsCounted(d)'
                      /\ job'[d].status = "none" => job'[d].attempt = 0
    BY DEF CountInv
  <1>1. TypeInv /\ TypeInv' /\ JobEffect /\ BuildsCounted(d)
    BY NextTypeInv, JobEffects DEF OwnerInv, CountInv
  <1>2. /\ job'[d].attempt >= job[d].attempt
        /\ job'[d].status = "none" => job'[d].attempt = 0
    BY <1>1, AttemptGrows
  <1>3. BuildsCounted(d)'
    <2>1. ASSUME NEW w \in Worker, WorkerStep(w) PROVE BuildsCounted(d)'
      BY <1>1, <1>2, <2>1, WorkerCounts
    <2>2. CASE ~ \E w \in Worker : WorkerStep(w)
      BY <1>1, <1>2, <2>2, OtherCounts, NoneStarts
    <2> QED  BY <2>1, <2>2
  <1> QED  BY <1>2, <1>3

\* However often a job is redelivered, requeued, cancelled or lost in a
\* crash, and whoever else is building it, its pipeline is started at most
\* max_attempts times.
THEOREM BuildsAreBounded == Spec => []BuildsBounded
  <1> DEFINE Inv == OwnerInv /\ CountInv
  <1>1. Init => CountInv
    <2> SUFFICES ASSUME Init, NEW d \in Deployment
                 PROVE  BuildsCounted(d) /\ job[d].attempt = 0
      BY DEF CountInv
    <2>1. Starting(d) = {}
      <3>1. \A w \in Worker : wk[w].pc = "idle"  BY DEF Init, IdleWorker
      <3> QED  BY <3>1 DEF Starting, Starts
    <2>2. builds[d] = 0 /\ job[d].attempt = 0  BY DEF Init
    <2> QED  BY <2>1, <2>2, FS_EmptySet DEF BuildsCounted
  <1>2. Init => Inv  BY <1>1, InitOwnerInv
  <1>3. Inv /\ [Next]_vars => Inv'  BY NextOwnerInv, NextCountInv
  <1>4. Inv => BuildsBounded
    <2> SUFFICES ASSUME OwnerInv, CountInv, NEW d \in Deployment
                 PROVE  builds[d] <= MaxAttempts
      BY DEF BuildsBounded
    <2>1. builds[d] \in Nat /\ job[d].attempt \in 0..MaxAttempts
      BY DEF OwnerInv, TypeInv, TypeOK, JobRow
    <2>2. /\ builds[d] + Cardinality(Starting(d)) <= job[d].attempt
          /\ Cardinality(Starting(d)) \in Nat
      BY FS_CardinalityType DEF CountInv, BuildsCounted
    <2> QED  BY <2>1, <2>2, ConstantsAssumption
  <1> HIDE DEF Inv
  <1> QED  BY <1>2, <1>3, <1>4, PTL DEF Spec
=============================================================================
