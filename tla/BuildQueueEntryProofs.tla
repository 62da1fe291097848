------------------------ MODULE BuildQueueEntryProofs ------------------------
(***************************************************************************)
(* The queue as it is deployed, where nobody calls requeue_expired: a job  *)
(* has at most one stream entry, so at most one worker is inside run_once  *)
(* for it, a queued job keeps its entry, and the build_jobs rows implement *)
(* JobLifecycle.                                                           *)
(***************************************************************************)
EXTENDS BuildQueueProofs, SequenceTheorems

\* The reaper never starts.
Idle == reaper.pc = "idle"

QueueInv == OwnerInv /\ Idle /\ EntryInv

-----------------------------------------------------------------------------
(* A lease that is given up, as the entries see it.                        *)

\* The statement that clears a lease keeps the attempt and every other row.
LEMMA ReleaseMove ==
  ASSUME TypeOK, NEW d \in Deployment, NEW s, ReleaseJob(d, s)
  PROVE  /\ job'[d].status = s /\ job'[d].owner = None
         /\ job'[d].attempt = job[d].attempt
         /\ \A e \in Deployment : e # d => job'[e] = job[e]
  BY DEF TypeOK, ReleaseJob, JobRow

-----------------------------------------------------------------------------
(* A job keeps a single entry.                                             *)

\* Entries may be dropped.
LEMMA FewerEntries ==
  ASSUME NEW d \in Deployment, OneEntry(d), UNCHANGED stream,
         \A w \in Worker : Holds(w, d)' => Holds(w, d),
         \A c \in Client : Publishing(c, d)' => Publishing(c, d)
  PROVE  OneEntry(d)'
  BY DEF OneEntry, InStream

\* XREADGROUP: the entry goes from the stream to the worker.
LEMMA EntryRead ==
  ASSUME TypeOK, NEW d \in Deployment, OneEntry(d), NEW w \in Worker,
         NEW s \in Priority, stream[s] # <<>>,
         stream' = [stream EXCEPT ![s] = Tail(@)],
         UNCHANGED req,
         \A v \in Worker : v # w => wk'[v] = wk[v],
         wk'[w].job = Head(stream[s]), ~Holds(w, d)
  PROVE  OneEntry(d)' /\ (InStream(d)' => InStream(d))
         /\ (Holds(w, d)' => InStream(d))
  <1>0. stream \in [Priority -> Seq(Deployment)]  BY DEF TypeOK
  <1> DEFINE t == stream[s]
  <1>1. /\ t \in Seq(Deployment) /\ t # <<>>
        /\ stream'[s] = Tail(t)
        /\ \A p \in Priority : p # s => stream'[p] = stream[p]
    BY <1>0
  <1>2. /\ Len(t) \in Nat /\ Len(t) > 0 /\ Head(t) = t[1]
        /\ Len(stream'[s]) = Len(t) - 1
        /\ \A i \in 1..Len(t) - 1 : stream'[s][i] = t[i + 1]
    <2>1. Len(t) \in Nat \ {0}  BY <1>1, EmptySeq
    <2>2. /\ Len(Tail(t)) = Len(t) - 1
          /\ \A i \in 1..Len(Tail(t)) : Tail(t)[i] = t[i + 1]
      BY <1>1, HeadTailProperties
    <2>3. Head(t) = t[1]  BY <1>1
    <2>4. stream'[s] = Tail(t)  BY <1>1
    <2>5. Len(stream'[s]) = Len(t) - 1  BY <2>2, <2>4
    <2>6. \A i \in 1..Len(t) - 1 : stream'[s][i] = t[i + 1]
      BY <2>2, <2>4, Zenon
    <2>7. Len(t) \in Nat /\ Len(t) > 0  BY <2>1
    <2> QED  BY <2>3, <2>5, <2>6, <2>7
  <1>3. \A p \in Priority : Len(stream[p]) \in Nat  BY <1>0
  <1>4. ASSUME NEW p \in Priority, NEW i \in 1..Len(stream'[p]),
               stream'[p][i] = d
        PROVE  \E k \in 1..Len(stream[p]) :
                 /\ stream[p][k] = d
                 /\ p = s => k = i + 1
                 /\ p # s => k = i
    <2>1. CASE p # s  BY <1>1, <1>4, <2>1
    <2>2. CASE p = s
      <3>1. i \in 1..Len(t) - 1  BY <1>2, <1>4, <2>2
      <3>2. i + 1 \in 1..Len(t) /\ t[i + 1] = d
        BY <1>2, <1>4, <2>2, <3>1
      <3> QED  BY <2>2, <3>2
    <2> QED  BY <2>1, <2>2
  <1>5. InStream(d)' => InStream(d)  BY <1>4 DEF InStream
  <1>6. Holds(w, d)' => Head(t) = d  BY DEF Holds
  <1>7. Head(t) = d => InStream(d)  BY <1>2 DEF InStream
  <1>8. Head(t) = d => ~InStream(d)'
    <2> SUFFICES ASSUME Head(t) = d, InStream(d)' PROVE FALSE
      OBVIOUS
    <2>0. PICK p \in Priority :
            \E i \in 1..Len(stream'[p]) : stream'[p][i] = d
      BY DEF InStream
    <2>1. PICK i \in 1..Len(stream'[p]) : stream'[p][i] = d
      BY <2>0
    <2>2. PICK k \in 1..Len(stream[p]) : /\ stream[p][k] = d
                                         /\ p = s => k = i + 1
      BY <1>4, <2>1
    <2>3. 1 \in 1..Len(t) /\ t[1] = d  BY <1>2
    <2>4. p = s /\ k = 1  BY <2>2, <2>3 DEF OneEntry
    <2>5. i \in Nat /\ i # 0  BY <1>1, <1>2, <2>4
    <2> QED  BY <2>2, <2>4, <2>5
  <1>9. ASSUME NEW p \in Priority, NEW q \in Priority,
               NEW i \in 1..Len(stream'[p]), NEW j \in 1..Len(stream'[q]),
               stream'[p][i] = d, stream'[q][j] = d
        PROVE  p = q /\ i = j
    <2>1. PICK k \in 1..Len(stream[p]) :
            stream[p][k] = d /\ (p = s => k = i + 1) /\ (p # s => k = i)
      BY <1>4, <1>9
    <2>2. PICK l \in 1..Len(stream[q]) :
            stream[q][l] = d /\ (q = s => l = j + 1) /\ (q # s => l = j)
      BY <1>4, <1>9
    <2>3. p = q /\ k = l  BY <2>1, <2>2 DEF OneEntry
    <2>4. i \in Nat /\ j \in Nat
      BY <1>1, <1>2, <1>3
    <2> QED  BY <2>1, <2>2, <2>3, <2>4
  <1>10. \A v \in Worker : v # w => (Holds(v, d)' <=> Holds(v, d))
    BY DEF Holds
  <1>11. \A c \in Client : Publishing(c, d)' <=> Publishing(c, d)
    BY DEF Publishing
  <1>12. Holds(w, d)' => InStream(d)  BY <1>6, <1>7
  <1>13. Holds(w, d)' => ~InStream(d)'  BY <1>6, <1>8
  <1>14. InStream(d) => /\ \A v \in Worker : ~Holds(v, d)
                        /\ \A c \in Client : ~Publishing(c, d)
    BY DEF OneEntry
  <1>15. InStream(d)' => /\ \A v \in Worker : ~Holds(v, d)'
                         /\ \A c \in Client : ~Publishing(c, d)'
    BY <1>5, <1>10, <1>11, <1>13, <1>14
  <1>16. \A u, v \in Worker : Holds(u, d)' /\ Holds(v, d)' => u = v
    BY <1>10, <1>12, <1>14 DEF OneEntry
  <1>17. \A v \in Worker, c \in Client : ~(Holds(v, d)' /\ Publishing(c, d)')
    BY <1>10, <1>11, <1>12, <1>14 DEF OneEntry
  <1>18. \A b, c \in Client : Publishing(b, d)' /\ Publishing(c, d)' => b = c
    BY <1>11 DEF OneEntry
  <1>19. OneEntry(d)'
    BY <1>9, <1>15, <1>16, <1>17, <1>18 DEF OneEntry
  <1> QED  BY <1>5, <1>12, <1>19

\* XADD: what a stream holds afterwards.
LEMMA XAddEntries ==
  ASSUME TypeOK, NEW p \in Priority, NEW d \in Deployment, XAdd(p, d)
  PROVE  /\ Len(stream'[p]) = Len(stream[p]) + 1 /\ Len(stream[p]) \in Nat
         /\ stream'[p][Len(stream[p]) + 1] = d
         /\ \A i \in 1..Len(stream[p]) : stream'[p][i] = stream[p][i]
         /\ \A q \in Priority : q # p => stream'[q] = stream[q]
  <1>0. stream \in [Priority -> Seq(Deployment)]  BY DEF TypeOK
  <1> DEFINE t == stream[p]
  <1>1. /\ t \in Seq(Deployment) /\ stream'[p] = Append(t, d)
        /\ \A q \in Priority : q # p => stream'[q] = stream[q]
    BY <1>0 DEF XAdd
  <1>2. Len(t) \in Nat  BY <1>1
  <1>3. /\ Len(Append(t, d)) = Len(t) + 1
        /\ \A i \in 1..Len(t) : Append(t, d)[i] = t[i]
        /\ Append(t, d)[Len(t) + 1] = d
    BY <1>1, AppendProperties
  <1> HIDE DEF t
  <1>4. /\ Len(stream'[p]) = Len(t) + 1
        /\ stream'[p][Len(t) + 1] = d
        /\ \A i \in 1..Len(t) : stream'[p][i] = t[i]
    BY <1>1, <1>3, Zenon
  <1> QED  BY <1>1, <1>2, <1>4 DEF t

\* XADD adds the entry and drops none.
LEMMA XAddInStream ==
  ASSUME TypeOK, NEW p \in Priority, NEW d \in Deployment, XAdd(p, d)
  PROVE  /\ InStream(d)'
         /\ \A e \in Deployment : InStream(e) => InStream(e)'
         /\ \A e \in Deployment : InStream(e)' => InStream(e) \/ e = d
  <1> DEFINE n == Len(stream[p])
  <1>1. /\ Len(stream'[p]) = n + 1 /\ n \in Nat /\ stream'[p][n + 1] = d
        /\ \A i \in 1..n : stream'[p][i] = stream[p][i]
        /\ \A q \in Priority : q # p => stream'[q] = stream[q]
    BY XAddEntries
  <1>2. n + 1 \in 1..Len(stream'[p])  BY <1>1
  <1>3. InStream(d)'  BY <1>1, <1>2 DEF InStream
  <1>4. ASSUME NEW e \in Deployment, InStream(e) PROVE InStream(e)'
    <2>1. PICK q \in Priority : \E i \in 1..Len(stream[q]) : stream[q][i] = e
      BY <1>4 DEF InStream
    <2>2. PICK i \in 1..Len(stream[q]) : stream[q][i] = e  BY <2>1
    <2>3. i \in 1..Len(stream'[q]) /\ stream'[q][i] = e
      <3>1. CASE q # p  BY <1>1, <2>2, <3>1
      <3>2. CASE q = p  BY <1>1, <2>2, <3>2
      <3> QED  BY <3>1, <3>2
    <2> QED  BY <2>3 DEF InStream
  <1>5. ASSUME NEW e \in Deployment, InStream(e)' PROVE InStream(e) \/ e = d
    <2>1. PICK q \in Priority : \E i \in 1..Len(stream'[q]) : stream'[q][i] = e
      BY <1>5 DEF InStream
    <2>2. PICK i \in 1..Len(stream'[q]) : stream'[q][i] = e  BY <2>1
    <2>3. e = d \/ (i \in 1..Len(stream[q]) /\ stream[q][i] = e)
      <3>1. CASE q # p  BY <1>1, <2>2, <3>1
      <3>2. CASE q = p
        <4>1. i \in 1..n \/ i = n + 1  BY <1>1, <2>2, <3>2
        <4> QED  BY <1>1, <2>2, <3>2, <4>1
      <3> QED  BY <3>1, <3>2
    <2> QED  BY <2>3 DEF InStream
  <1> QED  BY <1>3, <1>4, <1>5

\* The entry of d comes back to a stream from the hands that held it.
LEMMA EntryAdded ==
  ASSUME TypeOK, NEW p \in Priority, NEW d \in Deployment, XAdd(p, d),
         NEW e \in Deployment, OneEntry(e),
         \A w \in Worker : Holds(w, e)' => Holds(w, e),
         \A c \in Client : Publishing(c, e)' => Publishing(c, e),
         e = d => /\ ~InStream(e)
                  /\ \A w \in Worker : ~Holds(w, e)'
                  /\ \A c \in Client : ~Publishing(c, e)'
  PROVE  OneEntry(e)'
  <1> DEFINE n == Len(stream[p])
  <1>1. /\ Len(stream'[p]) = n + 1 /\ n \in Nat /\ stream'[p][n + 1] = d
        /\ \A i \in 1..n : stream'[p][i] = stream[p][i]
        /\ \A q \in Priority : q # p => stream'[q] = stream[q]
    BY XAddEntries
  <1> HIDE DEF n
  <1>2. \A q, r \in Priority :
          \A i \in 1..Len(stream[q]), j \in 1..Len(stream[r]) :
            stream[q][i] = e /\ stream[r][j] = e => q = r /\ i = j
    BY DEF OneEntry
  <1>3. ASSUME NEW q \in Priority, NEW i \in 1..Len(stream'[q]),
               stream'[q][i] = e
        PROVE  \/ i \in 1..Len(stream[q]) /\ stream[q][i] = e
               \/ e = d /\ q = p /\ i = n + 1
    <2>1. CASE q # p  BY <1>1, <1>3, <2>1
    <2>2. CASE q = p
      <3>1. i \in 1..n \/ i = n + 1  BY <1>1, <1>3, <2>2
      <3> QED  BY <1>1, <1>3, <2>2, <3>1 DEF n
    <2> QED  BY <2>1, <2>2
  <1>4. e = d => \A q \in Priority : \A i \in 1..Len(stream[q]) :
                   stream[q][i] # e
    BY DEF InStream
  <1>5. ASSUME NEW q \in Priority, NEW r \in Priority,
               NEW i \in 1..Len(stream'[q]), NEW j \in 1..Len(stream'[r]),
               stream'[q][i] = e, stream'[r][j] = e
        PROVE  q = r /\ i = j
    <2>1. CASE e = d  BY <1>3, <1>4, <1>5, <2>1
    <2>2. CASE e # d  BY <1>2, <1>3, <1>5, <2>2
    <2> QED  BY <2>1, <2>2
  <1>6. InStream(e)' => /\ \A w \in Worker : ~Holds(w, e)'
                        /\ \A c \in Client : ~Publishing(c, e)'
    <2>1. InStream(e)' => InStream(e) \/ e = d  BY XAddInStream
    <2> QED  BY <2>1 DEF OneEntry
  <1>7. /\ \A v, w \in Worker : Holds(v, e)' /\ Holds(w, e)' => v = w
        /\ \A b, c \in Client : Publishing(b, e)' /\ Publishing(c, e)' => b = c
        /\ \A w \in Worker, c \in Client : ~(Holds(w, e)' /\ Publishing(c, e)')
    BY DEF OneEntry
  <1> QED  BY <1>5, <1>6, <1>7 DEF OneEntry

-----------------------------------------------------------------------------
(* EntryInv is preserved by every step.                                    *)

\* A worker that lets go of its entry, or had none.
LEMMA WorkerDrops ==
  ASSUME EntryInv, NEW w \in Worker, UNCHANGED <<stream, job, req>>,
         \A v \in Worker : v # w => wk'[v] = wk[v],
         wk'[w].pc \in {"idle", "read"}
  PROVE  EntryInv'
  <1> SUFFICES ASSUME NEW e \in Deployment PROVE OneEntry(e)' /\ RowKnown(e)'
    BY DEF EntryInv
  <1>0. OneEntry(e) /\ RowKnown(e)  BY DEF EntryInv
  <1>1. \A v \in Worker : Holds(v, e)' => v # w /\ Holds(v, e)  BY DEF Holds
  <1>2. \A c \in Client : Publishing(c, e)' => Publishing(c, e)
    BY DEF Publishing
  <1>3. OneEntry(e)'  BY <1>0, <1>1, <1>2, FewerEntries
  <1>4. InStream(e)' => InStream(e)  BY DEF InStream
  <1>5. \A v \in Worker : Holds(v, e)' => HolderKnows(v, e)'
    <2> SUFFICES ASSUME NEW v \in Worker, Holds(v, e)' PROVE HolderKnows(v, e)'
      OBVIOUS
    <2>1. HolderKnows(v, e) /\ wk'[v] = wk[v]  BY <1>0, <1>1 DEF RowKnown
    <2> QED  BY <2>1 DEF HolderKnows
  <1>6. RowKnown(e)'  BY <1>0, <1>2, <1>4, <1>5 DEF RowKnown
  <1> QED  BY <1>3, <1>6

\* A worker that keeps its entry and may have changed the row.
LEMMA WorkerKeeps ==
  ASSUME EntryInv, NEW w \in Worker, NEW d \in Deployment,
         UNCHANGED <<stream, req>>, Holds(w, d), wk'[w].job = d,
         \A v \in Worker : v # w => wk'[v] = wk[v],
         \A e \in Deployment : e # d => job'[e] = job[e],
         HolderKnows(w, d)',
         job'[d].status = "queued" => job'[d].attempt < MaxAttempts
  PROVE  EntryInv'
  <1> SUFFICES ASSUME NEW e \in Deployment PROVE OneEntry(e)' /\ RowKnown(e)'
    BY DEF EntryInv
  <1>0. OneEntry(e) /\ RowKnown(e)  BY DEF EntryInv
  <1>1. \A v \in Worker : Holds(v, e)' => Holds(v, e)  BY DEF Holds
  <1>2. \A c \in Client : Publishing(c, e)' => Publishing(c, e)
    BY DEF Publishing
  <1>3. OneEntry(e)'  BY <1>0, <1>1, <1>2, FewerEntries
  <1>4. InStream(e)' => InStream(e)  BY DEF InStream
  <1>5. CASE e = d
    <2>1. /\ ~InStream(e) /\ \A c \in Client : ~Publishing(c, e)
          /\ \A v \in Worker : Holds(v, e) => v = w
      BY <1>0, <1>5 DEF OneEntry
    <2>2. \A v \in Worker : Holds(v, e)' => HolderKnows(v, e)'
      BY <1>1, <1>5, <2>1
    <2>3. job'[e].status # "none"  BY <1>5 DEF HolderKnows
    <2> QED  BY <1>2, <1>3, <1>4, <1>5, <2>1, <2>2, <2>3 DEF RowKnown
  <1>6. CASE e # d
    <2>1. job'[e] = job[e]  BY <1>6
    <2>2. \A v \in Worker : Holds(v, e)' => HolderKnows(v, e)'
      <3> SUFFICES ASSUME NEW v \in Worker, Holds(v, e)'
                   PROVE  HolderKnows(v, e)'
        OBVIOUS
      <3>1. v # w  BY <1>6 DEF Holds
      <3>2. HolderKnows(v, e) /\ wk'[v] = wk[v]  BY <1>0, <1>1, <3>1 DEF RowKnown
      <3> QED  BY <2>1, <3>2 DEF HolderKnows
    <2> QED  BY <1>0, <1>2, <1>3, <1>4, <2>1, <2>2 DEF RowKnown
  <1> QED  BY <1>5, <1>6

\* claim moves an entry from a stream to the worker, or drops it.
LEMMA ClaimEntryInv ==
  ASSUME QueueInv, NEW w \in Worker,
         ClaimBegin(w) \/ ClaimRead(w) \/ ClaimLease(w)
  PROVE  EntryInv'
  <1> DEFINE d == wk[w].job
  <1>0. TypeOK /\ EntryInv /\ WorkerLocalsOK(w) /\ wk \in [Worker -> WorkerState]
    BY DEF QueueInv, OwnerInv, TypeInv, TypeOK, LocalsOK
  <1>1. CASE ClaimBegin(w)
    <2>1. wk'[w].pc = "read" /\ \A v \in Worker : v # w => wk'[v] = wk[v]
      BY <1>0, <1>1 DEF ClaimBegin, WorkerState
    <2> QED  BY <1>0, <1>1, <2>1, WorkerDrops DEF ClaimBegin, db
  <1>2. CASE ClaimRead(w)
    <2> DEFINE s == Head(wk[w].streams)
    <2>0. s \in Priority /\ wk[w].pc = "read"
      <3>1. wk[w].pc = "read"  BY <1>2 DEF ClaimRead
      <3>2. wk[w].streams \in Seq(Priority)  BY <1>0 DEF WorkerState
      <3>3. wk[w].streams # <<>>  BY <1>0, <3>1 DEF WorkerLocalsOK
      <3> QED  BY <3>1, <3>2, <3>3
    <2>1. CASE stream[s] = <<>>
      <3>1. NextStream(w) /\ UNCHANGED <<stream, job, req>>
        BY <1>2, <2>1 DEF ClaimRead, db
      <3> QED  BY <1>0, <3>1, NextStreamMove, WorkerDrops
    <2>2. CASE stream[s] # <<>>
      <3>1. /\ wk' = [wk EXCEPT ![w].pc = "lease", ![w].job = Head(stream[s])]
            /\ stream' = [stream EXCEPT ![s] = Tail(@)]
            /\ UNCHANGED <<job, req>>
        BY <1>2, <2>2 DEF ClaimRead, db
      <3>2. /\ wk'[w].pc = "lease" /\ wk'[w].job = Head(stream[s])
            /\ \A v \in Worker : v # w => wk'[v] = wk[v]
        BY <1>0, <3>1 DEF WorkerState
      <3> SUFFICES ASSUME NEW e \in Deployment
                   PROVE  OneEntry(e)' /\ RowKnown(e)'
        BY DEF EntryInv
      <3>3. OneEntry(e) /\ RowKnown(e)  BY <1>0 DEF EntryInv
      <3>4. ~Holds(w, e)  BY <2>0 DEF Holds
      <3>5. /\ OneEntry(e)' /\ (InStream(e)' => InStream(e))
            /\ (Holds(w, e)' => InStream(e))
        BY <1>0, <2>0, <2>2, <3>1, <3>2, <3>3, <3>4, EntryRead
      <3>6. ASSUME NEW v \in Worker, Holds(v, e)' PROVE HolderKnows(v, e)'
        <4>1. CASE v = w
          <5>1. job[e].status \in {"queued", "cancelled"}
            BY <3>3, <3>5, <3>6, <4>1 DEF RowKnown
          <5> QED  BY <3>1, <3>2, <4>1, <5>1 DEF HolderKnows, HoldsQueued
        <4>2. CASE v # w
          <5>1. wk'[v] = wk[v] /\ Holds(v, e)  BY <3>2, <3>6, <4>2 DEF Holds
          <5>2. HolderKnows(v, e)  BY <3>3, <5>1 DEF RowKnown
          <5> QED  BY <3>1, <5>1, <5>2 DEF HolderKnows
        <4> QED  BY <4>1, <4>2
      <3>7. \A c \in Client : Publishing(c, e)' => Publishing(c, e)
        BY <3>1 DEF Publishing
      <3>8. RowKnown(e)'  BY <3>1, <3>3, <3>5, <3>6, <3>7 DEF RowKnown
      <3> QED  BY <3>5, <3>8
    <2> QED  BY <2>1, <2>2
  <1>3. CASE ClaimLease(w)
    <2>0. wk[w].pc = "lease" /\ d \in Deployment /\ Holds(w, d)
      BY <1>0, <1>3 DEF ClaimLease, WorkerLocalsOK, Holds
    <2>1. CASE ~Claimable(d)
      <3>1. NextStream(w) /\ UNCHANGED <<stream, job, req>>
        BY <1>3, <2>1, Zenon DEF ClaimLease, NoRowMatched
      <3> QED  BY <1>0, <3>1, NextStreamMove, WorkerDrops
    <2>2. CASE Claimable(d)
      <3>1. /\ LeasedBy(w, d) /\ UNCHANGED <<stream, req>>
            /\ wk' = [wk EXCEPT ![w].pc = "record",
                                ![w].attempt = job[d].attempt + 1]
        BY <1>3, <2>2, Zenon DEF ClaimLease, LeaseJob, LeasedBy
      <3>2. /\ wk'[w].pc = "record" /\ wk'[w].job = d
            /\ \A v \in Worker : v # w => wk'[v] = wk[v]
        BY <1>0, <3>1 DEF WorkerState
      <3>3. /\ job'[d].status = "running" /\ job'[d].owner = w
            /\ \A e \in Deployment : e # d => job'[e] = job[e]
        BY <1>0, <2>0, <3>1 DEF LeasedBy, TypeOK, JobRow
      <3>4. HolderKnows(w, d)'
        BY <3>2, <3>3 DEF HolderKnows, HoldsRunning
      <3> QED  BY <1>0, <2>0, <3>1, <3>2, <3>3, <3>4, WorkerKeeps
    <2> QED  BY <2>1, <2>2
  <1> QED  BY <1>1, <1>2, <1>3

\* run_once between the lease and its outcome, and the steps that end it.
LEMMA RunEntryInv ==
  ASSUME QueueInv, NEW w \in Worker,
         \/ ClaimRecord(w) \/ ClaimMark(w) \/ RunCheck(w) \/ RunWorkspace(w)
         \/ RunPipeline(w) \/ RunSucceeded(w) \/ RunFatal(w) \/ FailRead(w)
  PROVE  EntryInv'
  <1> DEFINE d == wk[w].job
             PC == HoldsRunning \ {"requeue"}
  <1>0. TypeOK /\ EntryInv /\ WorkerLocalsOK(w) /\ wk \in [Worker -> WorkerState]
    BY DEF QueueInv, OwnerInv, TypeInv, TypeOK, LocalsOK
  <1>1. /\ wk[w].pc \in {"record", "mark", "check", "workspace", "building",
                         "succeeded", "fatal", "failRead"}
        /\ UNCHANGED <<stream, job, req>>
    BY DEF ClaimRecord, ClaimMark, RunCheck, RunWorkspace, RunPipeline,
           RunSucceeded, RunFatal, FailRead, db
  <1>2. wk[w].pc \in PC  BY <1>1 DEF HoldsRunning
  <1>3. d \in Deployment /\ Holds(w, d)
    BY <1>0, <1>1 DEF WorkerLocalsOK, Holds
  <1>4. /\ HolderKnows(w, d)
        /\ job[d].status = "queued" => job[d].attempt < MaxAttempts
    BY <1>0, <1>3 DEF EntryInv, RowKnown
  <1>5. \/ job[d].status = "cancelled"
        \/ job[d].status = "running" /\ job[d].owner = w
    BY <1>2, <1>4 DEF HolderKnows, HoldsRunning, HoldsQueued
  <1>6. /\ \/ wk'[w].pc \in PC
           \/ wk'[w].pc = "requeue" /\ job[d].attempt < MaxAttempts
        /\ wk'[w].job = d
        /\ \A v \in Worker : v # w => wk'[v] = wk[v]
    <2> HIDE DEF PC
    <2>1. CASE \E pc \in PC : Goto(w, pc)
      <3>1. PICK pc \in PC : Goto(w, pc)  BY <2>1
      <3>2. /\ wk'[w].pc = pc /\ wk'[w].job = d
            /\ \A v \in Worker : v # w => wk'[v] = wk[v]
        BY <1>0, <3>1, GotoMove
      <3> QED  BY <3>2, Zenon
    <2>2. CASE \E pc \in PC, b \in BOOLEAN :
                 wk' = [wk EXCEPT ![w].pc = pc, ![w].retryable = b]
      <3>1. PICK pc \in PC, b \in BOOLEAN :
              wk' = [wk EXCEPT ![w].pc = pc, ![w].retryable = b]
        BY <2>2
      <3>2. wk'[w] = [wk[w] EXCEPT !.pc = pc, !.retryable = b]
        BY <1>0, <3>1
      <3>3. wk'[w].pc = pc /\ wk'[w].job = d
        BY <1>0, <3>2 DEF WorkerState
      <3>4. \A v \in Worker : v # w => wk'[v] = wk[v]  BY <1>0, <3>1
      <3> QED  BY <3>3, <3>4, Zenon
    <2>3. CASE Goto(w, "requeue") /\ job[d].attempt < MaxAttempts
      BY <1>0, <2>3, GotoMove
    <2>4. /\ "mark" \in PC /\ "check" \in PC /\ "ack" \in PC
          /\ "workspace" \in PC /\ "building" \in PC /\ "failRead" \in PC
          /\ "succeeded" \in PC /\ "fatal" \in PC /\ "bury" \in PC
      BY DEF HoldsRunning, PC
    <2>5. CASE ClaimRecord(w) \/ ClaimMark(w) \/ RunCheck(w)
      BY <2>1, <2>4, <2>5 DEF ClaimRecord, ClaimMark, RunCheck
    <2>6. CASE RunSucceeded(w) \/ RunFatal(w) \/ FailRead(w)
      BY <2>1, <2>3, <2>4, <2>6 DEF RunSucceeded, RunFatal, FailRead
    <2>7. CASE RunWorkspace(w)
      BY <2>1, <2>2, <2>4, <2>7 DEF RunWorkspace
    <2>8. CASE RunPipeline(w)
      BY <2>1, <2>2, <2>4, <2>8 DEF RunPipeline, PipelineError, Retryable
    <2> QED  BY <2>5, <2>6, <2>7, <2>8
  <1>7. HolderKnows(w, d)'
    BY <1>1, <1>5, <1>6 DEF HolderKnows, HoldsRunning
  <1> QED  BY <1>0, <1>1, <1>3, <1>4, <1>6, <1>7, WorkerKeeps

\* BuildQueue::ack and BuildQueue::fail
LEMMA SettleEntryInv ==
  ASSUME QueueInv, NEW w \in Worker,
         \/ AckJob(w) \/ AckAttempt(w) \/ FailRequeue(w) \/ FailBury(w)
         \/ FailSettle(w) \/ FailRepublish(w) \/ FailBuryMark(w)
  PROVE  EntryInv'
  <1> DEFINE d == wk[w].job
  <1>0. /\ TypeOK /\ EntryInv /\ WorkerLocalsOK(w)
        /\ wk \in [Worker -> WorkerState] /\ OwnedIffRunning
    BY DEF QueueInv, OwnerInv, TypeInv, TypeOK, LocalsOK
  <1>1. /\ wk[w].pc \in {"ack", "ackAttempt", "requeue", "bury", "requeued",
                         "buried", "republish", "buryMark"}
        /\ UNCHANGED req
    BY DEF AckJob, AckAttempt, FailRequeue, FailBury, FailSettle,
           FailRepublish, FailBuryMark
  <1>2. d \in Deployment /\ Holds(w, d)
    BY <1>0, <1>1 DEF WorkerLocalsOK, Holds
  <1>3. /\ HolderKnows(w, d) /\ OneEntry(d)
        /\ job[d].status = "queued" => job[d].attempt < MaxAttempts
    BY <1>0, <1>2 DEF EntryInv, RowKnown
  <1>4. CASE AckAttempt(w) \/ FailBuryMark(w)
    <2>1. EndRun(w) /\ UNCHANGED <<stream, job, req>>
      BY <1>4 DEF AckAttempt, FailBuryMark
    <2> QED  BY <1>0, <2>1, EndRunMove, WorkerDrops
  <1>5. wk[w].pc \in {"ack", "requeue", "bury"} =>
          \/ job[d].status = "cancelled" /\ job[d].owner # w
          \/ /\ job[d].status = "running" /\ job[d].owner = w
             /\ wk[w].pc = "requeue" => job[d].attempt < MaxAttempts
    <2>1. job[d].status = "cancelled" => job[d].owner # w
      BY <1>0, <1>2, ConstantsAssumption DEF OwnedIffRunning
    <2> QED  BY <1>3, <2>1 DEF HolderKnows, HoldsQueued
  <1>6. ASSUME NEW s \in {"completed", "queued", "failed"}, NEW pc,
               \/ s = "completed" /\ pc = "ackAttempt"
               \/ s = "queued" /\ pc = "requeued" /\ job[d].attempt < MaxAttempts
               \/ s = "failed" /\ pc = "buried",
               \/ ReleaseJob(d, s)
               \/ UNCHANGED job /\ job[d].status = "cancelled",
               Goto(w, pc), UNCHANGED stream
        PROVE  EntryInv'
    <2>1. /\ wk'[w].pc = pc /\ wk'[w].job = d
          /\ \A v \in Worker : v # w => wk'[v] = wk[v]
      BY <1>0, <1>6, GotoMove
    <2>2. CASE ReleaseJob(d, s)
      <3>1. /\ job'[d].status = s /\ job'[d].attempt = job[d].attempt
            /\ \A e \in Deployment : e # d => job'[e] = job[e]
        BY <1>0, <1>2, <2>2, ReleaseMove
      <3>2. HolderKnows(w, d)'
        BY <1>6, <2>1, <3>1 DEF HolderKnows, HoldsQueued
      <3> QED  BY <1>0, <1>1, <1>2, <1>6, <2>1, <3>1, <3>2, WorkerKeeps
    <2>3. CASE UNCHANGED job /\ job[d].status = "cancelled"
      <3>1. HolderKnows(w, d)'  BY <2>1, <2>3 DEF HolderKnows
      <3> QED  BY <1>0, <1>1, <1>2, <1>6, <2>1, <2>3, <3>1, WorkerKeeps
    <2> QED  BY <1>6, <2>2, <2>3
  <1>7. CASE AckJob(w)
    BY <1>5, <1>6, <1>7 DEF AckJob, NoRowMatched
  <1>8. CASE FailRequeue(w)
    <2>1. CASE job[d].owner = w
      BY <1>5, <1>6, <1>8, <2>1 DEF FailRequeue
    <2>2. CASE job[d].owner # w
      <3>1. /\ job[d].status = "cancelled" /\ UNCHANGED <<job, stream>>
            /\ Goto(w, "requeued")
        BY <1>5, <1>8, <2>2 DEF FailRequeue, NoRowMatched
      <3>2. /\ wk'[w].pc = "requeued" /\ wk'[w].job = d
            /\ \A v \in Worker : v # w => wk'[v] = wk[v]
        BY <1>0, <3>1, GotoMove
      <3>3. HolderKnows(w, d)'  BY <3>1, <3>2 DEF HolderKnows
      <3> QED  BY <1>0, <1>1, <1>2, <3>1, <3>2, <3>3, WorkerKeeps
    <2> QED  BY <2>1, <2>2
  <1>9. CASE FailBury(w)
    BY <1>5, <1>6, <1>9 DEF FailBury, NoRowMatched
  <1>10. CASE FailSettle(w)
    <2>1. /\ wk'[w].pc = IF wk[w].pc = "requeued" THEN "republish" ELSE "buryMark"
          /\ wk'[w].job = d
          /\ \A v \in Worker : v # w => wk'[v] = wk[v]
          /\ wk[w].pc \in {"requeued", "buried"} /\ UNCHANGED <<job, stream>>
      BY <1>0, <1>10, GotoMove DEF FailSettle
    <2>2. HolderKnows(w, d)'
      BY <1>3, <2>1 DEF HolderKnows, HoldsQueued, HoldsRunning
    <2> QED  BY <1>0, <1>1, <1>2, <1>3, <2>1, <2>2, WorkerKeeps
  <1>11. CASE FailRepublish(w)
    <2> DEFINE p == Head(wk[w].streams)
    <2>1. wk[w].streams \in Seq(Priority) /\ wk[w].streams # <<>>
      BY <1>0, <1>1 DEF WorkerState, WorkerLocalsOK
    <2>2. p \in Priority  BY <2>1
    <2>3. /\ XAdd(p, d) /\ UNCHANGED job /\ wk[w].pc = "republish"
          /\ wk'[w].pc = "idle" /\ \A v \in Worker : v # w => wk'[v] = wk[v]
      BY <1>0, <1>11, EndRunMove DEF FailRepublish, db
    <2>4. job[d].status \in {"queued", "cancelled"}
      BY <1>3, <2>3 DEF HolderKnows, HoldsRunning
    <2> SUFFICES ASSUME NEW e \in Deployment PROVE OneEntry(e)' /\ RowKnown(e)'
      BY DEF EntryInv
    <2>5. OneEntry(e) /\ RowKnown(e)  BY <1>0 DEF EntryInv
    <2>6. \A v \in Worker : Holds(v, e)' => v # w /\ Holds(v, e)
      BY <2>3 DEF Holds
    <2>7. \A c \in Client : Publishing(c, e)' => Publishing(c, e)
      BY <1>1 DEF Publishing
    <2>8. e = d => /\ ~InStream(e)
                   /\ \A v \in Worker : ~Holds(v, e)'
                   /\ \A c \in Client : ~Publishing(c, e)'
      BY <1>2, <1>3, <2>6, <2>7 DEF OneEntry
    <2>9. OneEntry(e)'
      BY <1>0, <1>2, <2>2, <2>3, <2>5, <2>6, <2>7, <2>8, EntryAdded
    <2>10. InStream(e)' => InStream(e) \/ e = d
      BY <1>0, <1>2, <2>2, <2>3, XAddInStream
    <2>11. \A v \in Worker : Holds(v, e)' => HolderKnows(v, e)'
      <3> SUFFICES ASSUME NEW v \in Worker, Holds(v, e)'
                   PROVE  HolderKnows(v, e)'
        OBVIOUS
      <3>1. HolderKnows(v, e) /\ wk'[v] = wk[v]  BY <2>3, <2>5, <2>6 DEF RowKnown
      <3> QED  BY <2>3, <3>1 DEF HolderKnows
    <2>12. RowKnown(e)'
      BY <2>3, <2>4, <2>5, <2>7, <2>10, <2>11 DEF RowKnown
    <2> QED  BY <2>9, <2>12
  <1> QED  BY <1>4, <1>7, <1>8, <1>9, <1>10, <1>11

\* The requests: enqueue mints the entry of a job it has just inserted.
LEMMA RequestEntryInv ==
  ASSUME QueueInv, NEW c \in Client, RequestStep(c)
  PROVE  EntryInv'
  <1> DEFINE d == req[c].job
  <1>0. /\ TypeOK /\ EntryInv /\ req \in [Client -> RequestState]
        /\ req[c].pc # "idle" => d \in Deployment
        /\ req[c].priority \in Priority
    BY DEF QueueInv, OwnerInv, TypeInv, TypeOK, LocalsOK, RequestState
  <1>1. d \in Deployment
    BY <1>0 DEF RequestStep, EnqueueInsert, EnqueuePublish, EnqueueMark,
                CancelJob, CancelMark, CancelFinish
  <1>2. UNCHANGED wk
    BY DEF RequestStep, EnqueueInsert, EnqueuePublish, EnqueueMark,
           CancelJob, CancelMark, CancelFinish
  <1> SUFFICES ASSUME NEW e \in Deployment PROVE OneEntry(e)' /\ RowKnown(e)'
    BY DEF EntryInv
  <1>3. OneEntry(e) /\ RowKnown(e)  BY <1>0 DEF EntryInv
  <1>4. \A w \in Worker : Holds(w, e)' <=> Holds(w, e)  BY <1>2 DEF Holds
  <1>5. ASSUME NEW pc, pc # "publish", GotoReq(c, pc) \/ EndReq(c)
        PROVE  \A b \in Client : Publishing(b, e)' => Publishing(b, e)
    <2>1. \A b \in Client : b # c => req'[b] = req[b]
      BY <1>0, <1>5 DEF GotoReq, EndReq
    <2>2. req'[c].pc # "publish"
      BY <1>0, <1>5 DEF GotoReq, EndReq, IdleRequest, RequestState
    <2> QED  BY <2>1, <2>2 DEF Publishing
  \* Nothing is published and the row of e stays, or is cancelled.
  <1>6. ASSUME UNCHANGED stream,
               \A b \in Client : Publishing(b, e)' => Publishing(b, e),
               job'[e] = job[e] \/ job'[e].status = "cancelled"
        PROVE  OneEntry(e)' /\ RowKnown(e)'
    <2>1. OneEntry(e)'  BY <1>3, <1>4, <1>6, FewerEntries
    <2>2. InStream(e)' => InStream(e)  BY <1>6 DEF InStream
    <2>3. ASSUME NEW w \in Worker, Holds(w, e)' PROVE HolderKnows(w, e)'
      <3>1. HolderKnows(w, e)  BY <1>3, <1>4, <2>3 DEF RowKnown
      <3> QED  BY <1>2, <1>6, <3>1 DEF HolderKnows
    <2>4. RowKnown(e)'
      <3>1. CASE job'[e] = job[e]
        BY <1>3, <1>6, <2>2, <2>3, <3>1 DEF RowKnown
      <3>2. CASE job'[e].status = "cancelled"
        BY <2>3, <3>2 DEF RowKnown
      <3> QED  BY <1>6, <3>1, <3>2
    <2> QED  BY <2>1, <2>4
  <1>7. CASE EnqueueMark(c) \/ CancelMark(c) \/ CancelFinish(c)
    BY <1>5, <1>6, <1>7 DEF EnqueueMark, CancelMark, CancelFinish
  <1>8. CASE CancelJob(c)
    <2>1. \/ UNCHANGED job \/ ReleaseJob(d, "cancelled")
      BY <1>8 DEF CancelJob, NoRowMatched
    <2>2. job'[e] = job[e] \/ job'[e].status = "cancelled"
      BY <1>0, <1>1, <2>1, ReleaseMove
    <2>3. /\ UNCHANGED stream
          /\ GotoReq(c, "cancelMark") \/ GotoReq(c, "cancelDeployment")
      BY <1>8 DEF CancelJob
    <2> QED  BY <1>5, <1>6, <2>2, <2>3
  <1>9. CASE EnqueueInsert(c)
    <2>1. CASE job[d].status # "none"
      BY <1>5, <1>6, <1>9, <2>1 DEF EnqueueInsert
    <2>2. CASE job[d].status = "none"
      <3>1. /\ InsertJob(d, req[c].priority) /\ GotoReq(c, "publish")
            /\ UNCHANGED stream
        BY <1>9, <2>2 DEF EnqueueInsert
      <3>2. \A f \in Deployment : f # d => job'[f] = job[f]
        BY <1>0, <3>1 DEF InsertJob, TypeOK
      <3>3. /\ \A b \in Client : b # c => req'[b] = req[b]
            /\ req'[c].pc = "publish" /\ req'[c].job = d
        BY <1>0, <3>1 DEF GotoReq, RequestState
      <3>4. CASE e # d
        <4>1. \A b \in Client : Publishing(b, e)' => Publishing(b, e)
          BY <3>3, <3>4 DEF Publishing
        <4> QED  BY <1>6, <3>1, <3>2, <3>4, <4>1
      <3>5. CASE e = d
        <4>1. job'[e].status = "queued" /\ job'[e].attempt = 0
          BY <1>0, <1>1, <3>1, <3>5 DEF InsertJob, TypeOK, JobRow
        <4>2. ~InStream(e) /\ \A b \in Client : ~Publishing(b, e)
          BY <1>3, <2>2, <3>5 DEF RowKnown
        <4>3. \A w \in Worker : ~Holds(w, e)
          BY <1>3, <2>2, <3>5 DEF RowKnown, HolderKnows
        <4>4. \A b \in Client : Publishing(b, e)' => b = c
          BY <3>3, <4>2 DEF Publishing
        <4>5. ~InStream(e)'  BY <3>1, <4>2 DEF InStream
        <4>6. \A p \in Priority : \A i \in 1..Len(stream'[p]) :
                stream'[p][i] # e
          BY <4>5 DEF InStream
        <4>7. \A w \in Worker : ~Holds(w, e)'  BY <1>4, <4>3
        <4>8. OneEntry(e)'  BY <4>4, <4>5, <4>6, <4>7 DEF OneEntry
        <4>9. RowKnown(e)'
          BY <4>1, <4>5, <4>7, ConstantsAssumption DEF RowKnown
        <4> QED  BY <4>8, <4>9
      <3> QED  BY <3>4, <3>5
    <2> QED  BY <2>1, <2>2
  <1>10. CASE EnqueuePublish(c)
    <2> DEFINE p == req[c].priority
    <2>1. /\ XAdd(p, d) /\ UNCHANGED job /\ GotoReq(c, "markQueued")
          /\ Publishing(c, d)
      BY <1>10 DEF EnqueuePublish, db, Publishing
    <2>2. \A b \in Client : Publishing(b, e)' => b # c /\ Publishing(b, e)
      <3>1. \A b \in Client : Publishing(b, e)' => Publishing(b, e)
        BY <1>5, <2>1
      <3>2. req'[c].pc = "markQueued"  BY <1>0, <2>1 DEF GotoReq, RequestState
      <3> QED  BY <3>1, <3>2 DEF Publishing
    <2>3. e = d => /\ ~InStream(e)
                   /\ \A w \in Worker : ~Holds(w, e)'
                   /\ \A b \in Client : ~Publishing(b, e)'
      BY <1>3, <1>4, <2>1, <2>2 DEF OneEntry
    <2>4. OneEntry(e)'
      BY <1>0, <1>1, <1>3, <1>4, <2>1, <2>2, <2>3, EntryAdded
    <2>5. InStream(e)' => InStream(e) \/ e = d
      BY <1>0, <1>1, <2>1, XAddInStream
    <2>6. e = d => job[e].status \in {"queued", "cancelled"}
      BY <1>3, <2>1 DEF RowKnown
    <2>7. ASSUME NEW w \in Worker, Holds(w, e)' PROVE HolderKnows(w, e)'
      <3>1. HolderKnows(w, e)  BY <1>3, <1>4, <2>7 DEF RowKnown
      <3> QED  BY <1>2, <2>1, <3>1 DEF HolderKnows
    <2>8. RowKnown(e)'
      BY <1>3, <2>1, <2>2, <2>5, <2>6, <2>7 DEF RowKnown
    <2> QED  BY <2>4, <2>8
  <1> QED  BY <1>7, <1>8, <1>9, <1>10 DEF RequestStep

\* Steps that leave jobs, streams and workers alone and publish nothing.
LEMMA OtherEntryInv ==
  ASSUME QueueInv, UNCHANGED <<stream, job, wk>>,
         \A c \in Client : req'[c] = req[c] \/ req'[c].pc # "publish"
  PROVE  EntryInv'
  <1> SUFFICES ASSUME NEW e \in Deployment PROVE OneEntry(e)' /\ RowKnown(e)'
    BY DEF EntryInv
  <1>1. OneEntry(e) /\ RowKnown(e)  BY DEF EntryInv, QueueInv
  <1>2. \A w \in Worker : Holds(w, e)' <=> Holds(w, e)  BY DEF Holds
  <1>3. \A c \in Client : Publishing(c, e)' => Publishing(c, e)
    BY DEF Publishing
  <1>4. OneEntry(e)'  BY <1>1, <1>2, <1>3, FewerEntries
  <1>5. InStream(e)' => InStream(e)  BY DEF InStream
  <1>6. \A w \in Worker : HolderKnows(w, e)' <=> HolderKnows(w, e)
    BY DEF HolderKnows
  <1>7. RowKnown(e)'  BY <1>1, <1>2, <1>3, <1>5, <1>6 DEF RowKnown
  <1> QED  BY <1>4, <1>7

\* There are no entries in the beginning.
LEMMA InitQueueInv == Init => QueueInv
  <1> SUFFICES ASSUME Init PROVE Idle /\ EntryInv
    BY InitOwnerInv DEF QueueInv
  <1>1. Idle  BY DEF Init, Idle, IdleReaper
  <1>2. ASSUME NEW d \in Deployment
        PROVE  /\ job[d].status = "none" /\ job[d].attempt = 0
               /\ \A w \in Worker : ~Holds(w, d)
               /\ \A c \in Client : ~Publishing(c, d)
               /\ ~InStream(d)
    <2> DEFINE row == [status |-> "none", attempt |-> 0, owner |-> None,
                       priority |-> "production"]
    <2>1. job[d] = row  BY DEF Init
    <2>2. row.status = "none" /\ row.attempt = 0  OBVIOUS
    <2>3. \A w \in Worker : wk[w].pc = "idle"  BY DEF Init, IdleWorker
    <2>4. \A c \in Client : req[c].pc = "idle"  BY DEF Init, IdleRequest
    <2>5. \A p \in Priority : Len(stream[p]) = 0  BY DEF Init
    <2> QED  BY <2>1, <2>2, <2>3, <2>4, <2>5 DEF Holds, Publishing, InStream
  <1>3. ASSUME NEW d \in Deployment PROVE OneEntry(d) /\ RowKnown(d)
    <2>1. \A p \in Priority : \A i \in 1..Len(stream[p]) : stream[p][i] # d
      BY <1>2 DEF InStream
    <2> QED  BY <1>2, <2>1, ConstantsAssumption DEF OneEntry, RowKnown
  <1> QED  BY <1>1, <1>3 DEF EntryInv

\* Every step keeps a job's entry single and its row known.
LEMMA NextQueueInv ==
  ASSUME ReaperRuns = FALSE, QueueInv, [Next]_vars
  PROVE  QueueInv'
  <1>1. OwnerInv'  BY NextOwnerInv DEF QueueInv
  <1>2. ~ReaperStep /\ ~ReaperCrash
    BY DEF QueueInv, Idle, ReaperStep, ReapScan, ReapRow, ReapPublish,
           ReapBury, ReaperCrash
  <1>3. ASSUME NEW w \in Worker, WorkerStep(w) PROVE EntryInv' /\ UNCHANGED reaper
    <2>1. EntryInv'
      BY <1>3, ClaimEntryInv, RunEntryInv, SettleEntryInv DEF WorkerStep
    <2>2. UNCHANGED reaper
      BY <1>3 DEF WorkerStep, ClaimBegin, ClaimRead, ClaimLease, ClaimRecord,
         ClaimMark, RunCheck, RunWorkspace, RunPipeline, RunSucceeded, RunFatal,
         AckJob, AckAttempt, FailRead, FailRequeue, FailBury, FailSettle,
         FailRepublish, FailBuryMark
    <2> QED  BY <2>1, <2>2
  <1>4. ASSUME NEW w \in Worker, WorkerCrash(w)
        PROVE  EntryInv' /\ UNCHANGED reaper
    <2>1. /\ EndRun(w) /\ UNCHANGED <<stream, job, req>> /\ UNCHANGED reaper
          /\ TypeOK /\ EntryInv
      BY <1>4 DEF WorkerCrash, db, QueueInv, OwnerInv, TypeInv
    <2> QED  BY <2>1, EndRunMove, WorkerDrops
  <1>5. ASSUME NEW c \in Client, RequestStep(c)
        PROVE  EntryInv' /\ UNCHANGED reaper
    <2>1. UNCHANGED reaper
      BY <1>5 DEF RequestStep, EnqueueInsert, EnqueuePublish, EnqueueMark,
         CancelJob, CancelMark, CancelFinish
    <2> QED  BY <1>5, <2>1, RequestEntryInv
  <1>6. ASSUME NEW c \in Client,
               RequestCrash(c) \/ \E d \in Deployment : NewRequest(c, d)
        PROVE  EntryInv' /\ UNCHANGED reaper
    <2>1. req \in [Client -> RequestState]
      BY DEF QueueInv, OwnerInv, TypeInv, TypeOK
    <2>2. UNCHANGED <<stream, job, wk>> /\ UNCHANGED reaper
      BY <1>6 DEF RequestCrash, NewRequest, CreateDeployment, RetryDeployment,
         CancelDeployment, db
    <2>3. \A b \in Client : req'[b] = req[b] \/ req'[b].pc # "publish"
      BY <1>6, <2>1
         DEF RequestCrash, EndReq, IdleRequest, NewRequest, CreateDeployment,
             RetryDeployment, CancelDeployment, StartRequest
    <2> QED  BY <2>2, <2>3, OtherEntryInv
  <1>7. ASSUME UNCHANGED <<stream, job, wk, req, reaper>>
        PROVE  EntryInv' /\ UNCHANGED reaper
    BY <1>7, OtherEntryInv
  <1>8. EntryInv' /\ UNCHANGED reaper
    <2>1. \/ \E w \in Worker : WorkerStep(w) \/ WorkerCrash(w)
          \/ \E c \in Client : RequestStep(c)
          \/ \E c \in Client :
               RequestCrash(c) \/ \E d \in Deployment : NewRequest(c, d)
          \/ UNCHANGED <<stream, job, wk, req, reaper>>
      BY <1>2 DEF Next, Renew, LeaseExpires, vars, db
    <2> QED  BY <1>3, <1>4, <1>5, <1>6, <1>7, <2>1
  <1> QED  BY <1>1, <1>8 DEF QueueInv, Idle

\* Where nobody calls requeue_expired, no two workers are ever inside run_once
\* for the same job, however operations interleave and crash.
THEOREM OneWorker == ReaperRuns = FALSE => (Spec => []OneWorkerPerJob)
  <1> SUFFICES ASSUME ReaperRuns = FALSE PROVE Spec => []OneWorkerPerJob
    OBVIOUS
  <1>1. QueueInv => OneWorkerPerJob
    <2>1. ASSUME NEW d \in Deployment, NEW w \in Worker, OnJob(w, d)
          PROVE  Holds(w, d)
      BY <2>1 DEF OnJob, Holds
    <2> QED  BY <2>1 DEF QueueInv, EntryInv, OneEntry, OneWorkerPerJob
  <1>2. QueueInv /\ [Next]_vars => QueueInv'  BY NextQueueInv
  <1> QED  BY <1>1, <1>2, InitQueueInv, PTL DEF Spec

-----------------------------------------------------------------------------
(* The refinement: every step is a step of JobLifecycle or changes no row. *)

\* Every step of the queue is a step of JobLifecycle, or none.
LEMMA LifecycleStep ==
  ASSUME ReaperRuns = FALSE, QueueInv, QueueInv', [Next]_vars
  PROVE  [Lifecycle!Next]_(Lifecycle!vars)
  <1> DEFINE status == [d \in Deployment |-> job[d].status]
             tries  == [d \in Deployment |-> job[d].attempt]
             lease  == [d \in Deployment |-> job[d].owner]
  <1>0. /\ job \in [Deployment -> JobRow] /\ job' \in [Deployment -> JobRow]
        /\ JobEffect
    BY JobEffects DEF QueueInv, OwnerInv, TypeInv, TypeOK
  <1>1. CASE UNCHANGED job
    BY <1>1 DEF Lifecycle!vars
  \* A row whose lease ends.
  <1>2. ASSUME NEW d \in Deployment, NEW s, Released(d, s)
        PROVE  Lifecycle!Release(d, s)
    <2>1. /\ job'[d].status = s /\ job'[d].owner = None
          /\ job'[d].attempt = job[d].attempt
          /\ \A e \in Deployment : e # d => job'[e] = job[e]
      BY <1>0, <1>2 DEF Released, JobRow
    <2>2. status' = [status EXCEPT ![d] = s]  BY <2>1
    <2>3. lease' = [lease EXCEPT ![d] = None]  BY <2>1
    <2>4. tries' = tries  BY <2>1
    <2> QED  BY <2>2, <2>3, <2>4 DEF Lifecycle!Release
  <1>3. ASSUME NEW d \in Deployment, NEW p \in Priority,
               job[d].status = "none", InsertJob(d, p)
        PROVE  Lifecycle!Next
    <2>1. /\ job'[d].status = "queued" /\ job'[d].owner = None
          /\ job'[d].attempt = 0
          /\ \A e \in Deployment : e # d => job'[e] = job[e]
      BY <1>0, <1>3 DEF InsertJob, JobRow
    <2>2. job[d].attempt = 0
      BY <1>3 DEF QueueInv, EntryInv, RowKnown
    <2>3. status' = [status EXCEPT ![d] = "queued"]  BY <2>1
    <2>4. lease' = [lease EXCEPT ![d] = None]  BY <2>1
    <2>5. tries' = tries  BY <2>1, <2>2
    <2>6. status[d] = "none"  BY <1>3
    <2> QED  BY <2>3, <2>4, <2>5, <2>6
                DEF Lifecycle!Next, Lifecycle!Enqueue, Lifecycle!Release
  <1>4. ASSUME NEW d \in Deployment, NEW w \in Worker, wk[w].pc = "lease",
               wk[w].job = d, Claimable(d), LeasedBy(w, d)
        PROVE  Lifecycle!Next
    <2>1. Holds(w, d)  BY <1>4 DEF Holds
    <2>2. HolderKnows(w, d)  BY <2>1 DEF QueueInv, EntryInv, RowKnown
    <2>3. job[d].status = "queued" /\ job[d].attempt < MaxAttempts
      BY <1>4, <2>2 DEF HolderKnows, HoldsQueued, HoldsRunning, Claimable
    <2>4. /\ job'[d].status = "running" /\ job'[d].owner = w
          /\ job'[d].attempt = job[d].attempt + 1
          /\ \A e \in Deployment : e # d => job'[e] = job[e]
      BY <1>0, <1>4 DEF LeasedBy, JobRow
    <2>5. status' = [status EXCEPT ![d] = "running"]  BY <2>4
    <2>6. lease' = [lease EXCEPT ![d] = w]  BY <2>4
    <2>7. tries' = [tries EXCEPT ![d] = @ + 1]  BY <2>4
    <2>8. Lifecycle!Claim(d, w)
      BY <2>3, <2>5, <2>6, <2>7 DEF Lifecycle!Claim
    <2> QED  BY <2>8 DEF Lifecycle!Next
  <1>5. ASSUME NEW d \in Deployment, job[d].status \in Open,
               Released(d, "cancelled")
        PROVE  Lifecycle!Next
    BY <1>2, <1>5 DEF Lifecycle!Next, Lifecycle!Cancel, Open
  <1>6. ASSUME NEW d \in Deployment, NEW s \in {"queued", "completed", "failed"},
               job[d].status = "running", Released(d, s)
        PROVE  Lifecycle!Next
    <2>1. Lifecycle!Release(d, s) /\ status[d] = "running"  BY <1>2, <1>6
    <2>2. s = "queued" => tries[d] < MaxAttempts
      <3>1. job'[d].status = s /\ job'[d].attempt = job[d].attempt
        BY <1>0, <1>6 DEF Released, JobRow
      <3>2. RowKnown(d)'  BY DEF QueueInv, EntryInv
      <3> QED  BY <3>1, <3>2 DEF RowKnown
    <2> QED  BY <2>1, <2>2 DEF Lifecycle!Next, Lifecycle!Complete,
                               Lifecycle!GiveBack, Lifecycle!GiveUp
  <1> QED  BY <1>0, <1>1, <1>3, <1>4, <1>5, <1>6 DEF JobEffect

\* Where nobody calls requeue_expired, the queue's tables implement the life
\* of a job: in particular a failed job is never claimed again and a job only
\* goes back to the queue with attempts left.
THEOREM QueueImplementsLifecycle ==
  ReaperRuns = FALSE => (Spec => ImplementsLifecycle)
  <1> SUFFICES ASSUME ReaperRuns = FALSE PROVE Spec => Lifecycle!Spec
    BY DEF ImplementsLifecycle
  <1>1. Init => Lifecycle!Init
    BY DEF Init, Lifecycle!Init
  <1>2. QueueInv /\ [Next]_vars => QueueInv'  BY NextQueueInv
  <1>3. QueueInv /\ QueueInv' /\ [Next]_vars => [Lifecycle!Next]_(Lifecycle!vars)
    BY LifecycleStep
  <1> QED  BY <1>1, <1>2, <1>3, InitQueueInv, PTL DEF Spec, Lifecycle!Spec

-----------------------------------------------------------------------------
(* No queued job loses its entry while nothing is interrupted.             *)

Found(d) ==
  \/ InStream(d)
  \/ \E c \in Client : Publishing(c, d)
  \/ \E w \in Worker : wk[w].pc \in HoldsQueued /\ wk[w].job = d

FoundInv == crashes = 0 =>
  \A d \in Deployment : job[d].status = "queued" => Found(d)

\* The invariant below is the property, in other words.
LEMMA FoundIsTheProperty == FoundInv <=> QueuedJobHasEntry
  <1>1. \A d \in Deployment : Found(d) <=>
          \/ InStream(d)
          \/ \E c \in Client : req[c].pc = "publish" /\ req[c].job = d
          \/ \E w \in Worker : /\ wk[w].pc \in {"lease", "requeued", "republish"}
                                /\ wk[w].job = d
    BY DEF Found, Publishing, HoldsQueued
  <1> QED  BY <1>1 DEF FoundInv, QueuedJobHasEntry

\* What a worker that moves cannot lose: everything but its own entry.
LEMMA OthersFound ==
  ASSUME NEW w \in Worker, NEW e \in Deployment, Found(e), UNCHANGED req,
         \A v \in Worker : v # w => wk'[v] = wk[v],
         InStream(e) => InStream(e)',
         ~(wk[w].pc \in HoldsQueued /\ wk[w].job = e)
  PROVE  Found(e)'
  <1>1. CASE InStream(e)  BY <1>1 DEF Found
  <1>2. CASE \E c \in Client : Publishing(c, e)
    BY <1>2 DEF Found, Publishing
  <1>3. CASE \E v \in Worker : wk[v].pc \in HoldsQueued /\ wk[v].job = e
    BY <1>3 DEF Found
  <1> QED  BY <1>1, <1>2, <1>3 DEF Found

\* XREADGROUP takes one entry out of the stream.
LEMMA TailInStream ==
  ASSUME TypeOK, NEW s \in Priority, stream[s] # <<>>,
         stream' = [stream EXCEPT ![s] = Tail(@)],
         NEW e \in Deployment, e # Head(stream[s]), InStream(e)
  PROVE  InStream(e)'
  <1>0. stream \in [Priority -> Seq(Deployment)]  BY DEF TypeOK
  <1> DEFINE t == stream[s]
  <1>1. /\ t \in Seq(Deployment) /\ t # <<>>
        /\ stream'[s] = Tail(t)
        /\ \A p \in Priority : p # s => stream'[p] = stream[p]
    BY <1>0
  <1>2. Len(t) \in Nat \ {0} /\ Head(t) = t[1]  BY <1>1, EmptySeq
  <1>3. /\ Len(Tail(t)) = Len(t) - 1
        /\ \A i \in 1..Len(Tail(t)) : Tail(t)[i] = t[i + 1]
    BY <1>1, HeadTailProperties
  <1>4. PICK p \in Priority : \E i \in 1..Len(stream[p]) : stream[p][i] = e
    BY DEF InStream
  <1>5. PICK i \in 1..Len(stream[p]) : stream[p][i] = e  BY <1>4
  <1>6. CASE p # s
    <2>1. stream'[p] = stream[p]  BY <1>1, <1>6
    <2> QED  BY <1>5, <2>1 DEF InStream
  <1>7. CASE p = s
    <2>1. i # 1 /\ i \in 1..Len(t)  BY <1>2, <1>5, <1>7
    <2>2. i - 1 \in 1..Len(Tail(t)) /\ (i - 1) + 1 = i  BY <1>2, <1>3, <2>1
    <2>3. Tail(t)[i - 1] = t[(i - 1) + 1]  BY <1>3, <2>2
    <2>4. Tail(t)[i - 1] = e  BY <1>5, <1>7, <2>2, <2>3
    <2>5. \E j \in 1..Len(Tail(t)) : Tail(t)[j] = e  BY <2>2, <2>4
    <2>6. \E j \in 1..Len(stream'[s]) : stream'[s][j] = e
      BY <1>1, <2>5, Zenon
    <2> QED  BY <2>6 DEF InStream
  <1> QED  BY <1>6, <1>7

\* claim drops the entry of a job only when the job is not queued.
LEMMA ClaimFound ==
  ASSUME QueueInv, NEW w \in Worker, NEW e \in Deployment,
         ClaimRead(w) \/ ClaimLease(w),
         job[e].status = "queued" => Found(e), job'[e].status = "queued"
  PROVE  Found(e)'
  <1> DEFINE d == wk[w].job
  <1>0. TypeOK /\ EntryInv /\ WorkerLocalsOK(w) /\ wk \in [Worker -> WorkerState]
    BY DEF QueueInv, OwnerInv, TypeInv, TypeOK, LocalsOK
  <1>1. CASE ClaimRead(w)
    <2> DEFINE s == Head(wk[w].streams)
    <2>0. s \in Priority /\ wk[w].pc = "read"
      <3>1. wk[w].pc = "read"  BY <1>1 DEF ClaimRead
      <3>2. wk[w].streams \in Seq(Priority)  BY <1>0 DEF WorkerState
      <3>3. wk[w].streams # <<>>  BY <1>0, <3>1 DEF WorkerLocalsOK
      <3> QED  BY <3>1, <3>2, <3>3
    <2>1. /\ Found(e) /\ UNCHANGED req
          /\ ~(wk[w].pc \in HoldsQueued /\ wk[w].job = e)
      BY <1>1, <2>0 DEF ClaimRead, db, HoldsQueued
    <2>2. CASE stream[s] = <<>>
      <3>1. NextStream(w) /\ UNCHANGED stream  BY <1>1, <2>2 DEF ClaimRead
      <3>2. InStream(e) => InStream(e)'  BY <3>1 DEF InStream
      <3> QED  BY <1>0, <2>1, <3>1, <3>2, NextStreamMove, OthersFound
    <2>3. CASE stream[s] # <<>>
      <3>1. /\ wk' = [wk EXCEPT ![w].pc = "lease", ![w].job = Head(stream[s])]
            /\ stream' = [stream EXCEPT ![s] = Tail(@)]
        BY <1>1, <2>3 DEF ClaimRead
      <3>2. /\ wk'[w].pc = "lease" /\ wk'[w].job = Head(stream[s])
            /\ \A v \in Worker : v # w => wk'[v] = wk[v]
        BY <1>0, <3>1 DEF WorkerState
      <3>3. CASE e = Head(stream[s])
        BY <3>2, <3>3 DEF Found, HoldsQueued
      <3>4. CASE e # Head(stream[s])
        <4>1. InStream(e) => InStream(e)'
          BY <1>0, <2>0, <2>3, <3>1, <3>4, TailInStream
        <4> QED  BY <2>1, <3>2, <4>1, OthersFound
      <3> QED  BY <3>3, <3>4
    <2> QED  BY <2>2, <2>3
  <1>2. CASE ClaimLease(w)
    <2>0. /\ wk[w].pc = "lease" /\ d \in Deployment /\ Holds(w, d)
          /\ UNCHANGED <<stream, req>>
      BY <1>0, <1>2 DEF ClaimLease, WorkerLocalsOK, Holds
    <2>1. InStream(e) => InStream(e)'  BY <2>0 DEF InStream
    <2>2. CASE ~Claimable(d)
      <3>1. NextStream(w) /\ UNCHANGED job
        BY <1>2, <2>2, Zenon DEF ClaimLease, NoRowMatched
      <3>2. RowKnown(d)  BY <1>0, <2>0 DEF EntryInv
      <3>3. job[d].status # "queued"  BY <2>2, <3>2 DEF RowKnown, Claimable
      <3>4. e # d /\ Found(e)  BY <3>1, <3>3
      <3> QED  BY <1>0, <2>0, <2>1, <3>1, <3>4, NextStreamMove, OthersFound
    <2>3. CASE Claimable(d)
      <3>1. /\ LeasedBy(w, d)
            /\ wk' = [wk EXCEPT ![w].pc = "record",
                                ![w].attempt = job[d].attempt + 1]
        BY <1>2, <2>3, Zenon DEF ClaimLease, LeaseJob, LeasedBy
      <3>2. \A v \in Worker : v # w => wk'[v] = wk[v]  BY <1>0, <3>1
      <3>3. /\ job'[d].status = "running"
            /\ \A f \in Deployment : f # d => job'[f] = job[f]
        BY <1>0, <2>0, <3>1 DEF LeasedBy, TypeOK, JobRow
      <3>4. e # d /\ Found(e)  BY <3>3
      <3> QED  BY <2>0, <2>1, <3>2, <3>4, OthersFound
    <2> QED  BY <2>2, <2>3
  <1> QED  BY <1>1, <1>2

\* The rest of run_once requeues a job only to publish it.
LEMMA RunFound ==
  ASSUME QueueInv, NEW w \in Worker, NEW e \in Deployment, WorkerStep(w),
         ~ClaimRead(w), ~ClaimLease(w),
         job[e].status = "queued" => Found(e), job'[e].status = "queued"
  PROVE  Found(e)'
  <1> DEFINE d == wk[w].job
  <1>0. TypeOK /\ EntryInv /\ WorkerLocalsOK(w) /\ wk \in [Worker -> WorkerState]
    BY DEF QueueInv, OwnerInv, TypeInv, TypeOK, LocalsOK
  <1>1. UNCHANGED req
    BY DEF WorkerStep, ClaimBegin, ClaimRecord, ClaimMark, RunCheck,
           RunWorkspace, RunPipeline, RunSucceeded, RunFatal, AckJob,
           AckAttempt, FailRead, FailRequeue, FailBury, FailSettle,
           FailRepublish, FailBuryMark
  \* A worker that holds no queued job and leaves rows and streams alone.
  <1>2. ASSUME wk[w].pc \notin HoldsQueued, UNCHANGED stream,
               job[e].status = "queued",
               \A v \in Worker : v # w => wk'[v] = wk[v]
        PROVE  Found(e)'
    <2>1. InStream(e) => InStream(e)'  BY <1>2 DEF InStream
    <2> QED  BY <1>1, <1>2, <2>1, OthersFound
  <1>3. CASE ClaimBegin(w) \/ ClaimRecord(w) \/ ClaimMark(w) \/ RunCheck(w)
    <2>1. wk[w].pc \notin HoldsQueued /\ UNCHANGED <<stream, job>>
      BY <1>3 DEF ClaimBegin, ClaimRecord, ClaimMark, RunCheck, HoldsQueued, db
    <2>2. \A v \in Worker : v # w => wk'[v] = wk[v]
      BY <1>0, <1>3 DEF ClaimBegin, ClaimRecord, ClaimMark, RunCheck, Goto
    <2> QED  BY <1>2, <2>1, <2>2
  <1>4. CASE \/ RunWorkspace(w) \/ RunPipeline(w) \/ RunSucceeded(w)
             \/ RunFatal(w) \/ FailRead(w)
    <2>1. wk[w].pc \notin HoldsQueued /\ UNCHANGED <<stream, job>>
      BY <1>4 DEF RunWorkspace, RunPipeline, RunSucceeded, RunFatal, FailRead,
         HoldsQueued, db
    <2>2. \A v \in Worker : v # w => wk'[v] = wk[v]
      BY <1>0, <1>4 DEF RunWorkspace, RunPipeline, RunSucceeded, RunFatal,
         FailRead, Goto
    <2> QED  BY <1>2, <2>1, <2>2
  <1>5. CASE AckAttempt(w) \/ FailBuryMark(w)
    <2>1. wk[w].pc \notin HoldsQueued /\ UNCHANGED <<stream, job>> /\ EndRun(w)
      BY <1>5 DEF AckAttempt, FailBuryMark, HoldsQueued
    <2> QED  BY <1>0, <1>2, <2>1, EndRunMove
  <1>6. CASE AckJob(w) \/ FailBury(w)
    <2>1. /\ wk[w].pc \in {"ack", "bury"} /\ UNCHANGED stream
          /\ \E s \in {"completed", "failed"} :
                ReleaseJob(d, s) \/ UNCHANGED job
          /\ Goto(w, "ackAttempt") \/ Goto(w, "buried")
      BY <1>6 DEF AckJob, FailBury, NoRowMatched
    <2>2. wk[w].pc \notin HoldsQueued /\ d \in Deployment
      BY <1>0, <2>1 DEF HoldsQueued, WorkerLocalsOK
    <2>3. job[e].status = "queued"
      BY <1>0, <2>1, <2>2, ReleaseMove
    <2> QED  BY <1>0, <1>2, <2>1, <2>2, <2>3, GotoMove
  <1>7. CASE FailRequeue(w)
    <2>1. /\ wk[w].pc = "requeue" /\ UNCHANGED stream /\ Goto(w, "requeued")
          /\ ReleaseJob(d, "queued") \/ UNCHANGED job
      BY <1>7 DEF FailRequeue, NoRowMatched
    <2>2. /\ wk'[w].pc = "requeued" /\ wk'[w].job = d
          /\ \A v \in Worker : v # w => wk'[v] = wk[v]
      BY <1>0, <2>1, GotoMove
    <2>3. wk[w].pc \notin HoldsQueued /\ d \in Deployment
      BY <1>0, <2>1 DEF HoldsQueued, WorkerLocalsOK
    <2>4. CASE e = d  BY <2>2, <2>4 DEF Found, HoldsQueued
    <2>5. CASE e # d
      <3>1. job[e].status = "queued"  BY <1>0, <2>1, <2>3, <2>5, ReleaseMove
      <3> QED  BY <1>2, <2>1, <2>2, <2>3, <3>1
    <2> QED  BY <2>4, <2>5
  <1>8. CASE FailSettle(w)
    <2>1. /\ wk'[w].pc = IF wk[w].pc = "requeued" THEN "republish" ELSE "buryMark"
          /\ wk'[w].job = d
          /\ \A v \in Worker : v # w => wk'[v] = wk[v]
          /\ wk[w].pc \in {"requeued", "buried"} /\ UNCHANGED <<job, stream>>
      BY <1>0, <1>8, GotoMove DEF FailSettle
    <2>2. CASE e = d /\ wk[w].pc = "requeued"
      BY <2>1, <2>2 DEF Found, HoldsQueued
    <2>3. CASE ~(e = d /\ wk[w].pc = "requeued")
      <3>1. ~(wk[w].pc \in HoldsQueued /\ wk[w].job = e) /\ Found(e)
        BY <2>1, <2>3 DEF HoldsQueued
      <3>2. InStream(e) => InStream(e)'  BY <2>1 DEF InStream
      <3> QED  BY <1>1, <2>1, <3>1, <3>2, OthersFound
    <2> QED  BY <2>2, <2>3
  <1>9. CASE FailRepublish(w)
    <2> DEFINE p == Head(wk[w].streams)
    <2>1. /\ XAdd(p, d) /\ UNCHANGED job /\ wk[w].pc = "republish"
          /\ \A v \in Worker : v # w => wk'[v] = wk[v]
      BY <1>0, <1>9, EndRunMove DEF FailRepublish, db
    <2>2. wk[w].streams \in Seq(Priority) /\ wk[w].streams # <<>>
      BY <1>0, <2>1 DEF WorkerState, WorkerLocalsOK
    <2>3. p \in Priority  BY <2>2
    <2>4. d \in Deployment  BY <1>0, <2>1 DEF WorkerLocalsOK
    <2>5. InStream(e) => InStream(e)'
      BY <1>0, <2>1, <2>3, <2>4, XAddInStream
    <2>6. CASE e = d
      <3>1. InStream(e)'  BY <1>0, <2>1, <2>3, <2>4, <2>6, XAddInStream
      <3> QED  BY <3>1 DEF Found
    <2>7. CASE e # d  BY <1>1, <2>1, <2>5, <2>7, OthersFound
    <2> QED  BY <2>6, <2>7
  <1> QED
    BY <1>3, <1>4, <1>5, <1>6, <1>7, <1>8, <1>9 DEF WorkerStep

\* enqueue publishes what it inserts.
LEMMA RequestFound ==
  ASSUME QueueInv, NEW c \in Client, NEW e \in Deployment, RequestStep(c),
         job[e].status = "queued" => Found(e), job'[e].status = "queued"
  PROVE  Found(e)'
  <1> DEFINE d == req[c].job
  <1>0. /\ TypeOK /\ req \in [Client -> RequestState]
        /\ req[c].pc # "idle" => d \in Deployment
        /\ req[c].priority \in Priority
    BY DEF QueueInv, OwnerInv, TypeInv, TypeOK, LocalsOK, RequestState
  <1>1. UNCHANGED wk /\ d \in Deployment
    BY <1>0 DEF RequestStep, EnqueueInsert, EnqueuePublish, EnqueueMark,
                CancelJob, CancelMark, CancelFinish
  <1>2. \A b \in Client : b # c => req'[b] = req[b]
    BY <1>0 DEF RequestStep, EnqueueInsert, EnqueuePublish, EnqueueMark,
                CancelJob, CancelMark, CancelFinish, GotoReq, EndReq
  <1>3. ASSUME InStream(e) => InStream(e)', job[e].status = "queued",
               ~Publishing(c, e)
        PROVE  Found(e)'
    <2>1. CASE InStream(e)  BY <1>3, <2>1 DEF Found
    <2>2. CASE \E b \in Client : Publishing(b, e)
      BY <1>2, <1>3, <2>2 DEF Found, Publishing
    <2>3. CASE \E w \in Worker : wk[w].pc \in HoldsQueued /\ wk[w].job = e
      BY <1>1, <2>3 DEF Found
    <2> QED  BY <1>3, <2>1, <2>2, <2>3 DEF Found
  <1>4. CASE EnqueueMark(c) \/ CancelMark(c) \/ CancelFinish(c)
    <2>1. UNCHANGED <<stream, job>> /\ ~Publishing(c, e)
      BY <1>4 DEF EnqueueMark, CancelMark, CancelFinish, Publishing
    <2>2. InStream(e) => InStream(e)'  BY <2>1 DEF InStream
    <2> QED  BY <1>3, <2>1, <2>2
  <1>5. CASE CancelJob(c)
    <2>1. /\ UNCHANGED stream /\ ~Publishing(c, e)
          /\ UNCHANGED job \/ ReleaseJob(d, "cancelled")
      BY <1>5 DEF CancelJob, NoRowMatched, Publishing
    <2>2. job[e].status = "queued"  BY <1>0, <1>1, <2>1, ReleaseMove
    <2>3. InStream(e) => InStream(e)'  BY <2>1 DEF InStream
    <2> QED  BY <1>3, <2>1, <2>2, <2>3
  <1>6. CASE EnqueueInsert(c)
    <2>1. UNCHANGED stream /\ ~Publishing(c, e)
      BY <1>6 DEF EnqueueInsert, Publishing
    <2>2. InStream(e) => InStream(e)'  BY <2>1 DEF InStream
    <2>3. CASE job[d].status = "none" /\ e = d
      <3>1. GotoReq(c, "publish")  BY <1>6, <2>3 DEF EnqueueInsert
      <3>2. req'[c].pc = "publish" /\ req'[c].job = d
        BY <1>0, <3>1 DEF GotoReq, RequestState
      <3> QED  BY <2>3, <3>2 DEF Found, Publishing
    <2>4. CASE ~(job[d].status = "none" /\ e = d)
      <3>1. job'[e] = job[e]
        BY <1>0, <1>6, <2>4 DEF EnqueueInsert, InsertJob, TypeOK
      <3> QED  BY <1>3, <2>1, <2>2, <3>1
    <2> QED  BY <2>3, <2>4
  <1>7. CASE EnqueuePublish(c)
    <2>1. XAdd(req[c].priority, d) /\ UNCHANGED job
      BY <1>7 DEF EnqueuePublish, db
    <2>2. InStream(e) => InStream(e)'
      BY <1>0, <1>1, <2>1, XAddInStream
    <2>3. CASE e = d
      <3>1. InStream(e)'  BY <1>0, <1>1, <2>1, <2>3, XAddInStream
      <3> QED  BY <3>1 DEF Found
    <2>4. CASE e # d
      <3>1. ~Publishing(c, e)  BY <2>4 DEF Publishing
      <3> QED  BY <1>3, <2>1, <2>2, <3>1
    <2> QED  BY <2>3, <2>4
  <1> QED  BY <1>4, <1>5, <1>6, <1>7 DEF RequestStep

\* No step loses a queued job.
LEMMA NextFound ==
  ASSUME ReaperRuns = FALSE, QueueInv, FoundInv, [Next]_vars
  PROVE  FoundInv'
  <1> SUFFICES ASSUME crashes' = 0, NEW e \in Deployment,
                      job'[e].status = "queued"
               PROVE  Found(e)'
    BY DEF FoundInv
  <1>1. crashes = 0
    <2>1. crashes \in Nat  BY DEF QueueInv, OwnerInv, TypeInv, TypeOK
    <2>2. ASSUME NEW w \in Worker, WorkerStep(w) PROVE crashes' = crashes
      BY <2>2
         DEF WorkerStep, ClaimBegin, ClaimRead, ClaimLease, ClaimRecord,
             ClaimMark, RunCheck, RunWorkspace, RunPipeline, RunSucceeded,
             RunFatal, AckJob, AckAttempt, FailRead, FailRequeue, FailBury,
             FailSettle, FailRepublish, FailBuryMark, history
    <2>3. ASSUME NEW c \in Client, RequestStep(c) PROVE crashes' = crashes
      BY <2>3
         DEF RequestStep, EnqueueInsert, EnqueuePublish, EnqueueMark,
             CancelJob, CancelMark, CancelFinish, history
    <2>4. ASSUME NEW c \in Client, NEW d \in Deployment, NewRequest(c, d)
          PROVE  crashes' = crashes
      BY <2>4 DEF NewRequest, CreateDeployment, RetryDeployment,
                  CancelDeployment, history
    <2>5. ReaperStep => crashes' = crashes
      BY DEF ReaperStep, ReapScan, ReapRow, ReapPublish, ReapBury, history
    <2>6. ASSUME NEW k, Crash(k) PROVE crashes' = crashes + 1
      BY <2>6 DEF Crash
    <2>7. crashes' = crashes \/ crashes' = crashes + 1
      BY <2>2, <2>3, <2>4, <2>5, <2>6
         DEF Next, Renew, LeaseExpires, WorkerCrash, RequestCrash, ReaperCrash,
             vars, history
    <2> QED  BY <2>1, <2>7
  <1>2. job[e].status = "queued" => Found(e)  BY <1>1 DEF FoundInv
  <1>3. ~ReaperStep /\ ~ReaperCrash
    BY DEF QueueInv, Idle, ReaperStep, ReapScan, ReapRow, ReapPublish,
           ReapBury, ReaperCrash
  <1>5. ASSUME NEW w \in Worker, WorkerStep(w) PROVE Found(e)'
    BY <1>2, <1>5, ClaimFound, RunFound
  <1>6. ASSUME NEW c \in Client, RequestStep(c) PROVE Found(e)'
    BY <1>2, <1>6, RequestFound
  <1>7. ASSUME UNCHANGED <<stream, job, wk>>,
               \A c \in Client : req'[c] = req[c] \/ req[c].pc = "idle"
        PROVE  Found(e)'
    <2>1. InStream(e) => InStream(e)'  BY <1>7 DEF InStream
    <2>2. Found(e)  BY <1>2, <1>7
    <2> QED  BY <1>7, <2>1, <2>2 DEF Found, Publishing
  <1>8. ASSUME NEW c \in Client, NEW d \in Deployment, NewRequest(c, d)
        PROVE  Found(e)'
    <2>1. req \in [Client -> RequestState]
      BY DEF QueueInv, OwnerInv, TypeInv, TypeOK
    <2>2. \A b \in Client : req'[b] = req[b] \/ req[b].pc = "idle"
      BY <1>8, <2>1 DEF NewRequest, CreateDeployment, RetryDeployment,
         CancelDeployment, StartRequest
    <2> QED  BY <1>7, <1>8, <2>2
                DEF NewRequest, CreateDeployment, RetryDeployment,
                    CancelDeployment, db
  <1>9. \/ \E w \in Worker : WorkerStep(w) \/ WorkerCrash(w)
        \/ \E c \in Client : RequestStep(c) \/ RequestCrash(c)
        \/ \E c \in Client, d \in Deployment : NewRequest(c, d)
        \/ UNCHANGED <<stream, job, wk, req>>
    BY <1>3 DEF Next, Renew, LeaseExpires, vars, db
  <1>10. CASE \E w \in Worker : WorkerCrash(w)
    BY <1>1, <1>10 DEF WorkerCrash, Crash
  <1>11. CASE \E c \in Client : RequestCrash(c)
    BY <1>1, <1>11 DEF RequestCrash, Crash
  <1> QED  BY <1>5, <1>6, <1>7, <1>8, <1>9, <1>10, <1>11

\* Where nobody calls requeue_expired and no operation was interrupted, every
\* queued job is in a stream or about to be: no interleaving of enqueue,
\* cancel, claim and fail loses a job.
THEOREM NoJobIsLost == ReaperRuns = FALSE => (Spec => []QueuedJobHasEntry)
  <1> SUFFICES ASSUME ReaperRuns = FALSE PROVE Spec => []QueuedJobHasEntry
    OBVIOUS
  <1>1. Init => FoundInv
    <2> SUFFICES ASSUME Init, NEW d \in Deployment PROVE job[d].status # "queued"
      BY DEF FoundInv
    <2> DEFINE row == [status |-> "none", attempt |-> 0, owner |-> None,
                       priority |-> "production"]
    <2>1. job[d] = row  BY DEF Init
    <2>2. row.status = "none"  OBVIOUS
    <2> QED  BY <2>1, <2>2
  <1>2. QueueInv /\ FoundInv /\ [Next]_vars => QueueInv' /\ FoundInv'
    BY NextQueueInv, NextFound
  <1>3. FoundInv => QueuedJobHasEntry  BY FoundIsTheProperty
  <1> QED  BY <1>1, <1>2, <1>3, InitQueueInv, PTL DEF Spec
=============================================================================
