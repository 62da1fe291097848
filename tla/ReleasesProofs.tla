--------------------------- MODULE ReleasesProofs ---------------------------
(***************************************************************************)
(* Proofs about Releases.  The compare-and-set of transition keeps every   *)
(* status change legal, whatever races with it, and releases are well      *)
(* typed with at most MaxVersion versions: both rest on ReleaseInv, the    *)
(* version a process passes to transition is one the release had when, or  *)
(* before, the process read the status it checks.  On top of it, StoryInv  *)
(* follows the records of release_transitions and RouteInv the release     *)
(* that has the route, SettleInv what a recovery has still to settle.      *)
(***************************************************************************)
EXTENDS Releases, FiniteSetTheorems, TLAPS

\* Other processes are where they were.
Still(p) ==
  \A q \in Proc \ {p} : pc'[q] = pc[q] /\ loc'[q] = loc[q] /\ tr'[q] = tr[q]

\* A release that changes gets a higher version.
Grows ==
  \A r \in Release :
    /\ release'[r].version \in Nat
    /\ \/ release'[r] = release[r]
       \/ release[r].version < release'[r].version

\* The pieces of TypeOK that every step about process p needs.
LEMMA TypeFacts ==
  ASSUME TypeOK, NEW p \in Proc
  PROVE  /\ pc[p] \in PC /\ loc[p] \in Locals /\ tr[p] \in Call
         /\ \A r \in Release : release[r].version \in Nat
  BY DEF TypeOK, MaxVersion

\* What a process knows stays true while it does not move.
LEMMA StillKnows ==
  ASSUME TypeOK, Grows, NEW q \in Proc, Knows(q),
         pc'[q] = pc[q], loc'[q] = loc[q], tr'[q] = tr[q]
  PROVE  Knows(q)'
  <1>1. loc[q] \in Locals /\ tr[q] \in Call
        /\ \A r \in Release : release[r].version \in Nat
    BY TypeFacts
  <1>2. \A r, v : v \in Nat /\ r \in Release /\ v <= release[r].version
                    => v <= release'[r].version
    BY <1>1 DEF Grows
  <1>3. CallerKnows(q)'
    BY <1>1, <1>2 DEF Knows, CallerKnows, Seen, Locals
  <1>4. CallKnows(q)'
    BY <1>1, <1>2 DEF Knows, CallKnows, Seen, Locals, Call
  <1>5. CasKnows(q)'
    <2>1. CASE pc[q] = "cas"
      <3>1. Seen(tr[q].id, tr[q].expected)
        BY <2>1 DEF Knows, CallKnows
      <3>2. <<tr[q].from, tr[q].to>> \in Legal
        BY <2>1 DEF Knows, CasKnows
      <3>3. release'[tr[q].id].version = tr[q].expected =>
              release'[tr[q].id].status = tr[q].from
        BY <1>1, <2>1, <3>1 DEF Grows, Seen, Knows, CasKnows, Call
      <3> QED  BY <2>1, <3>2, <3>3 DEF CasKnows
    <2>2. CASE pc[q] # "cas"
      <3>1. pc[q] = "record" => Seen(tr[q].id, tr[q].expected + 1)'
        BY <1>1, <1>2 DEF Knows, CasKnows, Seen, Call
      <3> QED  BY <2>2, <3>1 DEF CasKnows
    <2> QED  BY <2>1, <2>2
  <1> QED  BY <1>3, <1>4, <1>5 DEF Knows

\* A step of p that grows the releases keeps what the others know and what
\* the recovery worker's rows say.
LEMMA OthersKnow ==
  ASSUME ReleaseInv, Grows, NEW p \in Proc, Still(p), Knows(p)'
  PROVE  \A q \in Proc : Knows(q)'
  <1> SUFFICES ASSUME NEW q \in Proc, q # p PROVE Knows(q)'
    OBVIOUS
  <1>1. TypeOK /\ Knows(q)  BY DEF ReleaseInv
  <1>2. pc'[q] = pc[q] /\ loc'[q] = loc[q] /\ tr'[q] = tr[q]  BY DEF Still
  <1> QED  BY <1>1, <1>2, StillKnows

\* Rows that were read stay readings of their releases.
LEMMA RowsStillKnow ==
  ASSUME ReleaseInv, Grows, rows' \subseteq rows
  PROVE  RowsKnow'
  <1> SUFFICES ASSUME NEW row \in rows' PROVE row.id \in Release /\ row.version <= release'[row.id].version
    BY DEF RowsKnow, Seen
  <1>1. row \in Row /\ Seen(row.id, row.version)  BY DEF ReleaseInv, TypeOK, RowsKnow
  <1>2. row.version \in Nat /\ row.id \in Release  BY <1>1 DEF Row
  <1>3. release[row.id].version \in Nat  BY <1>2 DEF ReleaseInv, TypeOK, MaxVersion
  <1> QED  BY <1>1, <1>2, <1>3 DEF Grows, Seen

\* A step that leaves the releases alone.
LEMMA LocalStep ==
  ASSUME ReleaseInv, UNCHANGED <<release, minted>>, rows' \subseteq rows,
         TypeOK', NEW p \in Proc, Still(p), Knows(p)'
  PROVE  ReleaseInv'
  <1>1. Grows  BY DEF Grows, ReleaseInv, TypeOK, MaxVersion
  <1>2. LifeInv'  BY DEF LifeInv, ReleaseInv
  <1> QED  BY <1>1, <1>2, OthersKnow, RowsStillKnow DEF ReleaseInv

-----------------------------------------------------------------------------
(* The helpers every action is built from.                                 *)

\* Orchestrations and the recovery worker are the processes.
LEMMA OpIsProc == Op \subseteq Proc /\ Recovery \in Proc
  BY DEF Proc

\* Moving p leaves the other processes where they were.
LEMMA GotoFacts ==
  ASSUME TypeOK, NEW p \in Proc, NEW q \in PC, Goto(p, q)
  PROVE  /\ pc' \in [Proc -> PC] /\ pc'[p] = q
         /\ \A o \in Proc \ {p} : pc'[o] = pc[o]
  BY DEF Goto, TypeOK

\* Calling transition moves p to its first statement.
LEMMA CallFacts ==
  ASSUME TypeOK, NEW p \in Proc, NEW r \in Release, NEW v \in Nat,
         NEW s \in Status, NEW q \in CallerPC, CallTransition(p, r, v, s, q)
  PROVE  /\ pc' \in [Proc -> PC] /\ pc'[p] = "read"
         /\ tr' \in [Proc -> Call]
         /\ tr'[p] = [id |-> r, expected |-> v, to |-> s, from |-> "none",
                      next |-> q]
         /\ \A o \in Proc \ {p} : pc'[o] = pc[o] /\ tr'[o] = tr[o]
  <1> DEFINE call == [id |-> r, expected |-> v, to |-> s, from |-> "none",
                      next |-> q]
  <1>1. call \in Call  BY DEF Call, Status, MaybeRelease
  <1>2. Goto(p, "read") /\ tr' = [tr EXCEPT ![p] = call]
    BY DEF CallTransition
  <1>3. "read" \in PC  BY DEF PC
  <1>4. pc' \in [Proc -> PC] /\ pc'[p] = "read"
        /\ \A o \in Proc \ {p} : pc'[o] = pc[o]
    BY <1>2, <1>3, GotoFacts
  <1>5. tr \in [Proc -> Call]  BY DEF TypeOK
  <1> HIDE DEF call
  <1>6. tr' \in [Proc -> Call] /\ tr'[p] = call
        /\ \A o \in Proc \ {p} : tr'[o] = tr[o]
    BY <1>1, <1>2, <1>5
  <1> QED  BY <1>4, <1>6 DEF call

\* An operation that ends knows nothing and need not.
LEMMA EndFacts ==
  ASSUME TypeOK, NEW p \in Proc, End(p)
  PROVE  /\ pc' \in [Proc -> PC] /\ loc' \in [Proc -> Locals]
         /\ tr' \in [Proc -> Call]
         /\ Still(p) /\ Knows(p)'
  <1>1. "idle" \in PC  BY DEF PC, CallerPC
  <1>2. NoLocals \in Locals  BY DEF NoLocals, Locals, MaybeRelease
  <1>3. NoCall \in Call
    BY DEF NoCall, Call, MaybeRelease, Status, CallerPC
  <1>4. Goto(p, "idle") /\ loc' = [loc EXCEPT ![p] = NoLocals]
        /\ tr' = [tr EXCEPT ![p] = NoCall]
    BY DEF End
  <1>5. pc' \in [Proc -> PC] /\ pc'[p] = "idle"
        /\ \A o \in Proc \ {p} : pc'[o] = pc[o]
    BY <1>1, <1>4, GotoFacts
  <1>6. loc \in [Proc -> Locals] /\ tr \in [Proc -> Call]  BY DEF TypeOK
  <1>7. loc' \in [Proc -> Locals] /\ tr' \in [Proc -> Call]
        /\ \A o \in Proc \ {p} : loc'[o] = loc[o] /\ tr'[o] = tr[o]
    BY <1>2, <1>3, <1>4, <1>6
  <1>8. Knows(p)'
    BY <1>5 DEF Knows, CallerKnows, CallKnows, CasKnows
  <1> QED  BY <1>5, <1>7, <1>8 DEF Still

\* After an error of transition p knows all it needs.
LEMMA ErrorFacts ==
  ASSUME TypeOK, NEW p \in Proc, Error(p)
  PROVE  /\ pc' \in [Proc -> PC] /\ loc' \in [Proc -> Locals]
         /\ tr' \in [Proc -> Call]
         /\ Still(p) /\ Knows(p)'
  <1>1. CASE End(p)  BY <1>1, EndFacts
  <1>2. CASE /\ Goto(p, "rows") /\ tr' = [tr EXCEPT ![p] = NoCall]
             /\ UNCHANGED loc
    <2>1. "rows" \in PC  BY DEF PC, CallerPC
    <2>2. NoCall \in Call
      BY DEF NoCall, Call, MaybeRelease, Status, CallerPC
    <2>3. pc' \in [Proc -> PC] /\ pc'[p] = "rows"
          /\ \A o \in Proc \ {p} : pc'[o] = pc[o]
      BY <1>2, <2>1, GotoFacts
    <2>4. loc' \in [Proc -> Locals] /\ tr' \in [Proc -> Call]
          /\ \A o \in Proc \ {p} : loc'[o] = loc[o] /\ tr'[o] = tr[o]
      BY <1>2, <2>2 DEF TypeOK
    <2>5. Knows(p)'
      BY <2>3 DEF Knows, CallerKnows, CallKnows, CasKnows
    <2> QED  BY <2>3, <2>4, <2>5 DEF Still
  <1> QED  BY <1>1, <1>2 DEF Error

\* A release that changes as Legal allows stays at its place in life.
LEMMA LegalLife ==
  ASSUME NEW s, NEW t, NEW v \in Nat, <<s, t>> \in Legal, Life(s, v)
  PROVE  Life(t, v + 1) /\ v + 1 \in 0..MaxVersion /\ s # "none"
  BY DEF Legal, Life, MaxVersion

-----------------------------------------------------------------------------
(* transition                                                              *)

\* The check: the status read is the one of the version expected, or the
\* compare-and-set will fail.
LEMMA TransitionReadInv ==
  ASSUME ReleaseInv, NEW p \in Proc, TransitionRead(p)
  PROVE  ReleaseInv'
  <1> DEFINE f == release[tr[p].id].status
  <1>1. TypeOK /\ Knows(p)  BY DEF ReleaseInv
  <1>2. pc[p] = "read" /\ tr[p] \in Call /\ loc[p] \in Locals
    BY <1>1, TypeFacts DEF TransitionRead
  <1>3. Seen(tr[p].id, tr[p].expected)  BY <1>1, <1>2 DEF Knows, CallKnows
  <1>4. f \in Status  BY <1>1, <1>3 DEF TypeOK, Seen
  <1>5. UNCHANGED <<release, minted, log, activeRoute, router, up, rows, crashes>>
    BY DEF TransitionRead, db
  <1>6. CASE Error(p)
    <2>1. TypeOK'  BY <1>1, <1>5, <1>6, ErrorFacts DEF TypeOK
    <2> QED  BY <1>1, <1>5, <1>6, <2>1, ErrorFacts, LocalStep
  <1>7. CASE /\ <<f, tr[p].to>> \in Legal /\ Goto(p, "cas")
             /\ tr' = [tr EXCEPT ![p].from = f] /\ UNCHANGED loc
    <2>1. pc' \in [Proc -> PC] /\ pc'[p] = "cas"
          /\ \A o \in Proc \ {p} : pc'[o] = pc[o]
      <3>1. "cas" \in PC  BY DEF PC
      <3> QED  BY <1>1, <1>7, <3>1, GotoFacts
    <2>2. tr'[p] = [tr[p] EXCEPT !.from = f]
          /\ \A o \in Proc \ {p} : tr'[o] = tr[o]
      BY <1>1, <1>7 DEF TypeOK
    <2>3. tr'[p] \in Call /\ tr'[p].from = f
          /\ tr'[p].id = tr[p].id /\ tr'[p].expected = tr[p].expected
          /\ tr'[p].to = tr[p].to /\ tr'[p].next = tr[p].next
      BY <1>2, <1>4, <2>2 DEF Call
    <2>4. tr' \in [Proc -> Call]
      BY <1>1, <1>7, <2>2, <2>3 DEF TypeOK
    <2>5. TypeOK'  BY <1>1, <1>5, <1>7, <2>1, <2>4 DEF TypeOK
    <2>6. CallerKnows(p)'  BY <2>1 DEF CallerKnows
    <2>7. CallKnows(p)'
      BY <1>1, <1>2, <1>5, <1>7, <2>1, <2>3 DEF Knows, CallKnows, Seen
    <2>8. CasKnows(p)'  BY <1>5, <1>7, <2>1, <2>3 DEF CasKnows
    <2> QED
      BY <1>5, <1>7, <2>1, <2>2, <2>5, <2>6, <2>7, <2>8, LocalStep
      DEF Knows, Still
  <1> QED  BY <1>6, <1>7 DEF TransitionRead

\* What a successful compare-and-set does to the releases.
LEMMA CasFacts ==
  ASSUME ReleaseInv, NEW p \in Proc, TransitionCas(p),
         release[tr[p].id].version = tr[p].expected
  PROVE  /\ tr[p].id \in Release
         /\ <<release[tr[p].id].status, tr[p].to>> \in Legal
         /\ release' = [release EXCEPT ![tr[p].id].status = tr[p].to,
                                       ![tr[p].id].version = @ + 1]
         /\ release'[tr[p].id].status = tr[p].to
         /\ release'[tr[p].id].version = tr[p].expected + 1
         /\ \A r \in Release \ {tr[p].id} : release'[r] = release[r]
         /\ Goto(p, "record") /\ UNCHANGED <<loc, tr>>
  <1>1. TypeOK /\ Knows(p)  BY DEF ReleaseInv
  <1>2. pc[p] = "cas"  BY DEF TransitionCas
  <1>3. Seen(tr[p].id, tr[p].expected) /\ <<tr[p].from, tr[p].to>> \in Legal
        /\ release[tr[p].id].status = tr[p].from
    BY <1>1, <1>2 DEF Knows, CallKnows, CasKnows
  <1>4. release' = [release EXCEPT ![tr[p].id].status = tr[p].to,
                                  ![tr[p].id].version = @ + 1]
        /\ Goto(p, "record") /\ UNCHANGED <<loc, tr>>
    BY DEF TransitionCas
  <1> QED  BY <1>1, <1>3, <1>4 DEF TypeOK, Seen

\* The compare-and-set keeps the invariant, whether it succeeds or not.
LEMMA TransitionCasInv ==
  ASSUME ReleaseInv, NEW p \in Proc, TransitionCas(p)
  PROVE  ReleaseInv'
  <1> DEFINE x == tr[p].id
  <1>1. TypeOK /\ Knows(p) /\ LifeInv  BY DEF ReleaseInv
  <1>2. UNCHANGED <<minted, log, activeRoute, router, up, rows, crashes>>
    BY DEF TransitionCas
  <1>3. CASE release[x].version # tr[p].expected
    <2>1. Error(p) /\ UNCHANGED release  BY <1>3 DEF TransitionCas
    <2>2. TypeOK'  BY <1>1, <1>2, <2>1, ErrorFacts DEF TypeOK
    <2> QED  BY <1>1, <1>2, <2>1, <2>2, ErrorFacts, LocalStep
  <1>4. CASE release[x].version = tr[p].expected
    <2>1. /\ x \in Release
          /\ <<release[x].status, tr[p].to>> \in Legal
          /\ release' = [release EXCEPT ![x].status = tr[p].to,
                                        ![x].version = @ + 1]
          /\ release'[x].status = tr[p].to
          /\ release'[x].version = release[x].version + 1
          /\ \A r \in Release \ {x} : release'[r] = release[r]
          /\ Goto(p, "record") /\ UNCHANGED <<loc, tr>>
      BY <1>4, CasFacts
    <2>2. release[x].version \in Nat /\ tr[p] \in Call /\ loc[p] \in Locals
      BY <1>1, <2>1, TypeFacts
    <2>3. Life(release'[x].status, release'[x].version)
          /\ release'[x].version \in 0..MaxVersion
          /\ release[x].status # "none"
      <3>1. Life(release[x].status, release[x].version)
        BY <1>1, <2>1 DEF LifeInv
      <3> QED  BY <2>1, <2>2, <3>1, LegalLife
    <2>4. LifeInv'
      <3> SUFFICES ASSUME NEW r \in Release
                   PROVE  /\ Life(release'[r].status, release'[r].version)
                          /\ r > minted => release'[r].status = "none"
        BY <1>2 DEF LifeInv
      <3>1. CASE r = x  BY <1>1, <2>3, <3>1 DEF LifeInv
      <3>2. CASE r # x  BY <1>1, <2>1, <3>2 DEF LifeInv
      <3> QED  BY <3>1, <3>2
    <2>5. pc' \in [Proc -> PC] /\ pc'[p] = "record"
          /\ \A o \in Proc \ {p} : pc'[o] = pc[o]
      <3>1. "record" \in PC  BY DEF PC
      <3> QED  BY <1>1, <2>1, <3>1, GotoFacts
    <2>6. release' \in [Release -> [status : Status, version : 0..MaxVersion,
                                    url : MaybeRelease]]
      <3>1. tr[p].to \in Status  BY <2>2 DEF Call
      <3>2. release[x] \in [status : Status, version : 0..MaxVersion,
                            url : MaybeRelease]
        BY <1>1, <2>1 DEF TypeOK
      <3>3. release'[x] = [status |-> tr[p].to, version |-> release'[x].version,
                           url |-> release[x].url]
        BY <1>1, <2>1, <3>2 DEF TypeOK
      <3>4. release'[x] \in [status : Status, version : 0..MaxVersion,
                             url : MaybeRelease]
        BY <2>3, <3>1, <3>2, <3>3
      <3> QED  BY <1>1, <2>1, <3>4 DEF TypeOK
    <2>7. TypeOK'  BY <1>1, <1>2, <2>1, <2>5, <2>6 DEF TypeOK
    <2>8. Grows
      <3>1. \A r \in Release : release'[r].version \in Nat
        BY <2>6 DEF MaxVersion
      <3>2. release[x].version < release'[x].version  BY <2>1, <2>2
      <3>3. \A r \in Release : \/ release'[r] = release[r]
                               \/ release[r].version < release'[r].version
        BY <2>1, <3>2
      <3> QED  BY <3>1, <3>3 DEF Grows
    <2>9. Still(p)  BY <2>1, <2>5 DEF Still
    <2>10. Knows(p)'
      <3>1. CallerKnows(p)'  BY <2>5 DEF CallerKnows
      <3>2. pc[p] = "cas"  BY DEF TransitionCas
      <3>3. CallKnows(p)  BY <1>1 DEF Knows
      <3>4. \A r, v : v \in Nat /\ r \in Release /\ v <= release[r].version
                        => v <= release'[r].version
        BY <1>1, <2>8, TypeFacts DEF Grows
      <3>5. CallKnows(p)'
        BY <2>1, <2>2, <2>5, <3>2, <3>3, <3>4
        DEF CallKnows, Seen, Call, Locals
      <3>6. CasKnows(p)'
        BY <1>4, <2>1, <2>2, <2>5 DEF CasKnows, Seen, Call
      <3> QED  BY <3>1, <3>5, <3>6 DEF Knows
    <2>11. rows' \subseteq rows  BY <1>2
    <2> QED
      BY <2>4, <2>7, <2>8, <2>9, <2>10, <2>11, OthersKnow, RowsStillKnow
      DEF ReleaseInv
  <1> QED  BY <1>3, <1>4

\* After the record the caller goes on with the version it made.
LEMMA TransitionRecordInv ==
  ASSUME ReleaseInv, NEW p \in Proc, TransitionRecord(p)
  PROVE  ReleaseInv'
  <1> DEFINE n == tr[p].next
             l == IF n = "idle" THEN NoLocals
                  ELSE [loc[p] EXCEPT !.version = tr[p].expected + 1]
  <1>1. TypeOK /\ Knows(p)  BY DEF ReleaseInv
  <1>2. pc[p] = "record" /\ tr[p] \in Call /\ loc[p] \in Locals
    BY <1>1, TypeFacts DEF TransitionRecord
  <1>3. /\ Seen(tr[p].id, tr[p].expected + 1)
        /\ n \in {"probe", "route", "drain", "unroute", "idle", "rows"}
        /\ n \in {"probe", "route"} => tr[p].id = loc[p].release
        /\ n = "drain" => Seen(loc[p].prev, loc[p].prevVersion)
        /\ n = "unroute" => tr[p].id = loc[p].prev
    BY <1>1, <1>2 DEF Knows, CallKnows, CasKnows
  <1>4. UNCHANGED <<release, minted, activeRoute, router, up, rows, crashes>>
        /\ log' = [log EXCEPT ![tr[p].id] = @ \cup {<<tr[p].from, tr[p].to>>}]
        /\ Goto(p, n) /\ tr' = [tr EXCEPT ![p] = NoCall]
        /\ loc' = [loc EXCEPT ![p] = l]
    BY <1>1 DEF TransitionRecord, TypeOK
  <1>5. /\ l \in Locals
        /\ n # "idle" => /\ l.release = loc[p].release /\ l.prev = loc[p].prev
                         /\ l.prevVersion = loc[p].prevVersion
                         /\ l.version = tr[p].expected + 1
    <2>1. NoLocals \in Locals  BY DEF NoLocals, Locals, MaybeRelease
    <2>2. tr[p].expected + 1 \in Nat  BY <1>2 DEF Call
    <2> QED  BY <1>2, <2>1, <2>2 DEF Locals
  <1>6. NoCall \in Call
    BY DEF NoCall, Call, MaybeRelease, Status, CallerPC
  <1>7. pc' \in [Proc -> PC] /\ pc'[p] = n
        /\ \A o \in Proc \ {p} : pc'[o] = pc[o]
    <2>1. n \in PC  BY <1>3 DEF PC, CallerPC
    <2> QED  BY <1>1, <1>4, <2>1, GotoFacts
  <1> HIDE DEF l
  <1>8. loc' \in [Proc -> Locals] /\ loc'[p] = l
        /\ tr' \in [Proc -> Call]
        /\ \A o \in Proc \ {p} : loc'[o] = loc[o] /\ tr'[o] = tr[o]
    BY <1>1, <1>4, <1>5, <1>6 DEF TypeOK
  <1>9. log' \in [Release -> SUBSET (Status \X Status)]
    <2>1. <<tr[p].from, tr[p].to>> \in Status \X Status
      BY <1>2 DEF Call
    <2> QED  BY <1>1, <1>4, <2>1 DEF TypeOK
  <1>10. TypeOK'  BY <1>1, <1>4, <1>7, <1>8, <1>9 DEF TypeOK
  <1>11. CallerKnows(p)'
    BY <1>3, <1>4, <1>5, <1>7, <1>8 DEF CallerKnows, Seen
  <1>12. CallKnows(p)' /\ CasKnows(p)'
    BY <1>3, <1>7 DEF CallKnows, CasKnows
  <1> QED
    BY <1>4, <1>7, <1>8, <1>10, <1>11, <1>12, LocalStep DEF Knows, Still

-----------------------------------------------------------------------------
(* orchestrate_release and execute_rollback                                *)

\* A step in which p only calls transition, with a version it has seen.
LEMMA CallStep ==
  ASSUME ReleaseInv, NEW p \in Proc, NEW r \in Release, NEW v \in Nat,
         NEW s \in Status, Seen(r, v),
         NEW q \in {"probe", "route", "drain", "unroute", "idle", "rows"},
         q \in {"probe", "route"} => r = loc[p].release,
         q = "drain" => Seen(loc[p].prev, loc[p].prevVersion),
         q = "unroute" => r = loc[p].prev,
         CallTransition(p, r, v, s, q),
         UNCHANGED <<release, minted, log, loc, rows, crashes>>,
         activeRoute' \in MaybeRelease, router' \in MaybeRelease,
         up' \subseteq Release
  PROVE  ReleaseInv'
  <1>1. TypeOK  BY DEF ReleaseInv
  <1>2. q \in CallerPC  BY DEF CallerPC
  <1>3. /\ pc' \in [Proc -> PC] /\ pc'[p] = "read"
        /\ tr' \in [Proc -> Call]
        /\ tr'[p] = [id |-> r, expected |-> v, to |-> s, from |-> "none",
                     next |-> q]
        /\ \A o \in Proc \ {p} : pc'[o] = pc[o] /\ tr'[o] = tr[o]
    BY <1>1, <1>2, CallFacts
  <1>4. TypeOK'  BY <1>1, <1>3 DEF TypeOK
  <1>5. CallerKnows(p)' /\ CasKnows(p)'
    BY <1>3 DEF CallerKnows, CasKnows
  <1>6. CallKnows(p)'
    <2>1. tr'[p].id = r /\ tr'[p].expected = v /\ tr'[p].next = q
      BY <1>3
    <2> QED  BY <2>1 DEF CallKnows, Seen
  <1> QED  BY <1>3, <1>4, <1>5, <1>6, LocalStep DEF Knows, Still

\* A step in which p moves on, possibly after reading into its locals.
LEMMA MoveStep ==
  ASSUME ReleaseInv, NEW p \in Proc, NEW q \in PC, Goto(p, q),
         loc' \in [Proc -> Locals],
         \A o \in Proc \ {p} : loc'[o] = loc[o],
         UNCHANGED <<release, minted, log, activeRoute, up, tr, rows, crashes>>,
         router' \in MaybeRelease,
         pc'[p] = q => Knows(p)'
  PROVE  ReleaseInv'
  <1>1. TypeOK  BY DEF ReleaseInv
  <1>2. pc' \in [Proc -> PC] /\ pc'[p] = q
        /\ \A o \in Proc \ {p} : pc'[o] = pc[o]
    BY <1>1, GotoFacts
  <1>3. TypeOK'  BY <1>1, <1>2 DEF TypeOK
  <1> QED  BY <1>2, <1>3, LocalStep DEF Still

\* create_release takes a row that did not exist.
LEMMA CreateInv ==
  ASSUME ReleaseInv, NEW o \in Op, NEW u \in MaybeRelease,
         CreateRelease(o, minted + 1, u), up' \subseteq Release
  PROVE  /\ ReleaseInv'
         /\ \A r \in Release :
              \/ release'[r] = release[r]
              \/ release[r].status = "none" /\ release'[r].status = "starting"
  <1> DEFINE m == minted + 1
             new == [status |-> "starting", version |-> 1, url |-> u]
             l == [NoLocals EXCEPT !.release = m, !.version = 1]
  <1>1. TypeOK /\ LifeInv /\ o \in Proc /\ MaxReleases \in Nat
    BY OpIsProc, ReleasesAssumption DEF ReleaseInv
  <1>2. m \in Release /\ minted \in Nat /\ m > minted /\ m \in 0..MaxReleases
    BY <1>1 DEF TypeOK, CreateRelease, Release
  <1>3. /\ minted' = m
        /\ release' = [release EXCEPT ![m] = new]
        /\ loc' = [loc EXCEPT ![o] = l]
        /\ CallTransition(o, m, 1, "health_checking", "probe")
        /\ UNCHANGED <<log, activeRoute, router, rows, crashes>>
    BY DEF CreateRelease
  <1>4. new \in [status : Status, version : 0..MaxVersion, url : MaybeRelease]
        /\ new.status = "starting" /\ new.version = 1
    BY DEF Status, MaxVersion
  <1>5. l \in Locals /\ l.release = m /\ l.version = 1
    BY <1>2 DEF NoLocals, Locals, MaybeRelease
  <1>6. release[m].status = "none" /\ release[m].version = 0
    BY <1>1, <1>2 DEF LifeInv, Life
  <1> HIDE DEF m, new, l
  <1>7. /\ release' \in [Release -> [status : Status, version : 0..MaxVersion,
                                     url : MaybeRelease]]
        /\ release'[m] = new
        /\ \A r \in Release \ {m} : release'[r] = release[r]
    BY <1>1, <1>2, <1>3, <1>4 DEF TypeOK
  <1>8. /\ loc' \in [Proc -> Locals] /\ loc'[o] = l
        /\ \A q \in Proc \ {o} : loc'[q] = loc[q]
    BY <1>1, <1>3, <1>5 DEF TypeOK
  <1>9. /\ pc' \in [Proc -> PC] /\ pc'[o] = "read"
        /\ tr' \in [Proc -> Call]
        /\ tr'[o] = [id |-> m, expected |-> 1, to |-> "health_checking",
                     from |-> "none", next |-> "probe"]
        /\ \A q \in Proc \ {o} : pc'[q] = pc[q] /\ tr'[q] = tr[q]
    <2>1. "health_checking" \in Status /\ "probe" \in CallerPC /\ 1 \in Nat
      BY DEF Status, CallerPC
    <2> QED  BY <1>1, <1>2, <1>3, <2>1, CallFacts
  <1>10. TypeOK'
    BY <1>1, <1>2, <1>3, <1>7, <1>8, <1>9 DEF TypeOK
  <1>11. Grows
    <2>1. \A r \in Release : release'[r].version \in Nat
      BY <1>7 DEF MaxVersion
    <2>2. release[m].version < release'[m].version  BY <1>4, <1>6, <1>7
    <2>3. \A r \in Release : \/ release'[r] = release[r]
                             \/ release[r].version < release'[r].version
      BY <1>7, <2>2
    <2> QED  BY <2>1, <2>3 DEF Grows
  <1>12. LifeInv'
    <2> SUFFICES ASSUME NEW r \in Release
                 PROVE  /\ Life(release'[r].status, release'[r].version)
                        /\ r > m => release'[r].status = "none"
      BY <1>3 DEF LifeInv
    <2>1. CASE r = m
      <3>1. ~(r > m)  BY <2>1, <1>2 DEF Release
      <3> QED  BY <1>4, <1>7, <2>1, <3>1 DEF Life
    <2>2. CASE r # m
      <3>1. r > m => r > minted  BY <1>2 DEF Release
      <3> QED  BY <1>1, <1>7, <2>2, <3>1 DEF LifeInv
    <2> QED  BY <2>1, <2>2
  <1>13. Knows(o)'
    <2>1. CallerKnows(o)' /\ CasKnows(o)'
      BY <1>9 DEF CallerKnows, CasKnows
    <2>2. tr'[o].id = m /\ tr'[o].expected = 1 /\ tr'[o].next = "probe"
      BY <1>9
    <2>3. CallKnows(o)'
      BY <1>2, <1>4, <1>5, <1>7, <1>8, <2>2 DEF CallKnows, Seen
    <2> QED  BY <2>1, <2>3 DEF Knows
  <1>14. Still(o)  BY <1>8, <1>9 DEF Still
  <1>15. RowsKnow'  BY <1>3, <1>11, RowsStillKnow
  <1>16. ReleaseInv'
    BY <1>1, <1>10, <1>11, <1>12, <1>13, <1>14, <1>15, OthersKnow
    DEF ReleaseInv
  <1> QED  BY <1>4, <1>6, <1>7, <1>16

\* The steps of an orchestration that create a release.
LEMMA CreateSteps ==
  ASSUME ReleaseInv, NEW o \in Op, Deploy(o) \/ RollbackCreate(o)
  PROVE  /\ ReleaseInv'
         /\ \A r \in Release :
              \/ release'[r] = release[r]
              \/ release[r].status = "none" /\ release'[r].status = "starting"
  <1>1. TypeOK /\ Knows(o) /\ o \in Proc  BY OpIsProc DEF ReleaseInv
  <1>2. CASE Deploy(o)
    <2>1. CreateRelease(o, minted + 1, minted + 1)
          /\ up' = up \cup {minted + 1}
      BY <1>2 DEF Deploy
    <2>2. minted + 1 \in Release
      BY <1>1, <2>1, ReleasesAssumption DEF CreateRelease, TypeOK, Release
    <2>3. up' \subseteq Release  BY <1>1, <2>1, <2>2 DEF TypeOK
    <2> QED  BY <2>1, <2>2, <2>3, CreateInv DEF MaybeRelease
  <1>3. CASE RollbackCreate(o)
    <2>1. CreateRelease(o, minted + 1, release[loc[o].target].url)
          /\ up' = up /\ pc[o] = "create"
      BY <1>3 DEF RollbackCreate
    <2>2. loc[o].target \in Release
      BY <1>1, <2>1 DEF Knows, CallerKnows
    <2>3. release[loc[o].target].url \in MaybeRelease /\ up' \subseteq Release
      BY <1>1, <2>1, <2>2 DEF TypeOK
    <2> QED  BY <2>1, <2>3, CreateInv
  <1> QED  BY <1>2, <1>3

\* The steps of an orchestration that call transition.
LEMMA CallSteps ==
  ASSUME ReleaseInv, NEW o \in Op,
         \/ Probe(o) \/ StopNew(o) \/ UpsertRoute(o)
         \/ DrainPrev(o) \/ StopPrev(o)
  PROVE  ReleaseInv'
  <1>1. TypeOK /\ Knows(o) /\ o \in Proc  BY OpIsProc DEF ReleaseInv
  <1>2. /\ loc[o].release \in MaybeRelease /\ loc[o].prev \in MaybeRelease
        /\ loc[o].version \in Nat /\ loc[o].prevVersion \in Nat
    BY <1>1, TypeFacts DEF Locals
  <1>3. /\ activeRoute \in MaybeRelease /\ router \in MaybeRelease
        /\ up \subseteq Release
    BY <1>1 DEF TypeOK
  <1>4. {"ready", "failed", "active", "draining", "stopped"} \subseteq Status
    BY DEF Status
  <1>5. CASE Probe(o)
    <2>1. Seen(loc[o].release, loc[o].version) /\ loc[o].release \in Release
      BY <1>1, <1>5 DEF Probe, Knows, CallerKnows, Seen
    <2>2. UNCHANGED <<release, minted, log, activeRoute, router, up, loc, rows,
                      crashes>>
      BY <1>5 DEF Probe, db
    <2>3. CASE CallTransition(o, loc[o].release, loc[o].version, "ready", "route")
      BY <1>1, <1>2, <1>3, <1>4, <2>1, <2>2, <2>3, CallStep
    <2>4. CASE Goto(o, "stopNew") /\ UNCHANGED tr
      <3>1. "stopNew" \in PC  BY DEF PC, CallerPC
      <3>2. pc'[o] = "stopNew" => Knows(o)'
        BY <2>1, <2>2 DEF Knows, CallerKnows, CallKnows, CasKnows, Seen
      <3>3. loc \in [Proc -> Locals]  BY <1>1 DEF TypeOK
      <3> QED  BY <1>1, <1>3, <2>2, <2>4, <3>1, <3>2, <3>3, MoveStep
    <2> QED  BY <1>5, <2>3, <2>4 DEF Probe
  <1>6. CASE StopNew(o)
    <2>1. Seen(loc[o].release, loc[o].version) /\ loc[o].release \in Release
      BY <1>1, <1>6 DEF StopNew, Knows, CallerKnows, Seen
    <2>2. /\ UNCHANGED <<release, minted, log, activeRoute, router, loc, rows,
                         crashes>>
          /\ up' \subseteq Release
          /\ CallTransition(o, loc[o].release, loc[o].version, "failed", "idle")
      BY <1>3, <1>6 DEF StopNew, db
    <2> QED  BY <1>1, <1>2, <1>3, <1>4, <2>1, <2>2, CallStep
  <1>7. CASE UpsertRoute(o)
    <2> DEFINE q == IF loc[o].prev = None THEN "idle" ELSE "drain"
    <2>1. Seen(loc[o].release, loc[o].version) /\ loc[o].release \in Release
          /\ (q = "drain" => Seen(loc[o].prev, loc[o].prevVersion))
      BY <1>1, <1>7 DEF UpsertRoute, Knows, CallerKnows, Seen
    <2>2. /\ UNCHANGED <<release, minted, log, router, up, loc, rows, crashes>>
          /\ activeRoute' \in MaybeRelease
          /\ CallTransition(o, loc[o].release, loc[o].version, "active", q)
      BY <1>2, <1>7 DEF UpsertRoute
    <2>3. q \in {"idle", "drain"}  OBVIOUS
    <2> HIDE DEF q
    <2> QED  BY <1>1, <1>2, <1>3, <1>4, <2>1, <2>2, <2>3, CallStep
  <1>8. CASE DrainPrev(o)
    <2>1. Seen(loc[o].prev, loc[o].prevVersion) /\ loc[o].prev \in Release
      BY <1>1, <1>8 DEF DrainPrev, Knows, CallerKnows, Seen
    <2>2. /\ UNCHANGED <<release, minted, log, activeRoute, router, up, loc,
                         rows, crashes>>
          /\ CallTransition(o, loc[o].prev, loc[o].prevVersion, "draining",
                            "unroute")
      BY <1>8 DEF DrainPrev, db
    <2> QED  BY <1>1, <1>2, <1>3, <1>4, <2>1, <2>2, CallStep
  <1>9. CASE StopPrev(o)
    <2>1. Seen(loc[o].prev, loc[o].version) /\ loc[o].prev \in Release
      BY <1>1, <1>9 DEF StopPrev, Knows, CallerKnows, Seen
    <2>2. /\ UNCHANGED <<release, minted, log, activeRoute, router, loc, rows,
                         crashes>>
          /\ up' \subseteq Release
          /\ CallTransition(o, loc[o].prev, loc[o].version, "stopped", "idle")
      BY <1>3, <1>9 DEF StopPrev, db
    <2> QED  BY <1>1, <1>2, <1>3, <1>4, <2>1, <2>2, CallStep
  <1> QED  BY <1>5, <1>6, <1>7, <1>8, <1>9

\* The steps of an orchestration that read, or change the router.
LEMMA MoveSteps ==
  ASSUME ReleaseInv, NEW o \in Op,
         \/ \E r \in Release, k \in SUBSET Release : RollbackSelect(o, r, k)
         \/ RouteTraffic(o) \/ FindRoute(o) \/ ReadPrev(o) \/ Unroute(o)
  PROVE  ReleaseInv'
  <1>1. TypeOK /\ Knows(o) /\ o \in Proc  BY OpIsProc DEF ReleaseInv
  <1>2. loc[o] \in Locals /\ loc \in [Proc -> Locals]
    BY <1>1 DEF TypeOK
  <1>3. activeRoute \in MaybeRelease /\ router \in MaybeRelease
    BY <1>1 DEF TypeOK
  <1>4. {"create", "findRoute", "readPrev", "upsert", "stopPrev"} \subseteq PC
    BY DEF PC, CallerPC
  <1>5. CASE \E r \in Release, k \in SUBSET Release : RollbackSelect(o, r, k)
    <2>1. PICK t \in Release :
            /\ loc' = [loc EXCEPT ![o].target = t] /\ Goto(o, "create")
            /\ UNCHANGED <<release, minted, log, activeRoute, router, up, tr,
                           rows, crashes>>
      BY <1>5 DEF RollbackSelect, Candidates, db
    <2>2. loc' = [loc EXCEPT ![o] = [loc[o] EXCEPT !.target = t]]
      BY <1>1, <1>2, <2>1
    <2>3. [loc[o] EXCEPT !.target = t] \in Locals
      BY <1>2 DEF Locals, MaybeRelease
    <2>4. loc' \in [Proc -> Locals] /\ loc'[o].target = t
          /\ \A q \in Proc \ {o} : loc'[q] = loc[q]
      BY <1>1, <1>2, <2>2, <2>3 DEF Locals
    <2>5. pc'[o] = "create" => Knows(o)'
      BY <2>4 DEF Knows, CallerKnows, CallKnows, CasKnows
    <2> QED  BY <1>1, <1>3, <1>4, <2>1, <2>4, <2>5, MoveStep
  <1>6. CASE RouteTraffic(o)
    <2>1. /\ Seen(loc[o].release, loc[o].version)
          /\ router' \in MaybeRelease /\ Goto(o, "findRoute")
          /\ UNCHANGED <<release, minted, log, activeRoute, up, loc, tr, rows,
                         crashes>>
      BY <1>1, <1>2, <1>6 DEF RouteTraffic, RouterActivate, Knows, CallerKnows, db, Locals
    <2>2. pc'[o] = "findRoute" => Knows(o)'
      BY <2>1 DEF Knows, CallerKnows, CallKnows, CasKnows, Seen
    <2> QED  BY <1>1, <1>2, <1>4, <2>1, <2>2, MoveStep
  <1>7. CASE FindRoute(o)
    <2> DEFINE x == IF activeRoute = loc[o].release THEN None ELSE activeRoute
               q == IF x = None THEN "upsert" ELSE "readPrev"
    <2>1. x \in MaybeRelease /\ q \in PC  BY <1>3, <1>4 DEF MaybeRelease
    <2>2. /\ Seen(loc[o].release, loc[o].version)
          /\ loc' = [loc EXCEPT ![o].prev = x]
          /\ UNCHANGED <<release, minted, log, activeRoute, router, up, tr,
                         rows, crashes>>
      BY <1>1, <1>7 DEF FindRoute, Knows, CallerKnows, db
    <2>3. Goto(o, IF loc'[o].prev = None THEN "upsert" ELSE "readPrev")
      BY <1>7 DEF FindRoute
    <2> HIDE DEF x
    <2>4. loc' = [loc EXCEPT ![o] = [loc[o] EXCEPT !.prev = x]]
      BY <1>1, <1>2, <2>2
    <2>5. [loc[o] EXCEPT !.prev = x] \in Locals
      BY <1>2, <2>1 DEF Locals
    <2>6. /\ loc' \in [Proc -> Locals] /\ loc'[o].prev = x
          /\ loc'[o].release = loc[o].release
          /\ loc'[o].version = loc[o].version
          /\ \A p \in Proc \ {o} : loc'[p] = loc[p]
      BY <1>1, <1>2, <2>4, <2>5 DEF Locals
    <2>7. Goto(o, q)  BY <2>3, <2>6
    <2>8. pc'[o] = q => Knows(o)'
      <3>1. q = "upsert" <=> x = None  OBVIOUS
      <3>2. q \in {"upsert", "readPrev"}  OBVIOUS
      <3> HIDE DEF q
      <3> QED
        BY <2>2, <2>6, <3>1, <3>2
        DEF Knows, CallerKnows, CallKnows, CasKnows, Seen
    <2> HIDE DEF q
    <2> QED  BY <1>1, <1>3, <2>1, <2>2, <2>6, <2>7, <2>8, MoveStep
  <1>8. CASE ReadPrev(o)
    <2> DEFINE v == release[loc[o].prev].version
    <2>1. /\ Seen(loc[o].release, loc[o].version) /\ loc[o].prev # None
          /\ loc' = [loc EXCEPT ![o].prevVersion = v]
          /\ Goto(o, "upsert")
          /\ UNCHANGED <<release, minted, log, activeRoute, router, up, tr,
                         rows, crashes>>
      BY <1>1, <1>8 DEF ReadPrev, Knows, CallerKnows, db
    <2>2. loc[o].prev \in Release /\ v \in Nat
      BY <1>1, <1>2, <2>1, TypeFacts DEF Locals, MaybeRelease
    <2>3. Seen(loc[o].prev, v)  BY <2>2 DEF Seen
    <2> HIDE DEF v
    <2>4. loc' = [loc EXCEPT ![o] = [loc[o] EXCEPT !.prevVersion = v]]
      BY <1>1, <1>2, <2>1
    <2>5. [loc[o] EXCEPT !.prevVersion = v] \in Locals
      BY <1>2, <2>2 DEF Locals
    <2>6. /\ loc' \in [Proc -> Locals] /\ loc'[o].prev = loc[o].prev
          /\ loc'[o].prevVersion = v
          /\ loc'[o].release = loc[o].release
          /\ loc'[o].version = loc[o].version
          /\ \A p \in Proc \ {o} : loc'[p] = loc[p]
      BY <1>1, <1>2, <2>4, <2>5 DEF Locals
    <2>7. pc'[o] = "upsert" => Knows(o)'
      BY <2>1, <2>3, <2>6
      DEF Knows, CallerKnows, CallKnows, CasKnows, Seen
    <2> QED  BY <1>1, <1>3, <1>4, <2>1, <2>6, <2>7, MoveStep
  <1>9. CASE Unroute(o)
    <2>1. /\ Seen(loc[o].prev, loc[o].version)
          /\ router' \in MaybeRelease /\ Goto(o, "stopPrev")
          /\ UNCHANGED <<release, minted, log, activeRoute, up, loc, tr, rows,
                         crashes>>
      BY <1>1, <1>9 DEF Unroute, RouterRemove, Knows, CallerKnows, db,
                        MaybeRelease
    <2>2. pc'[o] = "stopPrev" => Knows(o)'
      BY <2>1 DEF Knows, CallerKnows, CallKnows, CasKnows, Seen
    <2> QED  BY <1>1, <1>2, <1>4, <2>1, <2>2, MoveStep
  <1> QED  BY <1>5, <1>6, <1>7, <1>8, <1>9

-----------------------------------------------------------------------------
(* The recovery worker, and interruptions                                  *)

\* The rows the recovery worker selects are readings of their releases.
LEMMA RecoverScanInv ==
  ASSUME ReleaseInv, RecoverScan
  PROVE  ReleaseInv'
  <1> DEFINE found == {r \in Release : release[r].status \in Intermediate}
             Read(r) == [id |-> r, status |-> release[r].status,
                         version |-> release[r].version]
  <1>1. TypeOK /\ Recovery \in Proc  BY OpIsProc DEF ReleaseInv
  <1>2. /\ rows' = {Read(r) : r \in found} /\ Goto(Recovery, "rows")
        /\ UNCHANGED <<release, minted, log, activeRoute, router, up, loc, tr,
                       crashes>>
    BY DEF RecoverScan, RecoverRowsIn, db
  <1>3. pc' \in [Proc -> PC] /\ pc'[Recovery] = "rows"
        /\ \A o \in Proc \ {Recovery} : pc'[o] = pc[o]
    <2>1. "rows" \in PC  BY DEF PC, CallerPC
    <2> QED  BY <1>1, <1>2, <2>1, GotoFacts
  <1>4. ASSUME NEW r \in found
        PROVE  /\ Read(r) \in Row
               /\ Read(r).id = r /\ Read(r).version = release[r].version
               /\ release[r].version <= release[r].version
    <2>1. release[r].version \in Nat  BY <1>1, TypeFacts
    <2> QED  BY <2>1 DEF Row
  <1> HIDE DEF found, Read
  <1>5. rows' \subseteq Row  BY <1>2, <1>4
  <1>6. TypeOK'  BY <1>1, <1>2, <1>3, <1>5 DEF TypeOK
  <1>7. RowsKnow'
    <2> SUFFICES ASSUME NEW row \in rows'
                 PROVE  row.id \in Release /\ row.version <= release'[row.id].version
      BY DEF RowsKnow, Seen
    <2>1. PICK r \in found : row = Read(r)  BY <1>2
    <2>2. r \in Release  BY DEF found
    <2> QED  BY <1>2, <1>4, <2>1, <2>2
  <1>8. Grows  BY <1>1, <1>2 DEF Grows, TypeOK, MaxVersion
  <1>9. Still(Recovery)  BY <1>2, <1>3 DEF Still
  <1>10. Knows(Recovery)'
    BY <1>3 DEF Knows, CallerKnows, CallKnows, CasKnows
  <1>11. LifeInv'  BY <1>2 DEF ReleaseInv, LifeInv
  <1> QED
    BY <1>1, <1>6, <1>7, <1>8, <1>9, <1>10, <1>11, OthersKnow DEF ReleaseInv

\* Recovery passes the version of the row it looked at.
LEMMA RecoverRowInv ==
  ASSUME ReleaseInv, NEW row \in rows, RecoverRow(row)
  PROVE  ReleaseInv'
  <1> DEFINE to == RecoveredStatus(row)
             call == [id |-> row.id, expected |-> row.version, to |-> to,
                      from |-> row.status, next |-> "rows"]
             q == IF to = "active" THEN "read" ELSE "recStop"
  <1>1. TypeOK /\ Recovery \in Proc /\ row \in Row /\ Seen(row.id, row.version)
    BY OpIsProc DEF ReleaseInv, RowsKnow, TypeOK
  <1>2. /\ rows' = rows \ {row} /\ tr' = [tr EXCEPT ![Recovery] = call]
        /\ Goto(Recovery, q)
        /\ UNCHANGED <<release, minted, log, activeRoute, router, up, loc,
                       crashes>>
    BY DEF RecoverRow, db
  <1>3. q \in {"read", "recStop"}  OBVIOUS
  <1>4. pc' \in [Proc -> PC] /\ pc'[Recovery] = q
        /\ \A o \in Proc \ {Recovery} : pc'[o] = pc[o]
    <2>1. q \in PC  BY DEF PC, CallerPC
    <2> HIDE DEF q
    <2> QED  BY <1>1, <1>2, <2>1, GotoFacts
  <1>5. to \in Status
    <2>1. row.status \in Intermediate  BY <1>1 DEF Row
    <2> QED  BY <2>1 DEF RecoveredStatus, Intermediate, Status
  <1> HIDE DEF to, q
  <1>6. call \in Call /\ call.id = row.id /\ call.expected = row.version
        /\ call.next = "rows"
    BY <1>1, <1>5
    DEF Row, Call, MaybeRelease, Status, Intermediate, CallerPC
  <1> HIDE DEF call
  <1>7. tr' \in [Proc -> Call] /\ tr'[Recovery] = call
        /\ \A o \in Proc \ {Recovery} : tr'[o] = tr[o]
    BY <1>1, <1>2, <1>6 DEF TypeOK
  <1>8. TypeOK'  BY <1>1, <1>2, <1>4, <1>7 DEF TypeOK
  <1>9. Knows(Recovery)'
    <2>1. CallerKnows(Recovery)' /\ CasKnows(Recovery)'
      BY <1>3, <1>4 DEF CallerKnows, CasKnows
    <2>2. CallKnows(Recovery)'
      BY <1>1, <1>2, <1>6, <1>7 DEF CallKnows, Seen
    <2> QED  BY <2>1, <2>2 DEF Knows
  <1>10. Still(Recovery)  BY <1>2, <1>4, <1>7 DEF Still
  <1> QED  BY <1>1, <1>2, <1>8, <1>9, <1>10, LocalStep

\* Stopping the container and removing the route, on the way to transition.
LEMMA RecoverCallsInv ==
  ASSUME ReleaseInv, RecoverStop \/ RecoverUnroute
  PROVE  ReleaseInv'
  <1>1. TypeOK /\ Knows(Recovery) /\ Recovery \in Proc
    BY OpIsProc DEF ReleaseInv
  <1>2. /\ UNCHANGED <<release, minted, log, activeRoute, loc, tr, rows,
                       crashes>>
        /\ up' \subseteq Release /\ router' \in MaybeRelease
        /\ pc[Recovery] \in {"recStop", "recUnroute"}
    BY <1>1
    DEF RecoverStop, RecoverUnroute, RouterRemove, db, TypeOK, MaybeRelease
  <1>3. \E q \in {"recUnroute", "read"} : Goto(Recovery, q)
    BY DEF RecoverStop, RecoverUnroute
  <1>4. PICK q \in {"recUnroute", "read"} : Goto(Recovery, q)  BY <1>3
  <1>5. pc' \in [Proc -> PC] /\ pc'[Recovery] = q
        /\ \A o \in Proc \ {Recovery} : pc'[o] = pc[o]
    <2>1. q \in PC  BY DEF PC, CallerPC
    <2> QED  BY <1>1, <1>4, <2>1, GotoFacts
  <1>6. TypeOK'  BY <1>1, <1>2, <1>5 DEF TypeOK
  <1>7. CallerKnows(Recovery)' /\ CasKnows(Recovery)'
    BY <1>5 DEF CallerKnows, CasKnows
  <1>8. CallKnows(Recovery)'
    BY <1>1, <1>2, <1>5 DEF Knows, CallKnows, Seen
  <1>9. Still(Recovery)  BY <1>2, <1>5 DEF Still
  <1> QED  BY <1>1, <1>2, <1>6, <1>7, <1>8, <1>9, LocalStep DEF Knows

\* Whatever ends an operation, normally or not.
LEMMA EndInv ==
  ASSUME ReleaseInv, NEW p \in Proc,
         Crash(p) \/ (p = Recovery /\ RecoverEnd)
  PROVE  ReleaseInv'
  <1>1. TypeOK  BY DEF ReleaseInv
  <1>2. End(p) /\ UNCHANGED <<release, minted, log, activeRoute, router, up>>
        /\ rows' \subseteq rows
    BY DEF Crash, RecoverEnd, db
  <1>3. crashes' \in 0..MaxCrashes
    BY <1>1, ReleasesAssumption DEF Crash, RecoverEnd, TypeOK
  <1>4. /\ pc' \in [Proc -> PC] /\ loc' \in [Proc -> Locals]
        /\ tr' \in [Proc -> Call]
        /\ Still(p) /\ Knows(p)'
    BY <1>1, <1>2, EndFacts
  <1>5. TypeOK'  BY <1>1, <1>2, <1>3, <1>4 DEF TypeOK
  <1> QED  BY <1>2, <1>4, <1>5, LocalStep

-----------------------------------------------------------------------------
(* The theorems                                                            *)

\* No release exists in the beginning.
LEMMA InitInv == Init => ReleaseInv
  <1> SUFFICES ASSUME Init PROVE ReleaseInv  OBVIOUS
  <1> DEFINE none == [status |-> "none", version |-> 0, url |-> None]
  <1>1. NoLocals \in Locals /\ NoCall \in Call /\ "idle" \in PC
    BY DEF NoLocals, Locals, MaybeRelease, NoCall, Call, Status, CallerPC, PC
  <1>2. none \in [status : Status, version : 0..MaxVersion, url : MaybeRelease]
        /\ none.status = "none" /\ none.version = 0
    BY DEF Status, MaxVersion, MaybeRelease
  <1>3. /\ minted = 0 /\ activeRoute = None /\ router = None /\ up = {}
        /\ rows = {} /\ crashes = 0
        /\ release = [r \in Release |-> none]
        /\ log = [r \in Release |-> {}]
        /\ pc = [p \in Proc |-> "idle"]
        /\ loc = [p \in Proc |-> NoLocals]
        /\ tr = [p \in Proc |-> NoCall]
    BY DEF Init
  <1> HIDE DEF none
  <1>4. TypeOK
    <2>1. 0 \in 0..MaxReleases /\ 0 \in 0..MaxCrashes
      BY ReleasesAssumption
    <2>2. /\ release \in [Release -> [status : Status,
                                      version : 0..MaxVersion,
                                      url : MaybeRelease]]
          /\ pc \in [Proc -> PC] /\ loc \in [Proc -> Locals]
          /\ tr \in [Proc -> Call]
          /\ log \in [Release -> SUBSET (Status \X Status)]
      BY <1>1, <1>2, <1>3
    <2> QED  BY <1>3, <2>1, <2>2 DEF TypeOK, MaybeRelease
  <1>5. LifeInv  BY <1>2, <1>3 DEF LifeInv, Life
  <1>6. RowsKnow  BY <1>3 DEF RowsKnow
  <1>7. \A p \in Proc : Knows(p)
    BY <1>3 DEF Knows, CallerKnows, CallKnows, CasKnows
  <1> QED  BY <1>4, <1>5, <1>6, <1>7 DEF ReleaseInv

\* What a step of the system does to the releases.
LegalStep ==
  \A r \in Release :
    release'[r].status # release[r].status =>
      \/ <<release[r].status, release'[r].status>> \in Legal
      \/ release[r].status = "none" /\ release'[r].status = "starting"

\* The three statements of transition keep the invariant and change a
\* status only as Legal allows.
LEMMA TransitionStepInv ==
  ASSUME ReleaseInv, NEW p \in Proc, TransitionStep(p)
  PROVE  ReleaseInv' /\ LegalStep
  <1>1. CASE TransitionRead(p)
    BY <1>1, TransitionReadInv DEF LegalStep, TransitionRead, db
  <1>2. CASE TransitionCas(p)
    <2>1. ReleaseInv'  BY <1>2, TransitionCasInv
    <2>2. CASE release[tr[p].id].version = tr[p].expected
      <3>1. /\ <<release[tr[p].id].status, tr[p].to>> \in Legal
            /\ release'[tr[p].id].status = tr[p].to
            /\ \A r \in Release \ {tr[p].id} : release'[r] = release[r]
        BY <1>2, <2>2, CasFacts
      <3> QED  BY <2>1, <3>1 DEF LegalStep
    <2>3. CASE release[tr[p].id].version # tr[p].expected
      <3>1. UNCHANGED release  BY <1>2, <2>3 DEF TransitionCas
      <3> QED  BY <2>1, <3>1 DEF LegalStep
    <2> QED  BY <2>2, <2>3
  <1>3. CASE TransitionRecord(p)
    BY <1>3, TransitionRecordInv DEF LegalStep, TransitionRecord
  <1> QED  BY <1>1, <1>2, <1>3 DEF TransitionStep

\* So does every step of the system.
LEMMA NextInv == ReleaseInv /\ [Next]_vars => ReleaseInv' /\ LegalStep
  <1> SUFFICES ASSUME ReleaseInv, [Next]_vars PROVE ReleaseInv' /\ LegalStep
    OBVIOUS
  <1>1. CASE \E p \in Proc : TransitionStep(p)
    BY <1>1, TransitionStepInv
  <1>2. CASE \E o \in Op : Deploy(o) \/ RollbackCreate(o)
    BY <1>2, CreateSteps DEF LegalStep
  <1>3. CASE \E o \in Op : \/ Probe(o) \/ StopNew(o) \/ UpsertRoute(o)
                           \/ DrainPrev(o) \/ StopPrev(o)
    <2>1. UNCHANGED release
      BY <1>3 DEF Probe, StopNew, UpsertRoute, DrainPrev, StopPrev, db
    <2> QED  BY <1>3, <2>1, CallSteps DEF LegalStep
  <1>4. CASE \E o \in Op : \/ \E r \in Release, k \in SUBSET Release : RollbackSelect(o, r, k)
                           \/ RouteTraffic(o) \/ FindRoute(o) \/ ReadPrev(o)
                           \/ Unroute(o)
    <2>1. UNCHANGED release
      BY <1>4 DEF RollbackSelect, RouteTraffic, FindRoute, ReadPrev, Unroute, db
    <2> QED  BY <1>4, <2>1, MoveSteps DEF LegalStep
  <1>5. CASE RecoverScan
    BY <1>5, RecoverScanInv DEF LegalStep, RecoverScan, RecoverRowsIn, db
  <1>6. CASE \E row \in rows : RecoverRow(row)
    BY <1>6, RecoverRowInv DEF LegalStep, RecoverRow, db
  <1>7. CASE RecoverStop \/ RecoverUnroute
    BY <1>7, RecoverCallsInv DEF LegalStep, RecoverStop, RecoverUnroute, db
  <1>8. CASE RecoverEnd \/ \E p \in Proc : Crash(p)
    BY <1>8, EndInv, OpIsProc DEF LegalStep, RecoverEnd, Crash, db
  <1>9. CASE UNCHANGED vars
    <2>1. /\ UNCHANGED <<release, minted, log, activeRoute, router, up, pc, loc,
                         tr, rows, crashes>>
      BY <1>9 DEF vars, db
    <2>2. TypeOK'  BY <2>1 DEF ReleaseInv, TypeOK
    <2>3. Grows  BY <2>1 DEF Grows, ReleaseInv, TypeOK, MaxVersion
    <2>4. \A q \in Proc : Knows(q)'
      BY <2>1, <2>3, StillKnows DEF ReleaseInv
    <2>5. ReleaseInv'
      BY <2>1, <2>2, <2>3, <2>4, RowsStillKnow DEF ReleaseInv, LifeInv
    <2> QED  BY <2>1, <2>5 DEF LegalStep
  <1>10. ASSUME NEW o \in Op, Begin(o) \/ OpStep(o)
         PROVE  ReleaseInv' /\ LegalStep
    BY <1>10, <1>1, <1>2, <1>3, <1>4, OpIsProc DEF Begin, OpStep
  <1>11. CASE RecoveryStep
    BY <1>11, <1>1, <1>5, <1>6, <1>7, <1>8, OpIsProc DEF RecoveryStep
  <1> QED  BY <1>8, <1>9, <1>10, <1>11 DEF Next

\* ReleaseInv is an invariant of the release controller: every version held
\* by an orchestration, by a transition under way or by the recovery worker
\* was read from the release it will be passed for.
THEOREM VersionsWereRead == Spec => []ReleaseInv
  BY InitInv, NextInv, PTL DEF Spec

\* Type correctness of the release controller.  It bounds the version of a
\* release by MaxVersion: transition raises the version on every change, and
\* a release changes at most five times before it is stopped or failed.
THEOREM ReleasesTypeCorrect == Spec => []TypeOK
  <1>1. ReleaseInv => TypeOK  BY DEF ReleaseInv
  <1> QED  BY <1>1, VersionsWereRead, PTL

\* For any number of orchestrations and recoveries interrupted anywhere, the
\* status of a release changes only as can_transition_to allows: transition
\* reads and checks the status in one statement and updates it in another,
\* and the version in the second's WHERE is enough.
THEOREM TransitionsAreLegal == Spec => LegalTransitions
  <1>1. LegalStep =>
          \A r \in Release :
            release'[r].status # release[r].status =>
              \/ <<release[r].status, release'[r].status>> \in Legal
              \/ release[r].status = "none" /\ release'[r].status = "starting"
    BY DEF LegalStep
  <1>2. Spec => [][LegalStep]_vars
    BY InitInv, NextInv, PTL DEF Spec
  <1> QED  BY <1>1, <1>2, PTL DEF LegalTransitions

-----------------------------------------------------------------------------
(* The transition history                                                  *)

\* p has changed release r and has not recorded it yet.
Pending(p, r) == pc[p] = "record" /\ tr[p].id = r

\* The changes of r that are recorded or about to be.
Story(r) ==
  log[r] \cup {<<tr[p].from, tr[p].to>> : p \in {q \in Proc : Pending(q, r)}}

\* How far a status is from the beginning of a release's life.
Rank(s) == CASE s = "none" -> 0
             [] s = "starting" -> 1
             [] s = "health_checking" -> 2
             [] s = "ready" -> 3
             [] s = "active" -> 4
             [] s = "draining" -> 5
             [] OTHER -> 6

\* S leads from starting to the status s, one change for each version, and
\* never back: what it left lies before s.
Tells(S, s, v) ==
  /\ IsFiniteSet(S) /\ Cardinality(S) + 1 = v
  /\ {"starting"} \cup {e[2] : e \in S} = {e[1] : e \in S} \cup {s}
  /\ \A e \in S : Rank(e[1]) < Rank(s)

StoryTold(r) ==
  /\ release[r].status = "none" => Story(r) = {}
  /\ release[r].status # "none" =>
       Tells(Story(r), release[r].status, release[r].version)

StoryInv == crashes = 0 => \A r \in Release : StoryTold(r)

\* A legal change goes forward.
LEMMA LegalRank ==
  ASSUME NEW s, NEW t, <<s, t>> \in Legal
  PROVE  Rank(s) \in Nat /\ Rank(t) \in Nat /\ Rank(s) < Rank(t)
         /\ s # "none" /\ t # "none"
  BY DEF Legal, Rank

\* Ranks are natural numbers.
LEMMA RankType == \A s : Rank(s) \in Nat
  BY DEF Rank

\* A release whose row and story stay keeps its story told.
LEMMA StoryStays ==
  ASSUME StoryInv, UNCHANGED crashes,
         \A r \in Release : release'[r] = release[r] /\ Story(r)' = Story(r)
  PROVE  StoryInv'
  BY DEF StoryInv, StoryTold

\* The compare-and-set adds the change it made.
LEMMA StoryGrows ==
  ASSUME NEW S, NEW s, NEW t, NEW v \in Nat, <<s, t>> \in Legal,
         Tells(S, s, v)
  PROVE  Tells(S \cup {<<s, t>>}, t, v + 1)
  <1> DEFINE x == <<s, t>>
             T == S \cup {x}
  <1>1. x[1] = s /\ x[2] = t  OBVIOUS
  <1>2. Rank(s) \in Nat /\ Rank(t) \in Nat /\ Rank(s) < Rank(t)
    BY LegalRank
  <1> HIDE DEF x
  <1>3. x \notin S  BY <1>1, <1>2 DEF Tells
  <1>4. IsFiniteSet(T) /\ Cardinality(T) = Cardinality(S) + 1
    BY <1>3, FS_AddElement, Zenon DEF Tells
  <1>5. Cardinality(S) \in Nat /\ Cardinality(S) + 1 = v
    BY FS_CardinalityType DEF Tells
  <1>6. {e[2] : e \in T} = {e[2] : e \in S} \cup {t}
        /\ {e[1] : e \in T} = {e[1] : e \in S} \cup {s}
    BY <1>1
  <1>7. \A e \in T : Rank(e[1]) < Rank(t)
    BY <1>1, <1>2, RankType DEF Tells
  <1>8. {"starting"} \cup {e[2] : e \in T} = {e[1] : e \in T} \cup {t}
    BY <1>6 DEF Tells
  <1>9. Tells(T, t, v + 1)  BY <1>4, <1>5, <1>7, <1>8 DEF Tells
  <1> QED  BY <1>9 DEF x

\* A step of p that neither begins nor ends a record leaves every story.
LEMMA StoryLocal ==
  ASSUME TypeOK, StoryInv, NEW p \in Proc, NEW q, q # "record", Goto(p, q),
         pc[p] # "record", \A o \in Proc : o # p => tr'[o] = tr[o],
         UNCHANGED <<log, release, crashes>>
  PROVE  StoryInv'
  <1>1. pc'[p] = q /\ \A o \in Proc : o # p => pc'[o] = pc[o]
    BY DEF Goto, TypeOK
  <1>2. ASSUME NEW r \in Release PROVE Story(r)' = Story(r)
    <2>1. \A o \in Proc : Pending(o, r)' <=> Pending(o, r)
      BY <1>1 DEF Pending
    <2>2. \A o \in Proc : Pending(o, r) => tr'[o] = tr[o]
      BY DEF Pending
    <2> QED  BY <2>1, <2>2 DEF Story
  <1> QED  BY <1>2, StoryStays

\* The calls of transition and the end of an operation are such steps.
LEMMA StoryCall ==
  ASSUME TypeOK, StoryInv, NEW p \in Proc, pc[p] # "record",
         UNCHANGED <<log, release, crashes>>,
         \/ \E r, v, s, q : CallTransition(p, r, v, s, q)
         \/ End(p)
         \/ Error(p)
         \/ \E q : q # "record" /\ Goto(p, q) /\ UNCHANGED tr
  PROVE  StoryInv'
  <1>1. tr \in [Proc -> Call]  BY DEF TypeOK
  <1>2. ASSUME NEW c, tr' = [tr EXCEPT ![p] = c], NEW q, q # "record",
               Goto(p, q)
        PROVE  StoryInv'
    <2>1. \A o \in Proc : o # p => tr'[o] = tr[o]  BY <1>1, <1>2
    <2> QED  BY <1>2, <2>1, StoryLocal
  <1>3. ASSUME NEW r, NEW v, NEW s, NEW q, CallTransition(p, r, v, s, q)
        PROVE  StoryInv'
    BY <1>2, <1>3, Zenon DEF CallTransition
  <1>4. CASE End(p)  BY <1>2, <1>4 DEF End
  <1>5. CASE Error(p)  BY <1>2, <1>4, <1>5 DEF Error
  <1>6. ASSUME NEW q, q # "record", Goto(p, q), UNCHANGED tr
        PROVE  StoryInv'
    BY <1>6, StoryLocal
  <1> QED  BY <1>3, <1>4, <1>5, <1>6

\* The statements of transition keep every story told.
LEMMA TransitionStory ==
  ASSUME ReleaseInv, StoryInv, NEW p \in Proc, TransitionStep(p)
  PROVE  StoryInv'
  <1>0. TypeOK /\ tr[p] \in Call /\ Knows(p)
    BY TypeFacts DEF ReleaseInv
  <1>1. CASE TransitionRead(p)
    <2>1. UNCHANGED <<log, release, crashes>> /\ pc[p] # "record"
      BY <1>1 DEF TransitionRead, db
    <2>2. CASE Error(p)  BY <1>0, <2>1, <2>2, StoryCall
    <2>3. CASE \E f : Goto(p, "cas") /\ tr' = [tr EXCEPT ![p].from = f]
      <3>1. \A o \in Proc : o # p => tr'[o] = tr[o]
        BY <1>0, <2>3 DEF TypeOK
      <3> QED  BY <1>0, <2>1, <2>3, <3>1, StoryLocal
    <2> QED  BY <1>1, <2>2, <2>3, Zenon DEF TransitionRead
  <1>2. CASE TransitionCas(p)
    <2>1. UNCHANGED <<log, crashes>> /\ pc[p] = "cas"
      BY <1>2 DEF TransitionCas
    <2>2. CASE release[tr[p].id].version # tr[p].expected
      <3>1. Error(p) /\ UNCHANGED release  BY <1>2, <2>2 DEF TransitionCas
      <3> QED  BY <1>0, <2>1, <3>1, StoryCall
    <2>3. CASE release[tr[p].id].version = tr[p].expected
      <3>1. PICK x : x = tr[p].id  OBVIOUS
      <3>2. /\ x \in Release
            /\ <<release[x].status, tr[p].to>> \in Legal
            /\ release'[x].status = tr[p].to
            /\ release'[x].version = release[x].version + 1
            /\ \A r \in Release \ {x} : release'[r] = release[r]
            /\ Goto(p, "record") /\ UNCHANGED <<loc, tr>>
        BY <1>2, <2>3, <3>1, CasFacts
      <3>3. release[x].status = tr[p].from
        BY <1>0, <2>1, <2>3, <3>1 DEF Knows, CasKnows
      <3>4. pc'[p] = "record" /\ \A o \in Proc : o # p => pc'[o] = pc[o]
        BY <1>0, <3>2 DEF Goto, TypeOK
      <3>5. \A r \in Release \ {x} : Story(r)' = Story(r)
        <4> SUFFICES ASSUME NEW r \in Release, r # x PROVE Story(r)' = Story(r)
          OBVIOUS
        <4>1. \A o \in Proc : Pending(o, r)' <=> Pending(o, r)
          BY <2>1, <3>1, <3>2, <3>4 DEF Pending
        <4> QED  BY <2>1, <3>2, <4>1 DEF Story
      <3>6. Story(x)' = Story(x) \cup {<<tr[p].from, tr[p].to>>}
        <4>1. \A o \in Proc : Pending(o, x)' <=> Pending(o, x) \/ o = p
          BY <3>1, <3>2, <3>4 DEF Pending
        <4> QED  BY <2>1, <3>2, <4>1 DEF Story
      <3> SUFFICES ASSUME crashes = 0, NEW r \in Release PROVE StoryTold(r)'
        BY <2>1 DEF StoryInv
      <3>7. CASE r # x
        BY <3>2, <3>5, <3>7 DEF StoryInv, StoryTold
      <3>8. CASE r = x
        <4>1. release[x].status # "none" /\ tr[p].to # "none"
          BY <3>2, LegalRank
        <4>2. Tells(Story(x), release[x].status, release[x].version)
          BY <3>2, <4>1 DEF StoryInv, StoryTold
        <4>3. release[x].version \in Nat  BY <1>0, <3>2, TypeFacts
        <4>4. Tells(Story(x) \cup {<<release[x].status, tr[p].to>>}, tr[p].to,
                    release[x].version + 1)
          BY <3>2, <4>2, <4>3, StoryGrows
        <4>5. Tells(Story(x)', release'[x].status, release'[x].version)
          BY <3>2, <3>3, <3>6, <4>4
        <4> QED  BY <3>2, <3>8, <4>1, <4>5 DEF StoryTold
      <3> QED  BY <3>7, <3>8
    <2> QED  BY <2>2, <2>3
  <1>3. CASE TransitionRecord(p)
    <2>1. PICK x, f, t : /\ x \in Release /\ x = tr[p].id
                         /\ f = tr[p].from /\ t = tr[p].to
      <3>1. pc[p] = "record"  BY <1>3 DEF TransitionRecord
      <3> QED  BY <1>0, <3>1 DEF Knows, CallKnows, Seen
    <2>2. /\ log' = [log EXCEPT ![x] = @ \cup {<<f, t>>}]
          /\ pc[p] = "record" /\ Goto(p, tr[p].next)
          /\ tr' = [tr EXCEPT ![p] = NoCall]
          /\ UNCHANGED <<release, crashes>>
      BY <1>3, <2>1 DEF TransitionRecord
    <2>3. tr[p].next # "record"
      BY <1>0, <2>2 DEF Knows, CallKnows
    <2>4. /\ pc'[p] # "record"
          /\ \A o \in Proc : o # p => pc'[o] = pc[o] /\ tr'[o] = tr[o]
      BY <1>0, <2>2, <2>3 DEF Goto, TypeOK
    <2>5. ASSUME NEW r \in Release PROVE Story(r)' = Story(r)
      <3>1. \A o \in Proc : o # p => (Pending(o, r)' <=> Pending(o, r))
        BY <2>4 DEF Pending
      <3>2. ~Pending(p, r)' /\ (Pending(p, r) <=> r = x)
        BY <2>1, <2>2, <2>4 DEF Pending
      <3>3. log'[r] = IF r = x THEN log[r] \cup {<<f, t>>} ELSE log[r]
        BY <1>0, <2>1, <2>2 DEF TypeOK
      <3> QED  BY <2>1, <2>4, <3>1, <3>2, <3>3 DEF Story
    <2> QED  BY <2>2, <2>5, StoryStays
  <1> QED  BY <1>1, <1>2, <1>3 DEF TransitionStep

\* A release is created with an empty story.
LEMMA CreateStory ==
  ASSUME ReleaseInv, StoryInv, NEW o \in Op, NEW u, pc[o] # "record",
         CreateRelease(o, minted + 1, u)
  PROVE  StoryInv'
  <1>1. PICK m : m = minted + 1  OBVIOUS
  <1>2. TypeOK /\ LifeInv /\ o \in Proc /\ m \in Release /\ m > minted
    BY <1>1, OpIsProc, ReleasesAssumption
       DEF ReleaseInv, TypeOK, CreateRelease, Release
  <1>3. /\ release' = [release EXCEPT ![m] =
                         [status |-> "starting", version |-> 1, url |-> u]]
        /\ Goto(o, "read") /\ UNCHANGED <<log, crashes>>
        /\ \E c : tr' = [tr EXCEPT ![o] = c]
    BY <1>1, Zenon DEF CreateRelease, CallTransition
  <1>4. /\ release'[m].status = "starting" /\ release'[m].version = 1
        /\ \A r \in Release : r # m => release'[r] = release[r]
    BY <1>2, <1>3 DEF TypeOK
  <1>5. /\ pc'[o] = "read"
        /\ \A p \in Proc : p # o => pc'[p] = pc[p] /\ tr'[p] = tr[p]
    BY <1>2, <1>3 DEF Goto, TypeOK
  <1>6. ASSUME NEW r \in Release PROVE Story(r)' = Story(r)
    <2>1. \A p \in Proc : Pending(p, r)' <=> Pending(p, r)
      BY <1>5 DEF Pending
    <2>2. \A p \in Proc : Pending(p, r) => tr'[p] = tr[p]
      BY <1>5 DEF Pending
    <2> QED  BY <1>3, <2>1, <2>2 DEF Story
  <1> SUFFICES ASSUME crashes = 0, NEW r \in Release PROVE StoryTold(r)'
    BY <1>3 DEF StoryInv
  <1>7. CASE r # m  BY <1>4, <1>6, <1>7 DEF StoryInv, StoryTold
  <1>8. CASE r = m
    <2>1. Story(m) = {}  BY <1>2 DEF LifeInv, StoryInv, StoryTold
    <2>2. Tells({}, "starting", 1)  BY FS_EmptySet DEF Tells
    <2> QED  BY <1>2, <1>4, <1>6, <1>8, <2>1, <2>2 DEF StoryTold
  <1> QED  BY <1>7, <1>8

\* So does every step of the system, until something is interrupted.
LEMMA NextStory == ReleaseInv /\ StoryInv /\ [Next]_vars => StoryInv'
  <1> SUFFICES ASSUME ReleaseInv, StoryInv, [Next]_vars PROVE StoryInv'
    OBVIOUS
  <1>0. TypeOK  BY DEF ReleaseInv
  <1>1. ASSUME NEW p \in Proc, TransitionStep(p) PROVE StoryInv'
    BY <1>1, TransitionStory
  <1>2. ASSUME NEW o \in Op, Deploy(o) \/ RollbackCreate(o) PROVE StoryInv'
    BY <1>2, CreateStory DEF Deploy, RollbackCreate, MayBegin
  <1>3. ASSUME NEW o \in Op,
               \/ Probe(o) \/ StopNew(o) \/ UpsertRoute(o) \/ DrainPrev(o)
               \/ StopPrev(o)
        PROVE  StoryInv'
    <2>1. o \in Proc /\ UNCHANGED <<log, release, crashes>>
      BY <1>3, OpIsProc
         DEF Probe, StopNew, UpsertRoute, DrainPrev, StopPrev, db
    <2>2. /\ pc[o] # "record"
          /\ \/ \E r, v, s, q : CallTransition(o, r, v, s, q)
             \/ Goto(o, "stopNew") /\ UNCHANGED tr
      BY <1>3, Zenon DEF Probe, StopNew, UpsertRoute, DrainPrev, StopPrev
    <2> QED  BY <1>0, <2>1, <2>2, StoryCall
  <1>4. ASSUME NEW o \in Op,
               \/ \E r \in Release, k \in SUBSET Release : RollbackSelect(o, r, k)
               \/ RouteTraffic(o) \/ FindRoute(o) \/ ReadPrev(o)
               \/ Unroute(o)
        PROVE  StoryInv'
    <2>1. o \in Proc /\ UNCHANGED <<log, release, crashes, tr>>
      BY <1>4, OpIsProc
         DEF RollbackSelect, RouteTraffic, FindRoute, ReadPrev, Unroute, db
    <2>2. pc[o] # "record" /\ \E q : q # "record" /\ Goto(o, q)
      BY <1>4 DEF RollbackSelect, MayBegin, RouteTraffic, FindRoute, ReadPrev,
                  Unroute
    <2> QED  BY <1>0, <2>1, <2>2, StoryCall
  <1>5. CASE RecoverScan \/ RecoverStop \/ RecoverUnroute \/ RecoverEnd
    <2>1. Recovery \in Proc /\ UNCHANGED <<log, release, crashes>>
      BY <1>5, OpIsProc
         DEF RecoverScan, RecoverRowsIn, RecoverStop, RecoverUnroute,
             RecoverEnd, db
    <2>2. /\ pc[Recovery] # "record"
          /\ \/ End(Recovery)
             \/ \E q : q # "record" /\ Goto(Recovery, q) /\ UNCHANGED tr
      BY <1>5 DEF RecoverScan, RecoverRowsIn, RecoverStop, RecoverUnroute,
                  RecoverEnd
    <2> QED  BY <1>0, <2>1, <2>2, StoryCall
  <1>6. ASSUME NEW row \in rows, RecoverRow(row) PROVE StoryInv'
    <2>1. /\ Recovery \in Proc /\ UNCHANGED <<log, release, crashes>>
          /\ pc[Recovery] # "record"
          /\ \E q : q # "record" /\ Goto(Recovery, q)
          /\ \E c : tr' = [tr EXCEPT ![Recovery] = c]
      BY <1>6, OpIsProc DEF RecoverRow, db
    <2>2. \A o \in Proc : o # Recovery => tr'[o] = tr[o]
      BY <1>0, <2>1 DEF TypeOK
    <2> QED  BY <1>0, <2>1, <2>2, StoryLocal
  <1>7. ASSUME NEW p \in Proc, Crash(p) PROVE StoryInv'
    <2>1. crashes' # 0  BY <1>0, <1>7 DEF Crash, TypeOK
    <2> QED  BY <2>1 DEF StoryInv
  <1>8. CASE UNCHANGED vars
    BY <1>8, StoryStays DEF vars, db, Story, Pending
  <1>9. ASSUME NEW o \in Op, Begin(o) \/ OpStep(o) PROVE StoryInv'
    BY <1>1, <1>2, <1>3, <1>4, <1>9, OpIsProc DEF Begin, OpStep
  <1>10. CASE RecoveryStep
    BY <1>1, <1>5, <1>6, <1>10, OpIsProc DEF RecoveryStep
  <1> QED  BY <1>7, <1>8, <1>9, <1>10 DEF Next

\* As long as nothing was interrupted, release_transitions holds one record
\* per version of a release and leads from starting to its present status,
\* for any number of orchestrations and a recovery worker that race for the
\* same rows: who changes a release records the status it replaced.
THEOREM HistoryAlwaysComplete == Spec => []HistoryComplete
  <1> DEFINE Inv == ReleaseInv /\ StoryInv
  <1>1. Init => StoryInv
    <2> SUFFICES ASSUME Init, NEW r \in Release PROVE StoryTold(r)
      BY DEF StoryInv
    <2>1. release[r].status = "none" /\ log[r] = {}
          /\ \A p \in Proc : pc[p] = "idle"
      BY DEF Init
    <2> QED  BY <2>1 DEF StoryTold, Story, Pending
  <1>2. Init => Inv  BY <1>1, InitInv
  <1>3. Inv /\ [Next]_vars => Inv'  BY NextInv, NextStory
  <1>4. Inv => HistoryComplete
    <2> SUFFICES ASSUME StoryInv, crashes = 0, NEW r \in Release,
                        release[r].status # "none",
                        \A p \in Proc : ~(pc[p] = "record" /\ tr[p].id = r)
                 PROVE  /\ Cardinality(log[r]) + 1 = release[r].version
                        /\ {"starting"} \cup {e[2] : e \in log[r]} =
                             {e[1] : e \in log[r]} \cup {release[r].status}
      BY DEF HistoryComplete
    <2>1. Story(r) = log[r]  BY DEF Story, Pending
    <2> QED  BY <2>1 DEF StoryInv, StoryTold, Tells
  <1> HIDE DEF Inv
  <1> QED  BY <1>2, <1>3, <1>4, PTL DEF Spec

-----------------------------------------------------------------------------
(* The active route                                                        *)

\* Deployments only, and recovery at start-up only.
DeploysOnly == Rollbacks = FALSE /\ RecoveryOverlaps = FALSE

\* The statements of transition.
Calling == {"read", "cas", "record"}

\* p has not given its release the route yet.
Private(p) ==
  \/ pc[p] \in {"probe", "stopNew", "route", "findRoute", "readPrev", "upsert"}
  \/ pc[p] \in Calling /\ tr[p].to \in {"health_checking", "ready", "failed"}

\* p has given its release the route.
Past(p) ==
  \/ pc[p] \in {"drain", "unroute", "stopPrev"}
  \/ pc[p] \in Calling /\ tr[p].to \in {"active", "draining", "stopped"}

\* p has made its release ready.
MadeReady(p) ==
  \/ pc[p] \in {"route", "findRoute", "readPrev", "upsert"}
  \/ pc[p] = "record" /\ tr[p].to = "ready"

\* p has not given its release up.
KeepsUp(p) ==
  \/ pc[p] \in {"probe", "route", "findRoute", "readPrev", "upsert"}
  \/ pc[p] \in Calling /\ tr[p].to \in {"health_checking", "ready"}

\* An orchestration under way has a release, and one it replaces where it
\* will drain or stop it.
LocalsFit(p) ==
  /\ pc[p] = "idle" => loc[p].release = None /\ loc[p].prev = None
  /\ pc[p] \notin {"create", "rows", "recStop", "recUnroute"}
  /\ pc[p] # "idle" => loc[p].release \in 1..minted
  /\ loc[p].prev # None => loc[p].prev \in 1..minted
  /\ pc[p] \in {"readPrev", "drain", "unroute", "stopPrev"} =>
       loc[p].prev # None

\* It drains and stops the release it replaces and changes no other but its
\* own.
CallFits(p) ==
  pc[p] \in Calling =>
    /\ <<tr[p].to, tr[p].next>> \in
         {<<"health_checking", "probe">>, <<"ready", "route">>,
          <<"failed", "idle">>, <<"active", "idle">>, <<"active", "drain">>,
          <<"draining", "unroute">>, <<"stopped", "idle">>}
    /\ tr[p].id = IF tr[p].to \in {"draining", "stopped"} THEN loc[p].prev
                                                          ELSE loc[p].release
    /\ tr[p].next \in {"drain", "unroute"} \/ tr[p].to = "stopped" =>
         loc[p].prev # None

\* Nobody but p knows p's release before it has the route; it is ready and
\* up when it gets it; the release it replaces has lost it.
OwnFits(p) ==
  /\ Private(p) => /\ loc[p].release # activeRoute
                   /\ \A q \in Op : loc[q].prev # loc[p].release
  /\ MadeReady(p) => release[loc[p].release].status = "ready"
  /\ KeepsUp(p) => loc[p].release \in up
  /\ Past(p) /\ loc[p].prev # None => loc[p].prev # activeRoute

Fits(p) == LocalsFit(p) /\ CallFits(p) /\ OwnFits(p)

\* No two orchestrations have the same release.
Distinct ==
  \A p, q \in Op :
    p # q /\ loc[p].release # None => loc[p].release # loc[q].release

\* Recovery runs by itself, and all it does to the release with the route is
\* to activate it.
RecoveryFits ==
  /\ pc[Recovery] \in Calling \cup {"idle", "rows", "recStop", "recUnroute"}
  /\ pc[Recovery] = "idle" => rows = {}
  /\ pc[Recovery] # "idle" => \A o \in Op : pc[o] = "idle"
  /\ \A row \in rows : row.id = activeRoute => row.status = "ready"
  /\ pc[Recovery] \in Calling \cup {"recStop", "recUnroute"} =>
       /\ tr[Recovery].next = "rows"
       /\ tr[Recovery].id = activeRoute =>
            tr[Recovery].to = "active" /\ pc[Recovery] \in Calling

\* Without rollbacks a release has a container of its own.
UrlOwn == \A r \in Release : release[r].status # "none" => release[r].url = r

RouteInv ==
  RouteServes /\ UrlOwn /\ Distinct /\ RecoveryFits /\ \A p \in Op : Fits(p)

-----------------------------------------------------------------------------

\* The release with the route exists and its own container is running.
LEMMA RouteFacts ==
  ASSUME ReleaseInv, RouteInv, activeRoute # None
  PROVE  /\ activeRoute \in Release /\ activeRoute \in 1..minted
         /\ release[activeRoute].status \in {"ready", "active"}
         /\ activeRoute \in up
  <1>1. TypeOK /\ LifeInv /\ RouteServes /\ UrlOwn
    BY DEF ReleaseInv, RouteInv
  <1>2. activeRoute \in Release
        /\ release[activeRoute].status \in {"ready", "active"}
    BY <1>1 DEF TypeOK, MaybeRelease, RouteServes
  <1>3. activeRoute \in up  BY <1>1, <1>2 DEF RouteServes, Answers, UrlOwn
  <1>4. ~(activeRoute > minted)  BY <1>1, <1>2 DEF LifeInv
  <1>5. minted \in Nat /\ activeRoute \in Nat /\ activeRoute >= 1
    BY <1>1, <1>2, ReleasesAssumption DEF TypeOK, Release
  <1> QED  BY <1>2, <1>3, <1>4, <1>5

\* The other orchestrations still fit after a step of o that touches no
\* release but its own and the one it replaces, and gives the route to none
\* but its own.
LEMMA OthersFit ==
  ASSUME ReleaseInv, RouteInv, NEW o \in Op, Still(o),
         minted' \in Nat, minted <= minted',
         \A r \in 1..minted : r # loc[o].release /\ r # loc[o].prev =>
           release'[r] = release[r] /\ (r \in up => r \in up'),
         \/ activeRoute' = activeRoute
         \/ activeRoute' = loc[o].release /\ Private(o),
         \/ loc'[o].prev = loc[o].prev
         \/ loc'[o].prev = activeRoute
         \/ loc'[o].prev = None,
         NEW q \in Op, q # o
  PROVE  Fits(q)'
  <1>1. /\ pc'[q] = pc[q] /\ loc'[q] = loc[q] /\ tr'[q] = tr[q]
        /\ \A p \in Op : p # o => loc'[p] = loc[p]
    BY OpIsProc DEF Still
  <1>2. LocalsFit(q) /\ CallFits(q) /\ OwnFits(q) /\ OwnFits(o) /\ Distinct
    BY DEF RouteInv, Fits
  <1>3. minted \in Nat /\ None \notin Nat
    BY ReleasesAssumption DEF ReleaseInv, TypeOK
  <1>4. LocalsFit(q)'  BY <1>1, <1>2, <1>3 DEF LocalsFit
  <1>5. CallFits(q)'  BY <1>1, <1>2 DEF CallFits
  <1>6. /\ Private(q)' <=> Private(q)
        /\ Past(q)' <=> Past(q)
        /\ MadeReady(q)' <=> MadeReady(q)
        /\ KeepsUp(q)' <=> KeepsUp(q)
    BY <1>1 DEF Private, Past, MadeReady, KeepsUp
  <1>7. MadeReady(q) \/ KeepsUp(q) => Private(q)
    BY DEF Private, MadeReady, KeepsUp, Calling
  <1>8. Private(q) => /\ loc[q].release \in 1..minted
                      /\ loc[q].release # None
                      /\ loc[q].release # loc[o].release
                      /\ loc[q].release # loc[o].prev
    <2>1. Private(q) => pc[q] # "idle"  BY DEF Private, Calling
    <2> QED  BY <1>2, <1>3, <2>1 DEF LocalsFit, OwnFits, Distinct
  <1>9. Private(q) => /\ loc[q].release # activeRoute'
                      /\ \A p \in Op : loc'[p].prev # loc[q].release
    BY <1>1, <1>2, <1>8 DEF OwnFits
  <1>10. Past(q) /\ loc[q].prev # None => loc[q].prev # activeRoute'
    BY <1>2 DEF OwnFits
  <1>11. MadeReady(q) => release'[loc[q].release].status = "ready"
    BY <1>2, <1>7, <1>8 DEF OwnFits
  <1>12. KeepsUp(q) => loc[q].release \in up'
    BY <1>2, <1>7, <1>8 DEF OwnFits
  <1>13. OwnFits(q)'
    BY <1>1, <1>6, <1>9, <1>10, <1>11, <1>12 DEF OwnFits
  <1> QED  BY <1>4, <1>5, <1>13 DEF Fits

\* A step of an orchestration under which the route serves and the
\* orchestration itself fits.
LEMMA OpFits ==
  ASSUME ReleaseInv, RouteInv, NEW o \in Op, Still(o),
         pc[Recovery] = "idle", rows' = rows,
         minted' \in Nat, minted <= minted',
         \A r \in 1..minted : r # loc[o].release /\ r # loc[o].prev =>
           release'[r] = release[r] /\ (r \in up => r \in up'),
         \/ activeRoute' = activeRoute
         \/ activeRoute' = loc[o].release /\ Private(o),
         \/ loc'[o].prev = loc[o].prev
         \/ loc'[o].prev = activeRoute
         \/ loc'[o].prev = None,
         loc'[o].release \in {loc[o].release, None, minted + 1},
         UrlOwn',
         activeRoute' # None => /\ activeRoute' \in Release
                                /\ release'[activeRoute'].status
                                     \in {"ready", "active"}
                                /\ activeRoute' \in up',
         Fits(o)'
  PROVE  RouteInv'
  <1>1. \A q \in Op : Fits(q)'
    <2> SUFFICES ASSUME NEW q \in Op, q # o PROVE Fits(q)'
      OBVIOUS
    <2> QED  BY OthersFit
  <1>2. RouteServes'
    BY DEF RouteServes, Answers, UrlOwn
  <1>3. RecoveryFits'
    <2>1. pc'[Recovery] = "idle"
      BY OpIsProc, ReleasesAssumption DEF Still
    <2>2. rows' = {}  BY DEF RouteInv, RecoveryFits
    <2> QED  BY <2>1, <2>2 DEF RecoveryFits, Calling
  <1>4. Distinct'
    <2>1. \A q \in Op : q # o => loc'[q] = loc[q]  BY OpIsProc DEF Still
    <2>2. \A q \in Op : loc[q].release = None \/ loc[q].release \in 1..minted
      BY DEF RouteInv, Fits, LocalsFit
    <2>3. minted \in Nat /\ None \notin Nat
      BY ReleasesAssumption DEF ReleaseInv, TypeOK
    <2>4. \A q \in Op : loc[q].release # minted + 1  BY <2>2, <2>3
    <2> QED  BY <2>1, <2>4 DEF Distinct, RouteInv
  <1> QED  BY <1>1, <1>2, <1>3, <1>4 DEF RouteInv

\* While an orchestration is under way recovery is not.
LEMMA RecoveryRests ==
  ASSUME RouteInv, NEW o \in Op, pc[o] # "idle"
  PROVE  pc[Recovery] = "idle"
  BY DEF RouteInv, RecoveryFits

\* A step of an orchestration that leaves the releases, the route and the
\* containers alone.
LEMMA QuietFits ==
  ASSUME ReleaseInv, RouteInv, NEW o \in Op, Still(o), pc[o] # "idle",
         UNCHANGED <<release, minted, activeRoute, up, rows>>,
         \/ loc'[o].prev = loc[o].prev
         \/ loc'[o].prev = activeRoute
         \/ loc'[o].prev = None,
         loc'[o].release \in {loc[o].release, None},
         Fits(o)'
  PROVE  RouteInv'
  <1>1. minted \in Nat  BY DEF ReleaseInv, TypeOK
  <1>2. UrlOwn'  BY DEF RouteInv, UrlOwn
  <1>3. minted' \in Nat /\ minted <= minted' /\ rows' = rows  BY <1>1
  <1>4. \A r \in 1..minted : release'[r] = release[r] /\ (r \in up => r \in up')
    OBVIOUS
  <1>5. activeRoute' # None => /\ activeRoute' \in Release
                               /\ release'[activeRoute'].status
                                    \in {"ready", "active"}
                               /\ activeRoute' \in up'
    BY RouteFacts
  <1>6. pc[Recovery] = "idle"  BY RecoveryRests
  <1> QED  BY <1>2, <1>3, <1>4, <1>5, <1>6, OpFits

\* An orchestration that ends, or fails, leaves everything as it is.
LEMMA EndFits ==
  ASSUME ReleaseInv, RouteInv, NEW o \in Op, pc[o] # "idle", End(o),
         UNCHANGED <<release, minted, activeRoute, up, rows>>
  PROVE  RouteInv'
  <1>1. TypeOK /\ o \in Proc  BY OpIsProc DEF ReleaseInv
  <1>2. pc'[o] = "idle" /\ loc'[o] = NoLocals /\ Still(o)
    BY <1>1, EndFacts DEF End, Goto, TypeOK
  <1>3. loc'[o].release = None /\ loc'[o].prev = None
    BY <1>2 DEF NoLocals
  <1>4. Fits(o)'
    BY <1>2, <1>3 DEF Fits, LocalsFit, CallFits, OwnFits, Private, Past,
                      MadeReady, KeepsUp, Calling
  <1> QED  BY <1>2, <1>3, <1>4, QuietFits

\* An orchestration that calls transition for its own release or for the one
\* it replaces.
LEMMA CallTransitionFits ==
  ASSUME TypeOK, NEW o \in Op, NEW r \in Release, NEW v \in Nat,
         NEW s \in Status, NEW q \in CallerPC, CallTransition(o, r, v, s, q),
         UNCHANGED loc
  PROVE  /\ Still(o) /\ pc'[o] = "read" /\ loc'[o] = loc[o]
         /\ tr'[o].id = r /\ tr'[o].to = s /\ tr'[o].next = q
  <1>1. o \in Proc  BY OpIsProc
  <1>2. /\ pc'[o] = "read"
        /\ tr'[o] = [id |-> r, expected |-> v, to |-> s, from |-> "none",
                     next |-> q]
        /\ \A p \in Proc \ {o} : pc'[p] = pc[p] /\ tr'[p] = tr[p]
    BY <1>1, CallFacts
  <1> QED  BY <1>2 DEF Still

\* The steps of an orchestration that lead to ready.
LEMMA ProbeFits ==
  ASSUME ReleaseInv, RouteInv, NEW o \in Op, Probe(o)
  PROVE  RouteInv'
  <1>1. TypeOK /\ o \in Proc /\ loc[o] \in Locals /\ Knows(o)
    BY OpIsProc, TypeFacts DEF ReleaseInv
  <1>2. /\ pc[o] = "probe" /\ LocalsFit(o) /\ OwnFits(o)
        /\ UNCHANGED <<release, minted, activeRoute, up, loc, rows>>
    BY DEF Probe, RouteInv, Fits, db
  <1>3. /\ loc[o].release \in Release /\ loc[o].version \in Nat
        /\ loc[o].release \in 1..minted
    BY <1>1, <1>2 DEF Knows, CallerKnows, Seen, Locals, LocalsFit
  <1>4. Private(o) /\ KeepsUp(o)  BY <1>2 DEF Private, KeepsUp
  <1>5. CASE CallTransition(o, loc[o].release, loc[o].version, "ready", "route")
    <2>1. "ready" \in Status /\ "route" \in CallerPC
      BY DEF Status, CallerPC
    <2>2. /\ Still(o) /\ pc'[o] = "read" /\ loc'[o] = loc[o]
          /\ tr'[o].id = loc[o].release /\ tr'[o].to = "ready"
          /\ tr'[o].next = "route"
      BY <1>1, <1>2, <1>3, <1>5, <2>1, CallTransitionFits
    <2>3. LocalsFit(o)'  BY <1>2, <1>3, <2>2 DEF LocalsFit
    <2>4. CallFits(o)'  BY <2>2 DEF CallFits
    <2>5. OwnFits(o)'
      BY <1>2, <1>4, <2>2 DEF OwnFits, Private, Past, MadeReady, KeepsUp, Calling
    <2> QED  BY <1>2, <2>2, <2>3, <2>4, <2>5, QuietFits DEF Fits
  <1>6. CASE Goto(o, "stopNew") /\ UNCHANGED tr
    <2>1. Still(o) /\ pc'[o] = "stopNew" /\ loc'[o] = loc[o]
      BY <1>1, <1>2, <1>6 DEF Still, Goto, TypeOK
    <2>2. LocalsFit(o)'  BY <1>2, <1>3, <2>1 DEF LocalsFit
    <2>3. CallFits(o)'  BY <2>1 DEF CallFits, Calling
    <2>4. OwnFits(o)'
      BY <1>2, <1>4, <2>1 DEF OwnFits, Private, Past, MadeReady, KeepsUp, Calling
    <2> QED  BY <1>2, <2>1, <2>2, <2>3, <2>4, QuietFits DEF Fits
  <1> QED  BY <1>5, <1>6 DEF Probe

\* The steps of an orchestration that read, or change the router.
LEMMA MovesFit ==
  ASSUME ReleaseInv, RouteInv, NEW o \in Op,
         RouteTraffic(o) \/ FindRoute(o) \/ ReadPrev(o) \/ Unroute(o)
  PROVE  RouteInv'
  <1>1. TypeOK /\ o \in Proc /\ loc[o] \in Locals /\ loc \in [Proc -> Locals]
        /\ LocalsFit(o) /\ OwnFits(o)
    BY OpIsProc, TypeFacts DEF ReleaseInv, RouteInv, Fits, TypeOK
  <1>2. pc[o] # "idle"
        /\ UNCHANGED <<release, minted, activeRoute, up, tr, rows>>
    BY DEF RouteTraffic, FindRoute, ReadPrev, Unroute, db
  <1>3. ASSUME NEW q \in {"findRoute", "readPrev", "upsert", "stopPrev"},
               Goto(o, q), Still(o), loc'[o].release = loc[o].release,
               \/ loc'[o].prev = loc[o].prev
               \/ loc'[o].prev = activeRoute
               \/ loc'[o].prev = None,
               LocalsFit(o)', OwnFits(o)'
        PROVE  RouteInv'
    <2>1. pc'[o] = q  BY <1>1, <1>3 DEF Goto, TypeOK
    <2>2. CallFits(o)'  BY <2>1 DEF CallFits, Calling
    <2>3. Fits(o)'  BY <1>3, <2>2 DEF Fits
    <2> QED  BY <1>2, <1>3, <2>3, QuietFits
  <1>4. CASE RouteTraffic(o)
    <2>1. pc[o] = "route" /\ Goto(o, "findRoute") /\ UNCHANGED loc
      BY <1>4 DEF RouteTraffic
    <2>2. pc'[o] = "findRoute" /\ Still(o)
      BY <1>1, <1>2, <2>1 DEF Still, Goto, TypeOK
    <2>3. LocalsFit(o)'  BY <1>1, <1>2, <2>1, <2>2 DEF LocalsFit
    <2>4. OwnFits(o)'
      BY <1>1, <1>2, <2>1, <2>2
      DEF OwnFits, Private, Past, MadeReady, KeepsUp, Calling
    <2> QED  BY <1>3, <2>1, <2>2, <2>3, <2>4
  <1>5. CASE FindRoute(o)
    <2>1. PICK x : x = IF activeRoute = loc[o].release THEN None ELSE activeRoute
      OBVIOUS
    <2>2. /\ pc[o] = "findRoute" /\ loc' = [loc EXCEPT ![o].prev = x]
          /\ Goto(o, IF loc'[o].prev = None THEN "upsert" ELSE "readPrev")
      BY <1>5, <2>1 DEF FindRoute
    <2>3. loc' = [loc EXCEPT ![o] = [loc[o] EXCEPT !.prev = x]]
      BY <1>1, <2>2
    <2>4. /\ loc'[o].prev = x /\ loc'[o].release = loc[o].release
          /\ \A p \in Proc : p # o => loc'[p] = loc[p]
      BY <1>1, <2>3 DEF Locals
    <2>5. PICK q \in {"upsert", "readPrev"} :
            Goto(o, q) /\ (x = None <=> q = "upsert")
      BY <2>2, <2>4
    <2>6. pc'[o] = q /\ Still(o)
      BY <1>1, <1>2, <2>4, <2>5 DEF Still, Goto, TypeOK
    <2>7. x = None \/ x = activeRoute  BY <2>1
    <2>8. x # None => x \in 1..minted  BY <2>7, RouteFacts
    <2>9. LocalsFit(o)'
      BY <1>1, <1>2, <2>2, <2>4, <2>5, <2>6, <2>8 DEF LocalsFit
    <2>10. /\ loc[o].release # activeRoute /\ loc[o].release # None
           /\ \A p \in Op : loc[p].prev # loc[o].release
      BY <1>1, <2>2, ReleasesAssumption
      DEF OwnFits, Private, LocalsFit, TypeOK
    <2>11. \A p \in Op : loc'[p].prev # loc[o].release
      BY <2>4, <2>7, <2>10, OpIsProc
    <2>12. OwnFits(o)'
      BY <1>1, <1>2, <2>2, <2>4, <2>6, <2>10, <2>11
      DEF OwnFits, Private, Past, MadeReady, KeepsUp, Calling
    <2> QED  BY <1>3, <2>4, <2>5, <2>6, <2>7, <2>9, <2>12
  <1>6. CASE ReadPrev(o)
    <2>1. PICK v : v = release[loc[o].prev].version
      OBVIOUS
    <2>2. /\ pc[o] = "readPrev" /\ loc' = [loc EXCEPT ![o].prevVersion = v]
          /\ Goto(o, "upsert")
      BY <1>6, <2>1 DEF ReadPrev
    <2>3. loc' = [loc EXCEPT ![o] = [loc[o] EXCEPT !.prevVersion = v]]
      BY <1>1, <2>2
    <2>4. /\ loc'[o].prev = loc[o].prev /\ loc'[o].release = loc[o].release
          /\ \A p \in Proc : p # o => loc'[p] = loc[p]
      BY <1>1, <2>3 DEF Locals
    <2>5. pc'[o] = "upsert" /\ Still(o)
      BY <1>1, <1>2, <2>2, <2>4 DEF Still, Goto, TypeOK
    <2>6. LocalsFit(o)'  BY <1>1, <1>2, <2>2, <2>4, <2>5 DEF LocalsFit
    <2>7. \A p \in Op : loc'[p].prev = loc[p].prev  BY <2>4, OpIsProc
    <2>8. OwnFits(o)'
      BY <1>1, <1>2, <2>2, <2>4, <2>5, <2>7
      DEF OwnFits, Private, Past, MadeReady, KeepsUp, Calling
    <2> QED  BY <1>3, <2>2, <2>4, <2>5, <2>6, <2>8
  <1>7. CASE Unroute(o)
    <2>1. pc[o] = "unroute" /\ Goto(o, "stopPrev") /\ UNCHANGED loc
      BY <1>7 DEF Unroute
    <2>2. pc'[o] = "stopPrev" /\ Still(o)
      BY <1>1, <1>2, <2>1 DEF Still, Goto, TypeOK
    <2>3. LocalsFit(o)'  BY <1>1, <1>2, <2>1, <2>2 DEF LocalsFit
    <2>4. OwnFits(o)'
      BY <1>1, <1>2, <2>1, <2>2
      DEF OwnFits, Private, Past, MadeReady, KeepsUp, Calling
    <2> QED  BY <1>3, <2>1, <2>2, <2>3, <2>4
  <1> QED  BY <1>4, <1>5, <1>6, <1>7

\* The route moves to a release that is ready and up; what is stopped does
\* not have the route.
LEMMA RouteCallsFit ==
  ASSUME ReleaseInv, RouteInv, NEW o \in Op,
         StopNew(o) \/ UpsertRoute(o) \/ DrainPrev(o) \/ StopPrev(o)
  PROVE  RouteInv'
  <1>1. TypeOK /\ o \in Proc /\ loc[o] \in Locals /\ Knows(o)
        /\ LocalsFit(o) /\ OwnFits(o) /\ UrlOwn
    BY OpIsProc, TypeFacts DEF ReleaseInv, RouteInv, Fits
  <1>2. pc[o] # "idle" /\ UNCHANGED <<release, minted, loc, rows>>
    BY DEF StopNew, UpsertRoute, DrainPrev, StopPrev, db
  <1>3. minted \in Nat /\ minted' \in Nat /\ minted <= minted'
        /\ UrlOwn' /\ pc[Recovery] = "idle" /\ None \notin Nat
    BY <1>1, <1>2, RecoveryRests, ReleasesAssumption DEF TypeOK, UrlOwn
  <1>4. /\ loc[o].version \in Nat /\ loc[o].prevVersion \in Nat
        /\ loc[o].release \in 1..minted /\ loc[o].release # None
        /\ 1..minted \subseteq Release
    <2>1. 1..minted \subseteq Release
      BY <1>1, ReleasesAssumption DEF TypeOK, Release
    <2> QED  BY <1>1, <1>2, <1>3, <2>1 DEF Locals, LocalsFit
  <1>5. ASSUME NEW r \in Release, NEW v \in Nat, NEW q \in CallerPC,
               NEW s \in {"failed", "active", "draining", "stopped"},
               CallTransition(o, r, v, s, q)
        PROVE  /\ Still(o) /\ pc'[o] = "read" /\ loc'[o] = loc[o]
               /\ tr'[o].id = r /\ tr'[o].to = s /\ tr'[o].next = q
    <2>1. s \in Status  BY DEF Status
    <2> QED  BY <1>1, <1>2, <1>5, <2>1, CallTransitionFits
  <1>6. {"idle", "drain", "unroute"} \subseteq CallerPC  BY DEF CallerPC
  <1>7. CASE StopNew(o)
    <2>1. /\ pc[o] = "stopNew" /\ up' = up \ {loc[o].release}
          /\ CallTransition(o, loc[o].release, loc[o].version, "failed", "idle")
          /\ UNCHANGED activeRoute
      BY <1>7 DEF StopNew, db
    <2>2. /\ Still(o) /\ pc'[o] = "read" /\ loc'[o] = loc[o]
          /\ tr'[o].id = loc[o].release /\ tr'[o].to = "failed"
          /\ tr'[o].next = "idle"
      BY <1>4, <1>5, <1>6, <2>1
    <2>3. LocalsFit(o)'  BY <1>1, <1>2, <1>4, <2>1, <2>2 DEF LocalsFit
    <2>4. CallFits(o)'  BY <2>2 DEF CallFits
    <2>5. Private(o)  BY <2>1 DEF Private
    <2>6. OwnFits(o)'
      BY <1>1, <1>2, <2>1, <2>2, <2>5
      DEF OwnFits, Private, Past, MadeReady, KeepsUp, Calling
    <2>7. loc[o].release # activeRoute  BY <1>1, <2>5 DEF OwnFits
    <2>8. activeRoute' # None => /\ activeRoute' \in Release
                                 /\ release'[activeRoute'].status
                                      \in {"ready", "active"}
                                 /\ activeRoute' \in up'
      BY <1>2, <2>1, <2>7, RouteFacts
    <2>9. Fits(o)'  BY <2>3, <2>4, <2>6 DEF Fits
    <2> QED  BY <1>2, <1>3, <2>1, <2>2, <2>8, <2>9, OpFits
  <1>8. CASE UpsertRoute(o)
    <2>1. PICK q \in {"idle", "drain"} :
             /\ q = "drain" <=> loc[o].prev # None
             /\ q = IF loc[o].prev = None THEN "idle" ELSE "drain"
      OBVIOUS
    <2>2. /\ pc[o] = "upsert" /\ activeRoute' = loc[o].release
          /\ CallTransition(o, loc[o].release, loc[o].version, "active", q)
          /\ UNCHANGED up
      BY <1>8, <2>1 DEF UpsertRoute
    <2>3. /\ Still(o) /\ pc'[o] = "read" /\ loc'[o] = loc[o]
          /\ tr'[o].id = loc[o].release /\ tr'[o].to = "active"
          /\ tr'[o].next = q
      BY <1>4, <1>5, <1>6, <2>2
    <2>4. Private(o) /\ MadeReady(o) /\ KeepsUp(o)
      BY <2>2 DEF Private, MadeReady, KeepsUp
    <2>5. /\ release[loc[o].release].status = "ready"
          /\ loc[o].release \in up /\ loc[o].prev # loc[o].release
      BY <1>1, <2>4 DEF OwnFits
    <2>6. LocalsFit(o)'  BY <1>1, <1>2, <1>4, <2>2, <2>3 DEF LocalsFit
    <2>7. CallFits(o)'  BY <2>1, <2>3 DEF CallFits
    <2>8. OwnFits(o)'
      BY <1>2, <2>2, <2>3, <2>5
      DEF OwnFits, Private, Past, MadeReady, KeepsUp, Calling
    <2>9. Fits(o)'  BY <2>6, <2>7, <2>8 DEF Fits
    <2>10. /\ activeRoute' \in Release /\ activeRoute' \in up'
           /\ release'[activeRoute'].status \in {"ready", "active"}
      BY <1>2, <1>4, <2>2, <2>5
    <2> QED  BY <1>2, <1>3, <2>2, <2>3, <2>4, <2>9, <2>10, OpFits
  <1>9. CASE DrainPrev(o)
    <2>1. /\ pc[o] = "drain"
          /\ CallTransition(o, loc[o].prev, loc[o].prevVersion, "draining",
                            "unroute")
          /\ UNCHANGED <<activeRoute, up>>
      BY <1>9 DEF DrainPrev, db
    <2>2. Past(o) /\ loc[o].prev # None /\ loc[o].prev \in Release
      BY <1>1, <1>4, <2>1 DEF Past, LocalsFit
    <2>3. /\ Still(o) /\ pc'[o] = "read" /\ loc'[o] = loc[o]
          /\ tr'[o].id = loc[o].prev /\ tr'[o].to = "draining"
          /\ tr'[o].next = "unroute"
      BY <1>4, <1>5, <1>6, <2>1, <2>2
    <2>4. LocalsFit(o)'  BY <1>1, <1>2, <1>4, <2>1, <2>3 DEF LocalsFit
    <2>5. CallFits(o)'  BY <2>2, <2>3 DEF CallFits
    <2>6. OwnFits(o)'
      BY <1>1, <1>2, <2>1, <2>2, <2>3
      DEF OwnFits, Private, Past, MadeReady, KeepsUp, Calling
    <2>7. Fits(o)'  BY <2>4, <2>5, <2>6 DEF Fits
    <2> QED  BY <1>2, <2>1, <2>3, <2>7, QuietFits
  <1>10. CASE StopPrev(o)
    <2>1. /\ pc[o] = "stopPrev" /\ up' = up \ {loc[o].prev}
          /\ CallTransition(o, loc[o].prev, loc[o].version, "stopped", "idle")
          /\ UNCHANGED activeRoute
      BY <1>10 DEF StopPrev, db
    <2>2. Past(o) /\ loc[o].prev # None /\ loc[o].prev \in Release
      BY <1>1, <1>4, <2>1 DEF Past, LocalsFit
    <2>3. /\ Still(o) /\ pc'[o] = "read" /\ loc'[o] = loc[o]
          /\ tr'[o].id = loc[o].prev /\ tr'[o].to = "stopped"
          /\ tr'[o].next = "idle"
      BY <1>4, <1>5, <1>6, <2>1, <2>2
    <2>4. LocalsFit(o)'  BY <1>1, <1>2, <1>4, <2>1, <2>3 DEF LocalsFit
    <2>5. CallFits(o)'  BY <2>2, <2>3 DEF CallFits
    <2>6. OwnFits(o)'
      BY <1>1, <1>2, <2>1, <2>2, <2>3
      DEF OwnFits, Private, Past, MadeReady, KeepsUp, Calling
    <2>7. loc[o].prev # activeRoute  BY <1>1, <2>2 DEF OwnFits
    <2>8. activeRoute' # None => /\ activeRoute' \in Release
                                 /\ release'[activeRoute'].status
                                      \in {"ready", "active"}
                                 /\ activeRoute' \in up'
      BY <1>2, <2>1, <2>7, RouteFacts
    <2>9. Fits(o)'  BY <2>4, <2>5, <2>6 DEF Fits
    <2> QED  BY <1>2, <1>3, <2>1, <2>3, <2>8, <2>9, OpFits
  <1> QED  BY <1>7, <1>8, <1>9, <1>10

\* A new release is nobody else's and does not have the route.
LEMMA DeployFits ==
  ASSUME DeploysOnly, ReleaseInv, RouteInv, NEW o \in Op, Deploy(o)
  PROVE  RouteInv'
  <1>1. PICK m : m = minted + 1  OBVIOUS
  <1>2. TypeOK /\ LifeInv /\ o \in Proc /\ m \in Release /\ m \notin 1..minted
        /\ minted \in Nat /\ m \in Nat /\ m # None
        /\ 1..minted \subseteq Release /\ m \in 1..m
    BY <1>1, OpIsProc, ReleasesAssumption
    DEF ReleaseInv, TypeOK, Deploy, CreateRelease, Release
  <1>3. /\ pc[o] = "idle" /\ pc[Recovery] = "idle"
        /\ minted' = m /\ up' = up \cup {m}
        /\ release' = [release EXCEPT ![m] =
                         [status |-> "starting", version |-> 1, url |-> m]]
        /\ loc' = [loc EXCEPT ![o] = [NoLocals EXCEPT !.release = m,
                                                      !.version = 1]]
        /\ CallTransition(o, m, 1, "health_checking", "probe")
        /\ UNCHANGED <<activeRoute, rows>>
    BY <1>1 DEF Deploy, MayBegin, CreateRelease, DeploysOnly
  <1>4. /\ release'[m].url = m
        /\ \A r \in Release : r # m => release'[r] = release[r]
    BY <1>2, <1>3 DEF TypeOK
  <1>5. /\ loc'[o].release = m /\ loc'[o].prev = None
        /\ \A p \in Proc : p # o => loc'[p] = loc[p]
    BY <1>2, <1>3 DEF TypeOK, NoLocals
  <1>6. /\ pc'[o] = "read" /\ tr'[o].id = m
        /\ tr'[o].to = "health_checking" /\ tr'[o].next = "probe"
        /\ \A p \in Proc \ {o} : pc'[p] = pc[p] /\ tr'[p] = tr[p]
    <2>1. "health_checking" \in Status /\ "probe" \in CallerPC /\ 1 \in Nat
      BY DEF Status, CallerPC
    <2>2. /\ pc'[o] = "read"
          /\ tr'[o] = [id |-> m, expected |-> 1, to |-> "health_checking",
                       from |-> "none", next |-> "probe"]
          /\ \A p \in Proc \ {o} : pc'[p] = pc[p] /\ tr'[p] = tr[p]
      BY <1>2, <1>3, <2>1, CallFacts
    <2> QED  BY <2>2
  <1>7. Still(o)  BY <1>5, <1>6 DEF Still
  <1>8. activeRoute # None => activeRoute \in 1..minted  BY RouteFacts
  <1>9. \A p \in Op : loc'[p].prev # m
    <2>1. \A p \in Op : loc[p].prev # None => loc[p].prev \in 1..minted
      BY DEF RouteInv, Fits, LocalsFit
    <2> QED  BY <1>2, <1>5, <2>1, OpIsProc
  <1>10. LocalsFit(o)'  BY <1>2, <1>3, <1>5, <1>6 DEF LocalsFit
  <1>11. CallFits(o)'  BY <1>5, <1>6 DEF CallFits
  <1>12. OwnFits(o)'
    BY <1>2, <1>3, <1>5, <1>6, <1>8, <1>9
    DEF OwnFits, Private, Past, MadeReady, KeepsUp, Calling
  <1>13. UrlOwn'  BY <1>4 DEF RouteInv, UrlOwn
  <1>14. activeRoute' # None => /\ activeRoute' \in Release
                                /\ release'[activeRoute'].status
                                     \in {"ready", "active"}
                                /\ activeRoute' \in up'
    BY <1>2, <1>3, <1>4, RouteFacts
  <1>15. \A r \in 1..minted : release'[r] = release[r] /\ (r \in up => r \in up')
    BY <1>2, <1>3, <1>4
  <1>16. minted' \in Nat /\ minted <= minted'  BY <1>1, <1>2, <1>3
  <1>17. Fits(o)'  BY <1>10, <1>11, <1>12 DEF Fits
  <1>18. loc'[o].release \in {loc[o].release, None, minted + 1}
    BY <1>1, <1>5
  <1> QED
    BY <1>3, <1>5, <1>7, <1>13, <1>14, <1>15, <1>16, <1>17, <1>18, OpFits

\* What a successful compare-and-set changes, and that it is not the url.
LEMMA CasKeepsUrls ==
  ASSUME ReleaseInv, UrlOwn, NEW p \in Proc, TransitionCas(p),
         release[tr[p].id].version = tr[p].expected
  PROVE  UrlOwn'
  <1>1. PICK x : x = tr[p].id  OBVIOUS
  <1>2. /\ x \in Release
        /\ <<release[x].status, tr[p].to>> \in Legal
        /\ release' = [release EXCEPT ![x].status = tr[p].to,
                                      ![x].version = @ + 1]
        /\ \A r \in Release \ {x} : release'[r] = release[r]
    BY <1>1, CasFacts
  <1>3. release \in [Release -> [status : Status, version : 0..MaxVersion,
                                 url : MaybeRelease]]
    BY DEF ReleaseInv, TypeOK
  <1>4. release'[x].url = release[x].url  BY <1>2, <1>3
  <1>5. release[x].status # "none"  BY <1>2 DEF Legal
  <1> QED  BY <1>2, <1>4, <1>5 DEF UrlOwn

\* transition, called by an orchestration.
LEMMA OpTransitionFits ==
  ASSUME ReleaseInv, RouteInv, NEW o \in Op, TransitionStep(o)
  PROVE  RouteInv'
  <1>1. TypeOK /\ o \in Proc /\ loc[o] \in Locals /\ tr[o] \in Call /\ Knows(o)
        /\ LocalsFit(o) /\ CallFits(o) /\ OwnFits(o) /\ UrlOwn /\ o # Recovery
    BY OpIsProc, TypeFacts, ReleasesAssumption DEF ReleaseInv, RouteInv, Fits
  <1>2. /\ pc[o] \in Calling /\ pc[o] # "idle"
        /\ UNCHANGED <<minted, activeRoute, up, rows>>
    BY DEF TransitionStep, TransitionRead, TransitionCas, TransitionRecord,
           Calling, db
  <1>3. minted \in Nat /\ minted' \in Nat /\ minted <= minted'
        /\ pc[Recovery] = "idle" /\ None \notin Nat
    BY <1>1, <1>2, RecoveryRests, ReleasesAssumption DEF TypeOK
  <1>4. CASE Error(o) /\ UNCHANGED release
    <2>1. End(o)  BY <1>1, <1>4 DEF Error
    <2> QED  BY <1>2, <1>4, <2>1, EndFits
  <1>5. CASE TransitionRead(o)
    <2>1. pc[o] = "read" /\ UNCHANGED release  BY <1>5 DEF TransitionRead, db
    <2>2. CASE Error(o)  BY <1>4, <2>1, <2>2
    <2>3. ASSUME NEW f, Goto(o, "cas"), tr' = [tr EXCEPT ![o].from = f],
                 UNCHANGED loc
          PROVE  RouteInv'
      <3>1. tr'[o] = [tr[o] EXCEPT !.from = f]
            /\ \A p \in Proc : p # o => tr'[p] = tr[p]
        BY <1>1, <2>3 DEF TypeOK
      <3>2. tr'[o].id = tr[o].id /\ tr'[o].to = tr[o].to
            /\ tr'[o].next = tr[o].next
        BY <1>1, <3>1 DEF Call
      <3>3. pc'[o] = "cas" /\ Still(o) /\ loc'[o] = loc[o]
        BY <1>1, <2>3, <3>1 DEF Still, Goto, TypeOK
      <3>4. LocalsFit(o)'  BY <1>1, <1>2, <3>3 DEF LocalsFit
      <3>5. CallFits(o)'  BY <1>1, <1>2, <3>2, <3>3 DEF CallFits
      <3>6. OwnFits(o)'
        BY <1>1, <1>2, <2>1, <2>3, <3>2, <3>3
        DEF OwnFits, Private, Past, MadeReady, KeepsUp, Calling
      <3>7. Fits(o)'  BY <3>4, <3>5, <3>6 DEF Fits
      <3> QED  BY <1>2, <2>1, <3>3, <3>7, QuietFits
    <2> QED  BY <1>5, <2>2, <2>3, Zenon DEF TransitionRead
  <1>6. CASE TransitionCas(o)
    <2>1. CASE release[tr[o].id].version # tr[o].expected
      <3>1. Error(o) /\ UNCHANGED release  BY <1>6, <2>1 DEF TransitionCas
      <3> QED  BY <1>4, <3>1
    <2>2. CASE release[tr[o].id].version = tr[o].expected
      <3>1. /\ tr[o].id \in Release
            /\ release'[tr[o].id].status = tr[o].to
            /\ \A r \in Release \ {tr[o].id} : release'[r] = release[r]
            /\ Goto(o, "record") /\ UNCHANGED <<loc, tr>>
        BY <1>1, <1>6, <2>2, CasFacts
      <3>2. UrlOwn'  BY <1>1, <1>6, <2>2, CasKeepsUrls
      <3>3. pc'[o] = "record" /\ Still(o) /\ loc'[o] = loc[o] /\ tr'[o] = tr[o]
        BY <1>1, <3>1 DEF Still, Goto, TypeOK
      <3>4. LocalsFit(o)'  BY <1>1, <1>2, <3>3 DEF LocalsFit
      <3>5. CallFits(o)'  BY <1>1, <1>2, <3>3 DEF CallFits
      <3>6. /\ tr[o].id = loc[o].release \/ tr[o].id = loc[o].prev
            /\ tr[o].to = "ready" => tr[o].id = loc[o].release
        BY <1>1, <1>2 DEF CallFits
      <3>7. OwnFits(o)'
        BY <1>1, <1>2, <3>1, <3>3, <3>6
        DEF OwnFits, Private, Past, MadeReady, KeepsUp, Calling
      <3>8. tr[o].id = activeRoute => tr[o].to = "active"
        BY <1>1, <1>2, <3>1 DEF CallFits, OwnFits, Private, Past, LocalsFit
      <3>9. activeRoute' # None => /\ activeRoute' \in Release
                                   /\ release'[activeRoute'].status
                                        \in {"ready", "active"}
                                   /\ activeRoute' \in up'
        BY <1>2, <3>1, <3>8, RouteFacts
      <3>10. \A r \in 1..minted : r # loc[o].release /\ r # loc[o].prev =>
               release'[r] = release[r] /\ (r \in up => r \in up')
        <4>1. 1..minted \subseteq Release
          BY <1>1, ReleasesAssumption DEF TypeOK, Release
        <4> QED  BY <1>2, <3>1, <3>6, <4>1
      <3>11. Fits(o)'  BY <3>4, <3>5, <3>7 DEF Fits
      <3> QED
        BY <1>2, <1>3, <3>2, <3>3, <3>9, <3>10, <3>11, OpFits
    <2> QED  BY <2>1, <2>2
  <1>7. CASE TransitionRecord(o)
    <2>1. PICK l : l = IF tr[o].next = "idle" THEN NoLocals
                       ELSE [loc[o] EXCEPT !.version = tr[o].expected + 1]
      OBVIOUS
    <2>2. /\ pc[o] = "record" /\ Goto(o, tr[o].next)
          /\ loc' = [loc EXCEPT ![o] = l] /\ tr' = [tr EXCEPT ![o] = NoCall]
          /\ UNCHANGED release
      BY <1>1, <1>7, <2>1 DEF TransitionRecord, TypeOK
    <2>3. pc'[o] = tr[o].next /\ Still(o) /\ loc'[o] = l
      BY <1>1, <2>2 DEF Still, Goto, TypeOK
    <2>4. CASE tr[o].next = "idle"
      <3>1. l.release = None /\ l.prev = None  BY <2>1, <2>4 DEF NoLocals
      <3>2. Fits(o)'
        BY <2>3, <2>4, <3>1 DEF Fits, LocalsFit, CallFits, OwnFits, Private,
                                Past, MadeReady, KeepsUp, Calling
      <3> QED  BY <1>2, <2>2, <2>3, <3>1, <3>2, QuietFits
    <2>5. CASE tr[o].next # "idle"
      <3>1. l.release = loc[o].release /\ l.prev = loc[o].prev
        BY <1>1, <2>1, <2>5 DEF Locals
      <3>2. <<tr[o].to, tr[o].next>> \in
              {<<"health_checking", "probe">>, <<"ready", "route">>,
               <<"active", "drain">>, <<"draining", "unroute">>}
        BY <1>1, <1>2, <2>5 DEF CallFits
      <3>3. LocalsFit(o)'
        BY <1>1, <1>2, <2>3, <3>1, <3>2 DEF LocalsFit, CallFits
      <3>4. CallFits(o)'  BY <2>3, <3>2 DEF CallFits, Calling
      <3>5. \A p \in Op : loc'[p].prev = loc[p].prev
        BY <2>3, <3>1, OpIsProc DEF Still
      <3>6. OwnFits(o)'
        BY <1>1, <1>2, <2>2, <2>3, <3>1, <3>2, <3>5
        DEF OwnFits, Private, Past, MadeReady, KeepsUp, Calling
      <3>7. Fits(o)'  BY <3>3, <3>4, <3>6 DEF Fits
      <3> QED  BY <1>2, <2>2, <2>3, <3>1, <3>7, QuietFits
    <2> QED  BY <2>4, <2>5
  <1> QED  BY <1>5, <1>6, <1>7 DEF TransitionStep

\* While recovery runs the orchestrations rest, so only the route matters.
LEMMA RecoveryAlone ==
  ASSUME ReleaseInv, RouteInv, Still(Recovery), \A o \in Op : pc[o] = "idle",
         UNCHANGED <<minted, activeRoute>>, UrlOwn',
         activeRoute # None => /\ release'[activeRoute].status
                                    \in {"ready", "active"}
                               /\ activeRoute \in up',
         RecoveryFits'
  PROVE  RouteInv'
  <1>1. \A o \in Op : pc'[o] = pc[o] /\ loc'[o] = loc[o] /\ tr'[o] = tr[o]
    BY OpIsProc, ReleasesAssumption DEF Still
  <1>2. \A o \in Op : LocalsFit(o)  BY DEF RouteInv, Fits
  <1>3. \A o \in Op : loc[o].release = None /\ loc[o].prev = None
    BY <1>2 DEF LocalsFit
  <1>4. ASSUME NEW o \in Op PROVE Fits(o)'
    <2>1. pc'[o] = "idle" /\ loc'[o].release = None /\ loc'[o].prev = None
      BY <1>1, <1>3
    <2> QED  BY <2>1 DEF Fits, LocalsFit, CallFits, OwnFits, Private, Past,
                         MadeReady, KeepsUp, Calling
  <1>5. Distinct'  BY <1>1, <1>3 DEF Distinct
  <1>6. RouteServes'
    <2>1. activeRoute # None => activeRoute \in Release  BY RouteFacts
    <2> QED  BY <2>1 DEF RouteServes, Answers, UrlOwn
  <1> QED  BY <1>4, <1>5, <1>6 DEF RouteInv

\* transition, called by recovery.
LEMMA RecoveryTransitionFits ==
  ASSUME ReleaseInv, RouteInv, TransitionStep(Recovery)
  PROVE  RouteInv'
  <1> DEFINE p == Recovery
  <1>1. TypeOK /\ p \in Proc /\ tr[p] \in Call /\ p \notin Op
        /\ RecoveryFits /\ UrlOwn
    BY OpIsProc, TypeFacts, ReleasesAssumption DEF ReleaseInv, RouteInv
  <1>2. /\ pc[p] \in Calling /\ pc[p] # "idle"
        /\ UNCHANGED <<minted, activeRoute, up, rows>>
    BY DEF TransitionStep, TransitionRead, TransitionCas, TransitionRecord,
           Calling, db
  <1>3. /\ \A o \in Op : pc[o] = "idle"
        /\ \A row \in rows' : row.id = activeRoute' => row.status = "ready"
        /\ tr[p].next = "rows"
        /\ tr[p].id = activeRoute => tr[p].to = "active"
    BY <1>1, <1>2 DEF RecoveryFits
  <1>4. \A o \in Op : o # p  BY <1>1
  <1>5. ASSUME Still(p), UNCHANGED release, RecoveryFits'
        PROVE  RouteInv'
    <2>1. UrlOwn'  BY <1>1, <1>5 DEF UrlOwn
    <2> QED  BY <1>2, <1>3, <1>5, <2>1, RouteFacts, RecoveryAlone
  <1>6. ASSUME Still(p), pc'[p] = "rows" PROVE RecoveryFits'
    <2>1. \A o \in Op : pc'[o] = "idle"
      BY <1>3, <1>4, <1>6, OpIsProc DEF Still
    <2> QED  BY <1>3, <1>6, <2>1 DEF RecoveryFits, Calling
  <1>7. ASSUME Still(p), pc'[p] \in Calling, tr'[p].id = tr[p].id,
               tr'[p].to = tr[p].to, tr'[p].next = tr[p].next
        PROVE  RecoveryFits'
    <2>1. \A o \in Op : pc'[o] = "idle"
      BY <1>3, <1>4, <1>7, OpIsProc DEF Still
    <2> QED  BY <1>2, <1>3, <1>7, <2>1 DEF RecoveryFits, Calling
  <1>8. CASE Error(p) /\ UNCHANGED release
    <2>1. pc'[p] = "rows" /\ Still(p)
      BY <1>1, <1>8, ErrorFacts DEF Error, Goto, TypeOK
    <2> QED  BY <1>5, <1>6, <1>8, <2>1
  <1>9. CASE TransitionRead(p)
    <2>1. UNCHANGED release  BY <1>9 DEF TransitionRead, db
    <2>2. CASE Error(p)  BY <1>8, <2>1, <2>2
    <2>3. ASSUME NEW f, Goto(p, "cas"), tr' = [tr EXCEPT ![p].from = f],
                 UNCHANGED loc
          PROVE  RouteInv'
      <3>1. tr'[p] = [tr[p] EXCEPT !.from = f]
            /\ \A q \in Proc : q # p => tr'[q] = tr[q]
        BY <1>1, <2>3 DEF TypeOK
      <3>2. tr'[p].id = tr[p].id /\ tr'[p].to = tr[p].to
            /\ tr'[p].next = tr[p].next
        BY <1>1, <3>1 DEF Call
      <3>3. pc'[p] \in Calling /\ Still(p)
        BY <1>1, <2>3, <3>1 DEF Still, Goto, TypeOK, Calling
      <3> QED  BY <1>5, <1>7, <2>1, <3>2, <3>3
    <2> QED  BY <1>9, <2>2, <2>3, Zenon DEF TransitionRead
  <1>10. CASE TransitionCas(p)
    <2>1. CASE release[tr[p].id].version # tr[p].expected
      <3>1. Error(p) /\ UNCHANGED release  BY <1>10, <2>1 DEF TransitionCas
      <3> QED  BY <1>8, <3>1
    <2>2. CASE release[tr[p].id].version = tr[p].expected
      <3>1. /\ tr[p].id \in Release
            /\ release'[tr[p].id].status = tr[p].to
            /\ \A r \in Release \ {tr[p].id} : release'[r] = release[r]
            /\ Goto(p, "record") /\ UNCHANGED <<loc, tr>>
        BY <1>1, <1>10, <2>2, CasFacts
      <3>2. UrlOwn'  BY <1>1, <1>10, <2>2, CasKeepsUrls
      <3>3. pc'[p] \in Calling /\ Still(p)
        BY <1>1, <3>1 DEF Still, Goto, TypeOK, Calling
      <3>4. RecoveryFits'  BY <1>7, <3>1, <3>3
      <3>5. activeRoute # None => /\ release'[activeRoute].status
                                       \in {"ready", "active"}
                                  /\ activeRoute \in up'
        BY <1>2, <1>3, <3>1, RouteFacts
      <3> QED  BY <1>2, <1>3, <3>2, <3>3, <3>4, <3>5, RecoveryAlone
    <2> QED  BY <2>1, <2>2
  <1>11. CASE TransitionRecord(p)
    <2>1. /\ Goto(p, "rows") /\ \E l : loc' = [loc EXCEPT ![p] = l]
          /\ tr' = [tr EXCEPT ![p] = NoCall] /\ UNCHANGED release
      BY <1>3, <1>11 DEF TransitionRecord
    <2>2. pc'[p] = "rows" /\ Still(p)
      BY <1>1, <2>1 DEF Still, Goto, TypeOK
    <2> QED  BY <1>5, <1>6, <2>1, <2>2
  <1> QED  BY <1>9, <1>10, <1>11 DEF TransitionStep

\* Recovery selects the release with the route only when it is ready, and
\* then activates it and stops nothing.
LEMMA RecoveryStepsFit ==
  ASSUME DeploysOnly, ReleaseInv, RouteInv,
         \/ RecoverScan \/ \E row \in rows : RecoverRow(row)
         \/ RecoverStop \/ RecoverUnroute \/ RecoverEnd
         \/ Crash(Recovery)
  PROVE  RouteInv'
  <1> DEFINE p == Recovery
  <1>1. TypeOK /\ p \in Proc /\ tr[p] \in Call /\ p \notin Op
        /\ RecoveryFits /\ UrlOwn
    BY OpIsProc, TypeFacts, ReleasesAssumption DEF ReleaseInv, RouteInv
  <1>2. UNCHANGED <<release, minted, activeRoute>>
    BY DEF RecoverScan, RecoverRowsIn, RecoverRow, RecoverStop,
           RecoverUnroute, RecoverEnd, Crash, db
  <1>3. \A o \in Op : pc[o] = "idle"
    BY <1>1 DEF RecoverScan, RecoverRowsIn, RecoverRow, RecoverStop,
           RecoverUnroute, RecoverEnd, Crash, RecoveryFits, DeploysOnly
  <1>4. UrlOwn'  BY <1>1, <1>2 DEF UrlOwn
  <1>5. ASSUME Still(p), RecoveryFits',
               activeRoute # None => (activeRoute \in up => activeRoute \in up')
        PROVE  RouteInv'
    <2>1. activeRoute # None => /\ release'[activeRoute].status
                                     \in {"ready", "active"}
                                /\ activeRoute \in up'
      BY <1>2, <1>5, RouteFacts
    <2> QED  BY <1>2, <1>3, <1>4, <1>5, <2>1, RecoveryAlone
  <1>6. ASSUME Still(p) PROVE \A o \in Op : pc'[o] = "idle"
    BY <1>1, <1>3, <1>6, OpIsProc DEF Still
  <1>7. CASE RecoverScan
    <2>1. /\ rows' = {[id |-> r, status |-> release[r].status,
                       version |-> release[r].version] :
                        r \in {x \in Release : release[x].status \in Intermediate}}
          /\ Goto(p, "rows") /\ UNCHANGED <<loc, tr, up>>
      BY <1>7 DEF RecoverScan, RecoverRowsIn
    <2>2. pc'[p] = "rows" /\ Still(p)
      BY <1>1, <2>1 DEF Still, Goto, TypeOK
    <2>3. \A row \in rows' : row.id = activeRoute' => row.status = "ready"
      <3> SUFFICES ASSUME NEW row \in rows', row.id = activeRoute'
                   PROVE  row.status = "ready"
        OBVIOUS
      <3>1. PICK r \in Release :
              /\ release[r].status \in Intermediate
              /\ row = [id |-> r, status |-> release[r].status,
                        version |-> release[r].version]
        BY <2>1
      <3>2. row.id = r /\ row.status = release[r].status  BY <3>1
      <3>3. r = activeRoute /\ r # None
        BY <1>2, <3>2, ReleasesAssumption DEF Release
      <3>4. release[r].status \in {"ready", "active"}
        BY <3>3, RouteFacts
      <3> QED  BY <3>1, <3>2, <3>4 DEF Intermediate
    <2>4. RecoveryFits'
      BY <1>6, <2>2, <2>3 DEF RecoveryFits, Calling
    <2> QED  BY <1>5, <2>1, <2>2, <2>4
  <1>8. ASSUME NEW row \in rows, RecoverRow(row) PROVE RouteInv'
    <2>1. PICK to, q : /\ to = RecoveredStatus(row)
                       /\ q = IF to = "active" THEN "read" ELSE "recStop"
      OBVIOUS
    <2>2. /\ rows' = rows \ {row} /\ Goto(p, q) /\ UNCHANGED <<loc, up>>
          /\ tr' = [tr EXCEPT ![p] =
                      [id |-> row.id, expected |-> row.version, to |-> to,
                       from |-> row.status, next |-> "rows"]]
      BY <1>8, <2>1 DEF RecoverRow
    <2>3. /\ pc'[p] = q /\ Still(p)
          /\ tr'[p].id = row.id /\ tr'[p].to = to /\ tr'[p].next = "rows"
      BY <1>1, <2>2 DEF Still, Goto, TypeOK
    <2>4. row.id = activeRoute => to = "active"
      BY <1>1, <1>8, <2>1 DEF RecoveryFits, RecoveredStatus
    <2>5. q \in {"read", "recStop"} /\ (to = "active" => q = "read")
      BY <2>1
    <2>6. RecoveryFits'
      BY <1>1, <1>2, <1>6, <2>2, <2>3, <2>4, <2>5 DEF RecoveryFits, Calling
    <2> QED  BY <1>5, <2>2, <2>3, <2>6
  <1>9. CASE RecoverStop
    <2>1. PICK q \in {"recUnroute", "read"} :
            /\ pc[p] = "recStop" /\ up' = up \ {tr[p].id}
            /\ Goto(p, q) /\ UNCHANGED <<loc, tr, rows>>
      BY <1>9 DEF RecoverStop
    <2>2. pc'[p] = q /\ Still(p)
      BY <1>1, <2>1 DEF Still, Goto, TypeOK
    <2>3. tr[p].id # activeRoute /\ tr[p].next = "rows"
      BY <1>1, <2>1 DEF RecoveryFits, Calling
    <2>4. RecoveryFits'
      BY <1>1, <1>2, <1>6, <2>1, <2>2, <2>3 DEF RecoveryFits, Calling
    <2> QED  BY <1>5, <2>1, <2>2, <2>3, <2>4
  <1>10. CASE RecoverUnroute
    <2>1. /\ pc[p] = "recUnroute" /\ Goto(p, "read")
          /\ UNCHANGED <<loc, tr, rows, up>>
      BY <1>10 DEF RecoverUnroute
    <2>2. pc'[p] = "read" /\ Still(p)
      BY <1>1, <2>1 DEF Still, Goto, TypeOK
    <2>3. tr[p].id # activeRoute /\ tr[p].next = "rows"
      BY <1>1, <2>1 DEF RecoveryFits, Calling
    <2>4. RecoveryFits'
      BY <1>1, <1>2, <1>6, <2>1, <2>2, <2>3 DEF RecoveryFits, Calling
    <2> QED  BY <1>5, <2>1, <2>2, <2>4
  <1>11. CASE RecoverEnd \/ Crash(p)
    <2>1. End(p) /\ rows' = {} /\ UNCHANGED up
      BY <1>11 DEF RecoverEnd, Crash
    <2>2. pc'[p] = "idle" /\ Still(p)
      BY <1>1, <2>1, EndFacts DEF End, Goto, TypeOK
    <2>3. RecoveryFits'  BY <2>1, <2>2 DEF RecoveryFits, Calling
    <2> QED  BY <1>5, <2>1, <2>2, <2>3
  <1> QED  BY <1>7, <1>8, <1>9, <1>10, <1>11

\* Every step keeps the route serving.
LEMMA NextRoute ==
  DeploysOnly /\ ReleaseInv /\ RouteInv /\ [Next]_vars => RouteInv'
  <1> SUFFICES ASSUME DeploysOnly, ReleaseInv, RouteInv, [Next]_vars
               PROVE  RouteInv'
    OBVIOUS
  <1>1. ASSUME NEW o \in Op, Begin(o) PROVE RouteInv'
    BY <1>1, DeployFits DEF Begin, RollbackSelect, DeploysOnly
  <1>2. ASSUME NEW o \in Op, OpStep(o) PROVE RouteInv'
    <2>1. ~RollbackCreate(o)
      BY DEF RouteInv, Fits, LocalsFit, RollbackCreate
    <2> QED
      BY <1>2, <2>1, OpTransitionFits, ProbeFits, MovesFit, RouteCallsFit
      DEF OpStep
  <1>3. CASE RecoveryStep
    BY <1>3, RecoveryTransitionFits, RecoveryStepsFit DEF RecoveryStep
  <1>4. ASSUME NEW p \in Proc, Crash(p) PROVE RouteInv'
    <2>1. CASE p = Recovery  BY <1>4, <2>1, RecoveryStepsFit
    <2>2. CASE p \in Op /\ p # Recovery
      <3>1. /\ pc[p] # "idle" /\ End(p)
            /\ UNCHANGED <<release, minted, activeRoute, up, rows>>
        BY <1>4, <2>2 DEF Crash, db
      <3> QED  BY <2>2, <3>1, EndFits
    <2> QED  BY <2>1, <2>2 DEF Proc
  <1>5. CASE UNCHANGED vars
    <2>1. UNCHANGED <<release, minted, activeRoute, up, pc, loc, tr, rows>>
      BY <1>5 DEF vars, db
    <2>2. RouteServes' /\ UrlOwn' /\ Distinct' /\ RecoveryFits'
      BY <2>1 DEF RouteInv, RouteServes, Answers, UrlOwn, Distinct,
                  RecoveryFits
    <2>3. \A p \in Op : Fits(p)'
      BY <2>1 DEF RouteInv, Fits, LocalsFit, CallFits, OwnFits, Private, Past,
                  MadeReady, KeepsUp
    <2> QED  BY <2>2, <2>3 DEF RouteInv
  <1> QED  BY <1>1, <1>2, <1>3, <1>4, <1>5 DEF Next

\* The release active_routes points to is ready or active and its container
\* is running, for any number of orchestrations of deployments at a time,
\* interrupted anywhere and as often, with recovery at start-up: a container
\* is stopped only when its release does not have the route, and the route
\* goes to a release only after it was made ready and only by the one
\* orchestration that knows it.
THEOREM RouteAlwaysServes == DeploysOnly => (Spec => []RouteServes)
  <1> DEFINE Inv == ReleaseInv /\ RouteInv
  <1>1. Init => RouteInv
    <2> SUFFICES ASSUME Init PROVE RouteInv
      OBVIOUS
    <2>1. /\ activeRoute = None /\ rows = {} /\ Recovery \in Proc
          /\ \A p \in Proc : pc[p] = "idle" /\ loc[p] = NoLocals
          /\ \A r \in Release : release[r].status = "none"
      BY OpIsProc DEF Init
    <2>2. \A p \in Op : /\ pc[p] = "idle" /\ loc[p].release = None
                        /\ loc[p].prev = None
      BY <2>1, OpIsProc DEF NoLocals
    <2>3. RouteServes /\ UrlOwn /\ Distinct /\ RecoveryFits
      BY <2>1, <2>2 DEF RouteServes, UrlOwn, Distinct, RecoveryFits, Calling
    <2>4. \A p \in Op : Fits(p)
      BY <2>2 DEF Fits, LocalsFit, CallFits, OwnFits, Private, Past,
                  MadeReady, KeepsUp, Calling
    <2> QED  BY <2>3, <2>4 DEF RouteInv
  <1>2. Init => Inv  BY <1>1, InitInv
  <1>3. DeploysOnly /\ Inv /\ [Next]_vars => Inv'  BY NextInv, NextRoute
  <1>4. Inv => RouteServes  BY DEF RouteInv
  <1> HIDE DEF Inv
  <1>5. SUFFICES ASSUME DeploysOnly PROVE Spec => []RouteServes
    OBVIOUS
  <1>6. Inv /\ [Next]_vars => Inv'  BY <1>3, <1>5
  <1> QED  BY <1>2, <1>4, <1>6, PTL DEF Spec

-----------------------------------------------------------------------------
(* Recovery at start-up settles what was interrupted                       *)

\* Recovery runs at start-up only, whatever is orchestrated afterwards.
AtStartUp == RecoveryOverlaps = FALSE

\* The recovery worker has still to look at release r as it is now.
Listed(r) ==
  \E row \in rows : /\ row.id = r /\ row.status = release[r].status
                    /\ row.version = release[r].version

\* The recovery worker is about to settle release r, and will not be refused.
InHand(r) ==
  /\ pc[Recovery] \in {"recStop", "recUnroute", "read", "cas"}
  /\ tr[Recovery].id = r /\ tr[Recovery].expected = release[r].version
  /\ <<release[r].status, tr[Recovery].to>> \in Legal

\* Recovery never moves a release to an intermediate status.
Settling ==
  pc[Recovery] \in {"recStop", "recUnroute", "read", "cas"} =>
    tr[Recovery].to \notin Intermediate

\* While recovery runs nothing else does, and no intermediate release is missed.
SettleInv ==
  pc[Recovery] # "idle" =>
    /\ Settling
    /\ \A o \in Op : pc[o] = "idle"
    /\ \A r \in Release : release[r].status \in Intermediate => Listed(r) \/ InHand(r)

\* What recovery makes of a row is legal and not intermediate.
LEMMA RecoveredSettles ==
  ASSUME NEW row \in Row
  PROVE  /\ <<row.status, RecoveredStatus(row)>> \in Legal
         /\ RecoveredStatus(row) \notin Intermediate
  <1>1. row.status \in {"starting", "health_checking", "ready", "draining"}
    BY DEF Row, Intermediate
  <1> QED  BY <1>1 DEF RecoveredStatus, Legal, Intermediate

\* A step of an orchestration happens only while recovery does not run.
LEMMA SettleOthers ==
  ASSUME AtStartUp, TypeOK, SettleInv, NEW o \in Op, Begin(o) \/ OpStep(o) \/ Crash(o)
  PROVE  SettleInv'
  <1>0. o # Recovery /\ o \in Proc /\ Recovery \in Proc
    BY ReleasesAssumption, OpIsProc
  <1>1. pc[Recovery] = "idle"
    <2>1. Begin(o) => pc[Recovery] = "idle"
      BY DEF Begin, Deploy, RollbackSelect, MayBegin, AtStartUp
    <2>2. OpStep(o) => pc[o] # "idle"
      BY DEF OpStep, TransitionStep, TransitionRead, TransitionCas,
         TransitionRecord, RollbackCreate, Probe, StopNew, RouteTraffic,
         FindRoute, ReadPrev, UpsertRoute, DrainPrev, Unroute, StopPrev
    <2>3. Crash(o) => pc[o] # "idle"
      BY DEF Crash
    <2> QED  BY <2>1, <2>2, <2>3 DEF SettleInv
  <1>2. \E q : Goto(o, q)
    <2>1. Begin(o) => \E q : Goto(o, q)
      BY DEF Begin, Deploy, RollbackSelect, CreateRelease, CallTransition
    <2>2. TransitionStep(o) => \E q : Goto(o, q)
      BY <1>0 DEF TransitionStep, TransitionRead, TransitionCas, TransitionRecord,
         Error, End
    <2>3. RollbackCreate(o) \/ Probe(o) \/ StopNew(o) \/ RouteTraffic(o)
            => \E q : Goto(o, q)
      BY DEF RollbackCreate, CreateRelease, Probe, StopNew, RouteTraffic,
         CallTransition
    <2>4. FindRoute(o) \/ ReadPrev(o) \/ UpsertRoute(o) => \E q : Goto(o, q)
      BY DEF FindRoute, ReadPrev, UpsertRoute, CallTransition
    <2>5. DrainPrev(o) \/ Unroute(o) \/ StopPrev(o) => \E q : Goto(o, q)
      BY DEF DrainPrev, Unroute, StopPrev, CallTransition
    <2>6. Crash(o) => \E q : Goto(o, q)
      BY DEF Crash, End
    <2> QED  BY <2>1, <2>2, <2>3, <2>4, <2>5, <2>6 DEF OpStep
  <1>3. pc'[Recovery] = "idle"
    BY <1>0, <1>1, <1>2 DEF Goto, TypeOK
  <1> QED  BY <1>3 DEF SettleInv

\* A step of recovery that leaves all releases alone, and goes on.
LEMMA SettleMoves ==
  ASSUME AtStartUp, TypeOK, SettleInv,
         \/ RecoverScan \/ (\E row \in rows : RecoverRow(row))
         \/ RecoverStop \/ RecoverUnroute \/ RecoverEnd \/ Crash(Recovery)
  PROVE  SettleInv'
  <1>0. Recovery \in Proc /\ Op \subseteq Proc /\ pc \in [Proc -> PC]
    BY OpIsProc DEF TypeOK
  <1>1. release' = release /\ \E q : Goto(Recovery, q)
    BY DEF RecoverScan, RecoverRowsIn, RecoverRow, RecoverStop, RecoverUnroute,
       RecoverEnd, Crash, End, db
  <1>2. \A o \in Op : pc'[o] = pc[o]
    BY <1>0, <1>1, ReleasesAssumption DEF Goto
  <1>3. CASE RecoverScan
    <2>1. /\ \A o \in Op : pc[o] = "idle"
          /\ rows' = {[id |-> r, status |-> release[r].status,
                       version |-> release[r].version] :
                        r \in {r \in Release : release[r].status \in Intermediate}}
      BY <1>3 DEF RecoverScan, RecoverRowsIn, AtStartUp
    <2>2. ASSUME NEW r \in Release, release[r].status \in Intermediate
          PROVE  Listed(r)'
      <3> DEFINE it == [id |-> r, status |-> release[r].status,
                        version |-> release[r].version]
      <3>1. it \in rows'
        BY <2>1, <2>2
      <3>2. it.id = r /\ it.status = release'[r].status /\ it.version = release'[r].version
        BY <1>1
      <3> HIDE DEF it
      <3> QED  BY <3>1, <3>2 DEF Listed
    <2>3. Settling'
      BY <1>0, <1>3 DEF RecoverScan, RecoverRowsIn, Goto, Settling
    <2> QED  BY <1>1, <1>2, <2>1, <2>2, <2>3 DEF SettleInv
  <1>4. ASSUME NEW row \in rows, RecoverRow(row) PROVE SettleInv'
    <2> DEFINE to == RecoveredStatus(row)
    <2>1. row \in Row /\ <<row.status, to>> \in Legal /\ to \notin Intermediate
      BY RecoveredSettles DEF TypeOK
    <2>2. /\ pc[Recovery] = "rows" /\ rows' = rows \ {row}
          /\ tr' = [tr EXCEPT ![Recovery] =
                      [id |-> row.id, expected |-> row.version, to |-> to,
                       from |-> row.status, next |-> "rows"]]
          /\ pc' = [pc EXCEPT ![Recovery] = IF to = "active" THEN "read" ELSE "recStop"]
      BY <1>4 DEF RecoverRow, Goto
    <2> HIDE DEF to
    <2>3. /\ pc'[Recovery] \in {"recStop", "read"} /\ tr'[Recovery].id = row.id
          /\ tr'[Recovery].expected = row.version /\ tr'[Recovery].to = to
      BY <1>0, <2>2 DEF TypeOK
    <2>4. ASSUME NEW r \in Release, release[r].status \in Intermediate
          PROVE  Listed(r)' \/ InHand(r)'
      <3>1. Listed(r)
        BY <2>2, <2>4 DEF SettleInv, InHand
      <3>2. PICK it \in rows : /\ it.id = r /\ it.status = release[r].status
                               /\ it.version = release[r].version
        BY <3>1 DEF Listed
      <3>3. CASE it = row
        BY <1>1, <2>1, <2>3, <3>2, <3>3 DEF InHand
      <3>4. CASE it # row
        <4>1. it \in rows'
          BY <2>2, <3>4
        <4> QED  BY <1>1, <3>2, <4>1 DEF Listed
      <3> QED  BY <3>3, <3>4
    <2>5. Settling'
      BY <2>1, <2>3 DEF Settling
    <2> QED  BY <1>1, <1>2, <2>2, <2>4, <2>5 DEF SettleInv
  <1>5. CASE RecoverStop \/ RecoverUnroute
    <2>1. /\ pc[Recovery] \in {"recStop", "recUnroute"} /\ UNCHANGED <<tr, rows>>
          /\ pc'[Recovery] \in {"recUnroute", "read"}
      BY <1>0, <1>5 DEF RecoverStop, RecoverUnroute, Goto
    <2>2. \A r \in Release : (Listed(r) => Listed(r)') /\ (InHand(r) => InHand(r)')
      BY <1>1, <2>1 DEF Listed, InHand
    <2>3. Settling'
      BY <2>1 DEF Settling, SettleInv
    <2> QED  BY <1>1, <1>2, <2>1, <2>2, <2>3 DEF SettleInv
  <1>6. CASE RecoverEnd \/ Crash(Recovery)
    <2>1. pc'[Recovery] = "idle"
      BY <1>0, <1>6 DEF RecoverEnd, Crash, End, Goto
    <2> QED  BY <2>1 DEF SettleInv
  <1> QED  BY <1>3, <1>4, <1>5, <1>6

\* A transition recovery has called succeeds, or there was none to make.
LEMMA SettleTransition ==
  ASSUME AtStartUp, TypeOK, SettleInv, TransitionStep(Recovery)
  PROVE  SettleInv'
  <1> DEFINE c == tr[Recovery]
  <1>0. /\ Recovery \in Proc /\ Recovery \notin Op /\ Op \subseteq Proc
        /\ pc \in [Proc -> PC] /\ tr \in [Proc -> Call] /\ DOMAIN release = Release
    BY OpIsProc, ReleasesAssumption DEF TypeOK
  <1>1. pc[Recovery] \in {"read", "cas", "record"} /\ rows' = rows
    BY DEF TransitionStep, TransitionRead, TransitionCas, TransitionRecord
  <1>2. \E q : Goto(Recovery, q)
    BY <1>0 DEF TransitionStep, TransitionRead, TransitionCas, TransitionRecord,
       Error, End
  <1>3. \A o \in Op : pc'[o] = "idle"
    BY <1>0, <1>1, <1>2 DEF Goto, SettleInv
  <1>4. CASE TransitionRead(Recovery)
    <2>1. release' = release
      BY <1>4 DEF TransitionRead, db
    <2>2. CASE <<release[c.id].status, c.to>> \in Legal
      <3>1. /\ pc[Recovery] = "read" /\ pc' = [pc EXCEPT ![Recovery] = "cas"]
            /\ tr' = [tr EXCEPT ![Recovery].from = release[c.id].status]
        BY <1>4, <2>2 DEF TransitionRead, Goto
      <3>2. /\ pc'[Recovery] = "cas" /\ tr'[Recovery].id = c.id
            /\ tr'[Recovery].expected = c.expected /\ tr'[Recovery].to = c.to
        BY <1>0, <3>1 DEF Call
      <3>3. \A r \in Release : (Listed(r) => Listed(r)') /\ (InHand(r) => InHand(r)')
        BY <1>1, <2>1, <3>2 DEF Listed, InHand
      <3>4. Settling'
        BY <3>1, <3>2 DEF Settling, SettleInv
      <3> QED  BY <1>1, <1>3, <2>1, <3>3, <3>4 DEF SettleInv
    <2>3. CASE <<release[c.id].status, c.to>> \notin Legal
      <3>1. \A r \in Release : ~InHand(r) /\ (Listed(r) => Listed(r)')
        BY <1>1, <2>1, <2>3 DEF Listed, InHand
      <3>2. Settling'
        BY <1>0, <1>4, <2>3 DEF TransitionRead, Error, Goto, Settling
      <3> QED  BY <1>1, <1>3, <2>1, <3>1, <3>2 DEF SettleInv
    <2> QED  BY <2>2, <2>3
  <1>5. CASE TransitionCas(Recovery)
    <2>1. CASE release[c.id].version = c.expected
      <3>1. release' = [release EXCEPT ![c.id].status = c.to,
                                       ![c.id].version = @ + 1]
        BY <1>5, <2>1 DEF TransitionCas
      <3>2. \A r \in Release \ {c.id} : /\ release'[r] = release[r] /\ ~InHand(r)
                                        /\ (Listed(r) => Listed(r)')
        BY <1>0, <1>1, <3>1 DEF Listed, InHand
      <3>3. ASSUME NEW r \in Release, r = c.id, release'[r].status \in Intermediate
            PROVE  FALSE
        <4>1. release'[r].status = c.to
          BY <1>0, <3>1, <3>3 DEF TypeOK
        <4> QED  BY <1>5, <4>1, <3>3 DEF SettleInv, Settling, TransitionCas
      <3>4. Settling'
        BY <1>0, <1>5, <2>1 DEF TransitionCas, Goto, Settling
      <3> QED  BY <1>1, <1>3, <3>2, <3>3, <3>4 DEF SettleInv
    <2>2. CASE release[c.id].version # c.expected
      <3>1. release' = release
        BY <1>5, <2>2 DEF TransitionCas
      <3>2. \A r \in Release : ~InHand(r) /\ (Listed(r) => Listed(r)')
        BY <1>1, <2>2, <3>1 DEF Listed, InHand
      <3>3. Settling'
        BY <1>0, <1>5, <2>2 DEF TransitionCas, Error, Goto, Settling
      <3> QED  BY <1>1, <1>3, <3>1, <3>2, <3>3 DEF SettleInv
    <2> QED  BY <2>1, <2>2
  <1>6. CASE TransitionRecord(Recovery)
    <2>1. release' = release /\ pc[Recovery] = "record"
      BY <1>6 DEF TransitionRecord
    <2>2. \A r \in Release : ~InHand(r) /\ (Listed(r) => Listed(r)')
      BY <1>1, <2>1 DEF Listed, InHand
    <2>3. Settling'
      <3>1. /\ pc' = [pc EXCEPT ![Recovery] = c.next]
            /\ tr' = [tr EXCEPT ![Recovery] = NoCall]
        BY <1>6 DEF TransitionRecord, Goto
      <3>2. tr'[Recovery].to = "none"
        BY <1>0, <3>1 DEF NoCall
      <3> QED  BY <3>2 DEF Settling, Intermediate
    <2> QED  BY <1>1, <1>3, <2>1, <2>2, <2>3 DEF SettleInv
  <1> QED  BY <1>4, <1>5, <1>6 DEF TransitionStep

\* Every step keeps SettleInv.
LEMMA NextSettle ==
  AtStartUp /\ TypeOK /\ SettleInv /\ [Next]_vars => SettleInv'
  <1> SUFFICES ASSUME AtStartUp, TypeOK, SettleInv, [Next]_vars
               PROVE  SettleInv'
    OBVIOUS
  <1>1. CASE \E o \in Op : Begin(o) \/ OpStep(o)
    BY <1>1, SettleOthers
  <1>2. CASE RecoveryStep
    BY <1>2, SettleMoves, SettleTransition DEF RecoveryStep
  <1>3. CASE \E p \in Proc : Crash(p)
    BY <1>3, SettleOthers, SettleMoves DEF Proc
  <1>4. CASE UNCHANGED vars
    BY <1>4 DEF vars, db, SettleInv, Settling, Listed, InHand
  <1> QED  BY <1>1, <1>2, <1>3, <1>4 DEF Next

\* When a recovery at start-up has come to the end of its rows no release is in
\* an intermediate status, for any number of orchestrations, deployments and
\* rollbacks, that were interrupted anywhere (reconcile_crashed_releases_full).
THEOREM RecoveryAlwaysSettles == AtStartUp => (Spec => []RecoverySettles)
  <1>1. Init => SettleInv
    BY OpIsProc DEF Init, SettleInv
  <1>2. SettleInv => RecoverySettles
    BY DEF SettleInv, RecoverySettles, Listed, InHand
  <1>3. SUFFICES ASSUME AtStartUp PROVE Spec => []RecoverySettles
    OBVIOUS
  <1>4. TypeOK /\ SettleInv /\ [Next]_vars => SettleInv'
    BY <1>3, NextSettle
  <1> QED  BY <1>1, <1>2, <1>4, ReleasesTypeCorrect, PTL DEF Spec

=============================================================================
