--------------------------- MODULE LogStreamProofs ---------------------------
(***************************************************************************)
(* Proofs about LogStream, for every threshold, page size, number of       *)
(* attempts and of lines: types, the order and the completeness of what    *)
(* the client receives, the segment files, and the log of a finished       *)
(* build.                                                                  *)
(***************************************************************************)
EXTENDS LogStream, SequenceTheorems, FiniteSetTheorems, TLAPS

\* What a step may be.
LEMMA StepCases ==
  ASSUME Next, NEW P,
         Begin => P, Requeue => P,
         \A a \in Attempt : Worker(a) => P,
         CancelDeployment \/ StopDeployment \/ RetryDeployment => P,
         \A i \in inserts : InsertLine(i) => P,
         \A s \in segInserts : InsertSegment(s) => P,
         \A a \in Attempt, n \in Number : Purge(a, n) => P,
         ReadRows => P, SendPage => P,
         \A n \in 0 .. Limit : Reconnect(n) => P,
         ReconnectById => P
  PROVE  P
  BY DEF Next

\* A line's number is positive, and each attempt may use those up to its bound.
LEMMA NumberFacts ==
  /\ Number \subseteq Nat \ {0}
  /\ \A a \in Attempt : 1 .. MaxLines[a] \subseteq Number
  BY LogStreamAssumption DEF Number, Attempt

---------------------------------------------------------------------------
(* Types                                                                   *)

JobType ==
  /\ status \in Status
  /\ job \in {"queued", "running", "completed", "failed", "cancelled"}
  /\ trouble \in 0 .. MaxTrouble

SinkRecord == [at : Place, sequence : Number \cup {0}, start : Nat \ {0}]

SinkType ==
  /\ attempt \in 0 .. MaxAttempts
  /\ sink \in [Attempt -> SinkRecord]
  /\ \A a \in Attempt : /\ sink[a].start <= sink[a].sequence + 1
                        /\ sink[a].at = "none" <=> attempt < a
  /\ strays \subseteq 1 .. attempt

InsertsType == inserts \subseteq [attempt : 1 .. attempt, line : Number]
RowsType == rows \in [DOMAIN rows -> 1 .. attempt] /\ DOMAIN rows \subseteq Number
SegmentsType ==
  segInserts \cup segments \subseteq [attempt : 1 .. attempt, first : Number, last : Number]
FilesType ==
  files \in [DOMAIN files -> 1 .. attempt] /\ DOMAIN files \subseteq Number \X Number
HistoryType == late \cup lost \subseteq Number

StreamType ==
  /\ stream \in [at : {"rows", "status", "done"}, last : Number \cup {0},
                 page : Seq(Number), more : BOOLEAN, read : SUBSET Number]
  /\ Len(stream.page) <= Limit
  /\ client \in Seq(Number)

\* TypeOK, part by part, before and after a step.
LEMMA Parts ==
  TypeOK <=> /\ JobType /\ SinkType /\ InsertsType /\ RowsType /\ SegmentsType /\ FilesType
             /\ HistoryType /\ StreamType
  BY Zenon DEF TypeOK, JobType, SinkType, SinkRecord, InsertsType, RowsType,
         SegmentsType, FilesType, HistoryType, StreamType

\* The same of the next state.
LEMMA PartsNext ==
  TypeOK' <=> /\ JobType' /\ SinkType' /\ InsertsType' /\ RowsType' /\ SegmentsType' /\ FilesType'
              /\ HistoryType' /\ StreamType'
  BY Zenon DEF TypeOK, JobType, SinkType, SinkRecord, InsertsType, RowsType,
         SegmentsType, FilesType, HistoryType, StreamType

\* A step that leaves the stream alone keeps its type.
LEMMA StreamKept ==
  ASSUME TypeOK, UNCHANGED streamVars
  PROVE  StreamType'
  <1>1. StreamType
    BY Parts
  <1> QED BY <1>1 DEF StreamType, streamVars

\* The same of the tables.
LEMMA TablesKept ==
  ASSUME TypeOK, UNCHANGED <<attempt, tableVars>>
  PROVE  InsertsType' /\ RowsType' /\ SegmentsType' /\ FilesType' /\ HistoryType'
  <1>1. InsertsType /\ RowsType /\ SegmentsType /\ FilesType /\ HistoryType
    BY Parts
  <1> QED BY <1>1 DEF InsertsType, RowsType, SegmentsType, FilesType, HistoryType, tableVars

\* The same of the sinks.
LEMMA SinkKept ==
  ASSUME TypeOK, UNCHANGED <<attempt, sink, strays>>
  PROVE  SinkType'
  <1>1. SinkType
    BY Parts
  <1> QED BY <1>1 DEF SinkType

\* The count of troubles stays within its bound.
LEMMA TroubleType ==
  ASSUME TypeOK, Trouble \/ UNCHANGED trouble
  PROVE  trouble' \in 0 .. MaxTrouble
  BY LogStreamAssumption DEF TypeOK, Trouble

\* The numbers of a sink are natural numbers.
LEMMA SinkNumbers ==
  ASSUME TypeOK, NEW a \in Attempt
  PROVE  /\ attempt \in Nat /\ a \in Nat /\ a >= 1 /\ a <= MaxAttempts
         /\ sink[a] \in SinkRecord
         /\ sink[a].sequence \in Number \cup {0} /\ sink[a].sequence \in Nat
         /\ sink[a].start \in Nat /\ sink[a].start >= 1
         /\ sink[a].start <= sink[a].sequence + 1
         /\ sink[a].at # "none" => a \in 1 .. attempt
  <1>1. SinkType
    BY Parts
  <1>2. sink[a] \in SinkRecord /\ attempt \in 0 .. MaxAttempts
        /\ sink[a].start <= sink[a].sequence + 1
    BY <1>1 DEF SinkType
  <1>3. sink[a].at = "none" <=> attempt < a
    BY <1>1 DEF SinkType
  <1>4. attempt \in Nat /\ a \in Nat /\ a >= 1 /\ a <= MaxAttempts
    BY <1>2, LogStreamAssumption DEF Attempt
  <1>5. sink[a].sequence \in Number \cup {0} /\ sink[a].start \in Nat \ {0}
    BY <1>2 DEF SinkRecord
  <1>6. sink[a].sequence \in Nat /\ sink[a].start \in Nat /\ sink[a].start >= 1
    BY <1>5, NumberFacts
  <1>7. sink[a].at # "none" => a \in 1 .. attempt
    BY <1>3, <1>4
  <1> QED BY <1>2, <1>4, <1>5, <1>6, <1>7

\* What a new record for a sink changes.
LEMMA NewSink ==
  ASSUME TypeOK, NEW a \in Attempt, NEW p, NEW n, NEW s,
         sink' = [sink EXCEPT ![a] = Sink(p, n, s)]
  PROVE  /\ sink'[a].at = p /\ sink'[a].sequence = n /\ sink'[a].start = s
         /\ \A b \in Attempt \ {a} : sink'[b] = sink[b]
  <1>1. sink \in [Attempt -> SinkRecord]
    BY Parts DEF SinkType
  <1>2. sink'[a] = Sink(p, n, s)
    BY <1>1
  <1>3. \A b \in Attempt \ {a} : sink'[b] = sink[b]
    BY <1>1
  <1> QED BY <1>2, <1>3 DEF Sink

\* A worker that only moves keeps what its sink holds.
LEMMA Moved ==
  ASSUME TypeOK, NEW a \in Attempt, NEW p, Goto(a, p)
  PROVE  sink' = [sink EXCEPT ![a] = Sink(p, sink[a].sequence, sink[a].start)]
  <1>1. sink \in [Attempt -> SinkRecord] /\ sink[a] \in SinkRecord
    BY SinkNumbers, Parts DEF SinkType
  <1>2. [sink[a] EXCEPT !.at = p] = Sink(p, sink[a].sequence, sink[a].start)
    BY <1>1 DEF SinkRecord, Sink
  <1> QED BY <1>2 DEF Goto

\* A sink that is given a good record keeps the type of the sinks.
LEMMA NewSinkType ==
  ASSUME TypeOK, NEW a \in Attempt, NEW p \in Place \ {"none"}, NEW n \in Number \cup {0}, NEW s \in Nat \ {0},
         s <= n + 1, sink' = [sink EXCEPT ![a] = Sink(p, n, s)],
         sink[a].at # "none", UNCHANGED <<attempt, strays>>
  PROVE  SinkType'
  <1>0. /\ sink'[a].at = p /\ sink'[a].sequence = n /\ sink'[a].start = s
        /\ \A b \in Attempt \ {a} : sink'[b] = sink[b]
    BY NewSink
  <1>1. SinkType
    BY Parts
  <1>2. Sink(p, n, s) \in SinkRecord
    BY DEF Sink, SinkRecord
  <1>3. sink' \in [Attempt -> SinkRecord]
    BY <1>1, <1>2 DEF SinkType
  <1>4. ASSUME NEW b \in Attempt
        PROVE  /\ sink'[b].start <= sink'[b].sequence + 1
               /\ sink'[b].at = "none" <=> attempt' < b
    <2>1. CASE b = a
      <3>1. sink'[b].at = p /\ sink'[b].sequence = n /\ sink'[b].start = s
        BY <1>0, <2>1
      <3>2. ~ (attempt' < b)
        BY <1>1, <2>1 DEF SinkType
      <3> QED BY <3>1, <3>2
    <2>2. CASE b # a
      BY <1>0, <1>1, <2>2 DEF SinkType
    <2> QED BY <2>1, <2>2
  <1> QED BY <1>1, <1>3, <1>4 DEF SinkType

\* A good record for the sink of attempt a.
Sound(a, p, n, s) ==
  /\ p \in Place \ {"none"} /\ n \in Number \cup {0} /\ s \in Nat \ {0}
  /\ s <= n + 1
  /\ sink' = [sink EXCEPT ![a] = Sink(p, n, s)]

\* What the steps of a worker do to its sink: it moves on, perhaps with a line
\* more or without the lines of its buffer.
LEMMA WorkerMoves ==
  ASSUME TypeOK, NEW a \in Attempt, Worker(a)
  PROVE  /\ sink[a].at # "none"
         /\ \E p, n, s : Sound(a, p, n, s)
  <1>1. PICK m, start : m = sink[a].sequence /\ start = sink[a].start
    OBVIOUS
  <1>2. /\ m \in Number \cup {0} /\ m \in Nat /\ start \in Nat \ {0} /\ start \in Nat
        /\ start <= m + 1
    BY <1>1, SinkNumbers
  <1>3. sink[a].at # "none"
    BY DEF Worker, WriteLine, BuildEnds, FlushSink, AfterFlush, StoreArtifact, MarkRunning, Ack, Fail,
       Crash, At
  <1>4. CASE WriteLine(a)
    <2>1. m + 1 <= MaxLines[a] /\ MaxLines[a] \in Nat
      BY <1>1, <1>4, LogStreamAssumption DEF WriteLine, Attempt
    <2>2. m + 1 \in Number \cup {0} /\ m + 1 \in Nat /\ start <= m + 1 + 1 /\ m + 1 + 1 \in Nat \ {0}
      BY <1>2, <2>1, NumberFacts
    <2>3. PICK p \in {"building", "failing"} : Rotated(a, p, m + 1) \/ Kept(a, p, m + 1)
      BY <1>1, <1>4 DEF WriteLine
    <2>4. p \in Place \ {"none"}
      BY DEF Place
    <2>5. CASE Rotated(a, p, m + 1)
      <3>1. sink' = [sink EXCEPT ![a] = Sink(p, m + 1, m + 1 + 1)] /\ m + 1 + 1 <= m + 1 + 1
        BY <1>2, <2>5 DEF Rotated, AfterRotation
      <3>2. Sound(a, p, m + 1, m + 1 + 1)
        BY <2>2, <2>4, <3>1 DEF Sound
      <3> QED BY <1>3, <3>2
    <2>6. CASE Kept(a, p, m + 1)
      <3>1. sink' = [sink EXCEPT ![a] = Sink(p, m + 1, start)]
        BY <1>1, <2>6 DEF Kept
      <3>2. Sound(a, p, m + 1, start)
        BY <1>2, <2>2, <2>4, <3>1 DEF Sound
      <3> QED BY <1>3, <3>2
    <2> QED BY <2>3, <2>5, <2>6
  <1>5. CASE FlushSink(a)
    <2>1. sink[a].at \in {"flushing", "stored", "failing"}
      BY <1>5 DEF FlushSink, AfterFlush
    <2>2. AfterFlush[sink[a].at] \in {"waiting", "dropped", "failed"}
      BY <2>1 DEF AfterFlush
    <2>3. PICK p \in {"waiting", "dropped", "failed"} : Rotated(a, p, m) \/ Kept(a, p, m)
      BY <1>1, <1>5, <2>2 DEF FlushSink
    <2>4. p \in Place \ {"none"}
      BY DEF Place
    <2>5. CASE Rotated(a, p, m)
      <3>1. sink' = [sink EXCEPT ![a] = Sink(p, m, m + 1)] /\ m + 1 \in Nat \ {0} /\ m + 1 <= m + 1
        BY <1>2, <2>5 DEF Rotated, AfterRotation
      <3>2. Sound(a, p, m, m + 1)
        BY <1>2, <2>4, <3>1 DEF Sound
      <3> QED BY <1>3, <3>2
    <2>6. CASE Kept(a, p, m)
      <3>1. sink' = [sink EXCEPT ![a] = Sink(p, m, start)]
        BY <1>1, <2>6 DEF Kept
      <3>2. Sound(a, p, m, start)
        BY <1>2, <2>4, <3>1 DEF Sound
      <3> QED BY <1>3, <3>2
    <2> QED BY <2>3, <2>5, <2>6
  <1>6. CASE ~ (WriteLine(a) \/ FlushSink(a))
    <2>1. PICK p \in {"flushing", "failing", "stored", "built", "gone", "dead"} : Goto(a, p)
      BY <1>6 DEF Worker, BuildEnds, StoreArtifact, MarkRunning, Ack, Fail, Crash
    <2>2. p \in Place \ {"none"}
      BY DEF Place
    <2>3. sink' = [sink EXCEPT ![a] = Sink(p, m, start)]
      BY <1>1, <2>1, Moved
    <2>4. Sound(a, p, m, start)
      BY <1>2, <2>2, <2>3 DEF Sound
    <2> QED BY <1>3, <2>4
  <1> QED BY <1>4, <1>5, <1>6

\* A rotation keeps the types of the files and of the tasks.
LEMMA RotateType ==
  ASSUME TypeOK, NEW a \in Attempt, NEW n \in Number, sink[a].start <= n, sink[a].at # "none",
         Rotate(a, n), UNCHANGED <<attempt, segments>>
  PROVE  FilesType' /\ SegmentsType'
  <1>0. FilesType /\ SegmentsType
    BY Parts
  <1>1. sink[a].start \in Number
    <2>1. PICK b \in Attempt : n \in 1 .. MaxLines[b]
      BY DEF Number
    <2>2. sink[a].start \in 1 .. MaxLines[b]
      BY <2>1, SinkNumbers, LogStreamAssumption DEF Attempt
    <2> QED BY <2>1, <2>2, NumberFacts
  <1>2. a \in 1 .. attempt
    BY SinkNumbers
  <1>3. PICK first : first = sink[a].start
    OBVIOUS
  <1>4. /\ files' = With(files, <<first, n>>, a)
        /\ segInserts' = segInserts \cup {[attempt |-> a, first |-> first, last |-> n]}
    BY <1>3 DEF Rotate
  <1>5. FilesType'
    BY <1>0, <1>1, <1>2, <1>3, <1>4 DEF FilesType, With
  <1>6. SegmentsType'
    BY <1>0, <1>1, <1>2, <1>3, <1>4 DEF SegmentsType
  <1> QED BY <1>5, <1>6

\* write_line keeps the types of the tables.
LEMMA WriteLineTables ==
  ASSUME TypeOK, NEW a \in Attempt, WriteLine(a)
  PROVE  InsertsType' /\ RowsType' /\ SegmentsType' /\ FilesType' /\ HistoryType'
  <1> DEFINE n == sink[a].sequence + 1
  <1>0. InsertsType /\ RowsType /\ SegmentsType /\ FilesType /\ HistoryType
    BY Parts
  <1>1. sink[a].at # "none" /\ a \in 1 .. attempt
    BY SinkNumbers DEF WriteLine, At
  <1>2. n \in Number /\ sink[a].start <= n
    <2>1. n \in 1 .. MaxLines[a]
      BY SinkNumbers, LogStreamAssumption DEF WriteLine, Attempt
    <2> QED BY <2>1, NumberFacts, SinkNumbers
  <1>3. /\ UNCHANGED <<attempt, rows, segments, late, lost>>
        /\ inserts' = inserts \cup {[attempt |-> a, line |-> n]}
        /\ Rotate(a, n) \/ UNCHANGED <<files, segInserts>>
    BY DEF WriteLine, Rotated, Kept, queueVars
  <1> HIDE DEF n
  <1>4. InsertsType' /\ RowsType' /\ HistoryType'
    BY <1>0, <1>1, <1>2, <1>3 DEF InsertsType, RowsType, HistoryType
  <1>5. SegmentsType' /\ FilesType'
    <2>1. CASE Rotate(a, n)
      BY <1>1, <1>2, <1>3, <2>1, RotateType
    <2>2. CASE UNCHANGED <<files, segInserts>>
      BY <1>0, <1>3, <2>2 DEF SegmentsType, FilesType
    <2> QED BY <1>3, <2>1, <2>2
  <1> QED BY <1>4, <1>5

\* flush keeps the types of the tables.
LEMMA FlushSinkTables ==
  ASSUME TypeOK, NEW a \in Attempt, FlushSink(a)
  PROVE  InsertsType' /\ RowsType' /\ SegmentsType' /\ FilesType' /\ HistoryType'
  <1> DEFINE n == sink[a].sequence
  <1>0. InsertsType /\ RowsType /\ SegmentsType /\ FilesType /\ HistoryType
    BY Parts
  <1>1. sink[a].at # "none"
    BY DEF FlushSink, AfterFlush
  <1>2. /\ UNCHANGED <<attempt, inserts, rows, segments, late, lost>>
        /\ (~ (sink[a].start > n) /\ Rotate(a, n)) \/ UNCHANGED <<files, segInserts>>
    BY DEF FlushSink, Rotated, Kept, queueVars
  <1>3. InsertsType' /\ RowsType' /\ HistoryType'
    BY <1>0, <1>2 DEF InsertsType, RowsType, HistoryType
  <1>4. SegmentsType' /\ FilesType'
    <2>1. CASE ~ (sink[a].start > n) /\ Rotate(a, n)
      <3>1. n \in Number /\ sink[a].start <= n
        BY <2>1, SinkNumbers
      <3> QED BY <1>1, <1>2, <2>1, <3>1, RotateType
    <2>2. CASE UNCHANGED <<files, segInserts>>
      BY <1>0, <1>2, <2>2 DEF SegmentsType, FilesType
    <2> QED BY <1>2, <2>1, <2>2
  <1> QED BY <1>3, <1>4

\* The steps of a worker keep the types.
LEMMA WorkerType ==
  ASSUME TypeOK, NEW a \in Attempt, Worker(a)
  PROVE  TypeOK'
  <1>0. InsertsType /\ RowsType /\ SegmentsType /\ FilesType /\ HistoryType
    BY Parts
  <1>1. UNCHANGED <<attempt, strays, streamVars>> /\ (Trouble \/ UNCHANGED trouble)
    BY DEF Worker, WriteLine, BuildEnds, FlushSink, StoreArtifact, MarkRunning, SetStatus, Ack, Fail,
       Crash, queueVars
  <1>2. status' \in {status, "running", "failed"} /\ job' \in {job, "completed", "failed", "queued"}
    BY DEF Worker, WriteLine, BuildEnds, FlushSink, StoreArtifact, MarkRunning, SetStatus, Ack, Fail,
       SetJob, Crash, queueVars
  <1>3. JobType'
    BY <1>1, <1>2, TroubleType DEF TypeOK, JobType, Status
  <1>4. SinkType'
    <2>1. PICK p, n, s : Sound(a, p, n, s)
      BY WorkerMoves
    <2> QED BY <1>1, <2>1, WorkerMoves, NewSinkType DEF Sound
  <1>5. StreamType'
    BY <1>1, StreamKept
  <1>6. InsertsType' /\ RowsType' /\ SegmentsType' /\ FilesType' /\ HistoryType'
    <2>1. CASE WriteLine(a)
      BY <2>1, WriteLineTables
    <2>2. CASE FlushSink(a)
      BY <2>2, FlushSinkTables
    <2>3. CASE Crash(a)
      <3>1. /\ UNCHANGED <<attempt, rows, segments, files, late, lost>>
            /\ inserts' \subseteq inserts /\ segInserts' \subseteq segInserts
        BY <2>3 DEF Crash, queueVars
      <3> QED BY <1>0, <3>1 DEF InsertsType, RowsType, SegmentsType, FilesType, HistoryType
    <2>4. CASE BuildEnds(a) \/ StoreArtifact(a) \/ MarkRunning(a) \/ Ack(a) \/ Fail(a)
      <3>1. UNCHANGED <<attempt, tableVars>>
        BY <1>1, <2>4 DEF BuildEnds, StoreArtifact, MarkRunning, Ack, Fail
      <3> QED BY <3>1, TablesKept
    <2> QED BY <2>1, <2>2, <2>3, <2>4 DEF Worker
  <1> QED BY <1>3, <1>4, <1>5, <1>6, PartsNext

\* A new attempt keeps the types.
LEMMA BeginType ==
  ASSUME TypeOK, Begin
  PROVE  TypeOK'
  <1>0. /\ SinkType /\ InsertsType /\ RowsType /\ SegmentsType /\ FilesType /\ HistoryType
    BY Parts
  <1>1. /\ attempt \in Nat /\ attempt' = attempt + 1 /\ attempt + 1 \in Attempt
        /\ 1 .. attempt \subseteq 1 .. attempt' /\ attempt' \in 0 .. MaxAttempts
    BY LogStreamAssumption DEF TypeOK, Begin, Attempt
  <1>2. JobType'
    BY TroubleType DEF TypeOK, JobType, Begin, SetStatus, Status
  <1>3. SinkType'
    <2>0. PICK c \in Attempt : c = attempt + 1
      BY <1>1
    <2>1. sink' = [sink EXCEPT ![c] = Sink("building", 0, 1)]
      BY <2>0 DEF Begin
    <2>2. Sink("building", 0, 1) \in SinkRecord
      BY DEF Sink, SinkRecord, Place
    <2>3. sink' \in [Attempt -> SinkRecord]
      BY <1>0, <2>1, <2>2 DEF SinkType
    <2>4. /\ sink'[c].at = "building" /\ sink'[c].sequence = 0 /\ sink'[c].start = 1
          /\ \A b \in Attempt \ {c} : sink'[b] = sink[b]
      BY <2>1, NewSink
    <2>5. ASSUME NEW b \in Attempt
          PROVE  /\ sink'[b].start <= sink'[b].sequence + 1
                 /\ sink'[b].at = "none" <=> attempt' < b
      <3>1. CASE b = c
        BY <1>1, <2>0, <2>4, <3>1
      <3>2. CASE b # c
        <4>1. sink'[b] = sink[b] /\ (attempt' < b <=> attempt < b)
          BY <1>1, <2>0, <2>4, <3>2, SinkNumbers
        <4> QED BY <1>0, <4>1 DEF SinkType
      <3> QED BY <3>1, <3>2
    <2>6. strays' \subseteq 1 .. attempt'
      <3>1. ASSUME NEW b \in Attempt, sink[b].at \in Writing PROVE b \in 1 .. attempt
        BY <3>1, SinkNumbers DEF Writing
      <3> QED BY <1>0, <1>1, <3>1 DEF Begin, SinkType
    <2> QED BY <1>1, <2>3, <2>5, <2>6 DEF SinkType
  <1>4. InsertsType' /\ SegmentsType' /\ HistoryType'
    BY <1>0, <1>1 DEF InsertsType, SegmentsType, HistoryType, Begin, tableVars
  <1>5. RowsType' /\ FilesType'
    BY <1>0, <1>1 DEF RowsType, FilesType, Begin, tableVars
  <1>6. StreamType'
    BY StreamKept DEF Begin
  <1> QED BY <1>2, <1>3, <1>4, <1>5, <1>6, PartsNext

\* Steps that only set the status or the job keep the types.
LEMMA ControlType ==
  ASSUME TypeOK, Requeue \/ CancelDeployment \/ StopDeployment \/ RetryDeployment
  PROVE  TypeOK'
  <1>1. UNCHANGED <<attempt, sink, strays>> /\ UNCHANGED <<attempt, tableVars>>
        /\ UNCHANGED streamVars /\ (Trouble \/ UNCHANGED trouble)
    BY DEF Requeue, CancelDeployment, StopDeployment, RetryDeployment, queueVars
  <1>2. /\ status' \in {status, "failed", "cancelled", "stopped", "queued"}
        /\ job' \in {job, "queued", "failed", "cancelled"}
    BY DEF Requeue, CancelDeployment, StopDeployment, RetryDeployment, queueVars
  <1>3. JobType'
    BY <1>1, <1>2, TroubleType DEF TypeOK, JobType, Status
  <1> QED BY <1>1, <1>3, StreamKept, TablesKept, SinkKept, PartsNext

\* The insert of a line keeps the types.
LEMMA InsertLineType ==
  ASSUME TypeOK, NEW i \in inserts, InsertLine(i)
  PROVE  TypeOK'
  <1>0. InsertsType /\ RowsType /\ SegmentsType /\ FilesType /\ HistoryType
    BY Parts
  <1>1. /\ UNCHANGED <<attempt, sink, strays>> /\ UNCHANGED <<segInserts, segments, files>>
        /\ UNCHANGED streamVars /\ UNCHANGED <<status, job>> /\ (Trouble \/ UNCHANGED trouble)
    BY DEF InsertLine, queueVars
  <1>2. JobType'
    BY <1>1, TroubleType DEF TypeOK, JobType
  <1>3. i.attempt \in 1 .. attempt /\ i.line \in Number
    BY <1>0 DEF InsertsType
  <1>4. InsertsType' /\ SegmentsType' /\ HistoryType' /\ FilesType'
    BY <1>0, <1>1, <1>3 DEF InsertLine, InsertsType, SegmentsType, HistoryType, FilesType
  <1>5. RowsType'
    <2>1. CASE rows' = With(rows, i.line, i.attempt)
      BY <1>0, <1>1, <1>3, <2>1 DEF RowsType, With
    <2>2. CASE UNCHANGED rows
      BY <1>0, <1>1, <2>2 DEF RowsType
    <2> QED BY <2>1, <2>2 DEF InsertLine
  <1> QED BY <1>1, <1>2, <1>4, <1>5, StreamKept, SinkKept, PartsNext

\* The insert of a segment keeps the types.
LEMMA InsertSegmentType ==
  ASSUME TypeOK, NEW s \in segInserts, InsertSegment(s)
  PROVE  TypeOK'
  <1>0. InsertsType /\ RowsType /\ SegmentsType /\ FilesType /\ HistoryType
    BY Parts
  <1>1. /\ UNCHANGED <<attempt, sink, strays>> /\ UNCHANGED <<inserts, rows, files, late, lost>>
        /\ UNCHANGED streamVars /\ UNCHANGED <<status, job>> /\ (Trouble \/ UNCHANGED trouble)
    BY DEF InsertSegment, queueVars
  <1>2. JobType'
    BY <1>1, TroubleType DEF TypeOK, JobType
  <1>3. InsertsType' /\ RowsType' /\ FilesType' /\ HistoryType'
    BY <1>0, <1>1 DEF InsertsType, RowsType, FilesType, HistoryType
  <1>4. SegmentsType'
    BY <1>0, <1>1 DEF InsertSegment, SegmentsType
  <1> QED BY <1>1, <1>2, <1>3, <1>4, StreamKept, SinkKept, PartsNext

\* purge_logs_older_than keeps the types.
LEMMA PurgeType ==
  ASSUME TypeOK, NEW a \in Attempt, NEW n \in Number, Purge(a, n)
  PROVE  TypeOK'
  <1>0. InsertsType /\ RowsType /\ SegmentsType /\ FilesType /\ HistoryType
    BY Parts
  <1>1. /\ UNCHANGED <<attempt, sink, strays>> /\ UNCHANGED <<inserts, segInserts, files, late>>
        /\ UNCHANGED streamVars /\ UNCHANGED <<status, job>> /\ (Trouble \/ UNCHANGED trouble)
    BY DEF Purge, queueVars
  <1>2. JobType'
    BY <1>1, TroubleType DEF TypeOK, JobType
  <1>3. PICK old : /\ old \subseteq DOMAIN rows /\ rows' = [m \in DOMAIN rows \ old |-> rows[m]]
                   /\ lost' = lost \cup old /\ segments' \subseteq segments
    BY DEF Purge
  <1>4. InsertsType' /\ SegmentsType' /\ FilesType'
    BY <1>0, <1>1, <1>3 DEF InsertsType, SegmentsType, FilesType
  <1>5. RowsType' /\ HistoryType'
    BY <1>0, <1>1, <1>3 DEF RowsType, HistoryType
  <1> QED BY <1>1, <1>2, <1>4, <1>5, StreamKept, SinkKept, PartsNext

\* What a page is.
LEMMA PageFacts ==
  ASSUME TypeOK, NEW n \in Nat, NEW p \in Pages(n)
  PROVE  /\ p \in Seq(Number) /\ Len(p) <= Limit
         /\ Range(p) \subseteq After(n)
         /\ \A i, j \in DOMAIN p : i < j => p[i] < p[j]
         /\ \A m \in After(n) \ Range(p) : \A i \in DOMAIN p : p[i] < m
  <1>1. PICK k \in 0 .. Limit : p \in [1 .. k -> After(n)]
    BY DEF Pages
  <1>2. k \in Nat /\ k <= Limit /\ After(n) \subseteq Number
    BY LogStreamAssumption DEF TypeOK, After
  <1>3. p \in [1 .. k -> Number]
    BY <1>1, <1>2
  <1>4. p \in Seq(Number) /\ Len(p) = k
    BY <1>2, <1>3
  <1>5. Range(p) \subseteq After(n)
    BY <1>1 DEF Range
  <1> QED BY <1>2, <1>4, <1>5 DEF Pages, IsPage

\* The reading of a page keeps the types.
LEMMA ReadRowsType ==
  ASSUME TypeOK, ReadRows
  PROVE  TypeOK'
  <1>1. /\ UNCHANGED <<attempt, sink, strays>> /\ UNCHANGED <<attempt, tableVars>> /\ UNCHANGED client
        /\ UNCHANGED <<status, job, trouble>>
    BY DEF ReadRows, queueVars
  <1>2. JobType'
    BY <1>1 DEF TypeOK, JobType
  <1>3. PICK p \in Pages(stream.last) :
          stream' = [at |-> "status", last |-> stream.last, page |-> p,
                     more |-> After(stream.last) # Range(p), read |-> DOMAIN rows]
    BY DEF ReadRows
  <1>4. stream.last \in Number \cup {0} /\ stream.last \in Nat
    BY NumberFacts DEF TypeOK
  <1>5. p \in Seq(Number) /\ Len(p) <= Limit
    BY <1>4, PageFacts
  <1>6. DOMAIN rows \subseteq Number
    BY DEF TypeOK
  <1>7. PICK b \in BOOLEAN : b = (After(stream.last) # Range(p))
    BY Zenon
  <1>8. StreamType'
    BY <1>1, <1>3, <1>4, <1>5, <1>6, <1>7 DEF TypeOK, StreamType
  <1> QED BY <1>1, <1>2, <1>8, TablesKept, SinkKept, PartsNext

\* The last of a sequence of numbers, or another one.
LEMMA LastType ==
  ASSUME NEW s \in Seq(Number), NEW n \in Number \cup {0}
  PROVE  /\ LastOr(s, n) \in Number \cup {0}
         /\ s # <<>> => Len(s) \in DOMAIN s /\ LastOr(s, n) = s[Len(s)]
  BY DEF LastOr

\* The sending of a page keeps the types.
LEMMA SendPageType ==
  ASSUME TypeOK, SendPage
  PROVE  TypeOK'
  <1>1. /\ UNCHANGED <<attempt, sink, strays>> /\ UNCHANGED <<attempt, tableVars>>
        /\ UNCHANGED <<status, job, trouble>>
    BY DEF SendPage, queueVars
  <1>2. JobType'
    BY <1>1 DEF TypeOK, JobType
  <1>3. stream.page \in Seq(Number) /\ stream.last \in Number \cup {0}
    BY DEF TypeOK
  <1>4. Passed \in Number \cup {0}
    BY <1>3, LastType DEF Passed
  <1>5. client' \in Seq(Number)
    BY <1>3 DEF TypeOK, SendPage
  <1>6. Len(<<>>) <= Limit /\ <<>> \in Seq(Number)
    BY LogStreamAssumption
  <1>7. StreamType'
    BY <1>3, <1>4, <1>5, <1>6 DEF TypeOK, StreamType, SendPage
  <1> QED BY <1>1, <1>2, <1>7, TablesKept, SinkKept, PartsNext

\* A new connection keeps the types.
LEMMA ReconnectType ==
  ASSUME TypeOK, NEW n \in 0 .. Limit, Reconnect(n)
  PROVE  TypeOK'
  <1>1. /\ UNCHANGED <<attempt, sink, strays>> /\ UNCHANGED <<attempt, tableVars>>
        /\ UNCHANGED <<status, job>> /\ (Trouble \/ UNCHANGED trouble)
    BY DEF Reconnect, queueVars
  <1>2. JobType'
    BY <1>1, TroubleType DEF TypeOK, JobType
  <1>3. stream.page \in Seq(Number) /\ n \in 0 .. Len(stream.page)
    BY DEF TypeOK, Reconnect
  <1>4. SubSeq(stream.page, 1, n) \in Seq(Number)
    BY <1>3
  <1>5. client' \in Seq(Number)
    BY <1>4 DEF TypeOK, Reconnect, Received
  <1>6. LastOr(client', 0) \in Number \cup {0}
    BY <1>5, LastType
  <1>7. Len(<<>>) <= Limit /\ <<>> \in Seq(Number)
    BY LogStreamAssumption
  <1>8. stream' = [at |-> "rows", last |-> LastOr(client', 0), page |-> <<>>, more |-> FALSE, read |-> {}]
    BY DEF Reconnect, Poll
  <1>9. StreamType'
    BY <1>1, <1>5, <1>6, <1>7, <1>8 DEF TypeOK, StreamType
  <1> QED BY <1>1, <1>2, <1>9, TablesKept, SinkKept, PartsNext

\* The same of one that starts over.
LEMMA ReconnectByIdType ==
  ASSUME TypeOK, ReconnectById
  PROVE  TypeOK'
  <1>1. /\ UNCHANGED <<attempt, sink, strays>> /\ UNCHANGED <<attempt, tableVars>>
        /\ UNCHANGED <<status, job>> /\ (Trouble \/ UNCHANGED trouble)
    BY DEF ReconnectById, queueVars
  <1>2. JobType'
    BY <1>1, TroubleType DEF TypeOK, JobType
  <1>7. Len(<<>>) <= Limit /\ <<>> \in Seq(Number)
    BY LogStreamAssumption
  <1>8. client' = <<>>
        /\ stream' = [at |-> "rows", last |-> 0, page |-> <<>>, more |-> FALSE, read |-> {}]
    BY DEF ReconnectById, Poll
  <1>9. StreamType'
    BY <1>7, <1>8 DEF StreamType
  <1> QED BY <1>1, <1>2, <1>9, TablesKept, SinkKept, PartsNext

\* Each step keeps the types.
LEMMA TypeStep ==
  ASSUME TypeOK, Next
  PROVE  TypeOK'
  BY StepCases, BeginType, WorkerType, ControlType, InsertLineType, InsertSegmentType, PurgeType,
     ReadRowsType, SendPageType, ReconnectType, ReconnectByIdType

\* The types hold at the start.
LEMMA TypeInit ==
  ASSUME Init
  PROVE  TypeOK
  <1> USE LogStreamAssumption
  <1>1. JobType
    BY DEF Init, JobType, Status
  <1>2. InsertsType /\ RowsType /\ FilesType
    BY DEF Init, InsertsType, RowsType, FilesType
  <1>3. SegmentsType /\ HistoryType
    BY DEF Init, SegmentsType, HistoryType
  <1>4. SinkType
    <2>1. Sink("none", 0, 1) \in SinkRecord
      BY DEF Sink, SinkRecord, Place
    <2>2. \A a \in Attempt : sink[a] = Sink("none", 0, 1)
      BY DEF Init
    <2>3. \A a \in Attempt : sink[a].at = "none" /\ sink[a].start = 1 /\ sink[a].sequence = 0 /\ 0 < a
      BY <2>2 DEF Sink, Attempt
    <2>4. sink \in [Attempt -> SinkRecord]
      BY <2>1 DEF Init
    <2> QED BY <2>3, <2>4 DEF Init, SinkType
  <1>5. <<>> \in Seq(Number) /\ Len(<<>>) <= Limit
    OBVIOUS
  <1>6. StreamType
    BY <1>5 DEF Init, StreamType, Poll
  <1> QED BY <1>1, <1>2, <1>3, <1>4, <1>6, Parts

\* A step that changes nothing keeps the types.
LEMMA StutterType ==
  ASSUME TypeOK, UNCHANGED vars
  PROVE  TypeOK'
  BY DEF TypeOK, vars

\* TypeOK: every state of the sinks, of the tables and of the stream is well
\* formed: no row, task, segment or file is of an attempt that was not made, and
\* no page is longer than the limit of the query.
THEOREM TypeCorrect == Spec => []TypeOK
  <1>1. TypeOK /\ [Next]_vars => TypeOK'
    BY TypeStep, StutterType
  <1> QED BY <1>1, TypeInit, PTL DEF Spec

---------------------------------------------------------------------------
(* Segments                                                                *)

\* The buffer never holds more than a segment, and less while lines are written.
BufferBounded ==
  \A a \in Attempt :
    /\ sink[a].sequence - sink[a].start + 1 <= Threshold
    /\ At(a, "building") => sink[a].sequence - sink[a].start + 1 < Threshold

\* An attempt that may still write beside a later one is on record as a stray.
StraysKnown == \A a \in Attempt : sink[a].at \in Writing /\ a < attempt => a \in strays

\* Steps that leave the numbers of the sinks and the files alone, and let no sink
\* write that did not write before.
Calm ==
  /\ UNCHANGED <<attempt, strays, files>>
  /\ \A b \in Attempt : /\ sink'[b].sequence = sink[b].sequence /\ sink'[b].start = sink[b].start
                        /\ sink'[b].at \in Writing => sink[b].at \in Writing
                        /\ sink'[b].at = "building" => sink[b].at = "building"

\* Only a line, a flush and a new attempt change what the sinks hold.
LEMMA SinkStep ==
  ASSUME TypeOK, Next
  PROVE  \/ Begin
         \/ \E a \in Attempt : WriteLine(a)
         \/ \E a \in Attempt : FlushSink(a)
         \/ Calm
  <1>1. ASSUME UNCHANGED <<attempt, strays, files, sink>> PROVE Calm
    BY <1>1 DEF Calm
  <1>2. ASSUME NEW a \in Attempt, NEW p, Goto(a, p), UNCHANGED <<attempt, strays, files>>,
               p \in Writing => sink[a].at \in Writing, p # "building"
        PROVE  Calm
    <2>1. sink' = [sink EXCEPT ![a] = Sink(p, sink[a].sequence, sink[a].start)]
      BY <1>2, Moved
    <2>2. PICK m, s : m = sink[a].sequence /\ s = sink[a].start
      OBVIOUS
    <2>3. /\ sink'[a].at = p /\ sink'[a].sequence = m /\ sink'[a].start = s
          /\ \A b \in Attempt \ {a} : sink'[b] = sink[b]
      BY <2>1, <2>2, NewSink
    <2>4. ASSUME NEW b \in Attempt
          PROVE  /\ sink'[b].sequence = sink[b].sequence /\ sink'[b].start = sink[b].start
                 /\ sink'[b].at \in Writing => sink[b].at \in Writing
                 /\ sink'[b].at = "building" => sink[b].at = "building"
      BY <1>2, <2>2, <2>3
    <2> QED BY <1>2, <2>4 DEF Calm
  <1>3. ASSUME NEW a \in Attempt, Worker(a), ~ WriteLine(a), ~ FlushSink(a) PROVE Calm
    <2>1. UNCHANGED <<attempt, strays, files>>
      BY <1>3 DEF Worker, BuildEnds, StoreArtifact, MarkRunning, Ack, Fail, Crash, queueVars, tableVars
    <2>2. CASE BuildEnds(a) \/ StoreArtifact(a)
      <3>1. /\ sink[a].at \in Writing
            /\ Goto(a, "flushing") \/ Goto(a, "failing") \/ Goto(a, "stored")
        BY <2>2 DEF BuildEnds, StoreArtifact, At, Writing
      <3> QED BY <1>2, <2>1, <3>1
    <2>3. CASE MarkRunning(a) \/ Ack(a) \/ Fail(a) \/ Crash(a)
      <3>1. Goto(a, "built") \/ Goto(a, "gone") \/ Goto(a, "dead")
        BY <2>3 DEF MarkRunning, Ack, Fail, Crash
      <3>2. "built" \notin Writing /\ "gone" \notin Writing /\ "dead" \notin Writing
        BY DEF Writing
      <3> QED BY <1>2, <2>1, <3>1, <3>2
    <2> QED BY <1>3, <2>2, <2>3 DEF Worker
  <1>4. Requeue \/ CancelDeployment \/ StopDeployment \/ RetryDeployment \/ ReadRows \/ SendPage => Calm
    BY <1>1 DEF Requeue, CancelDeployment, StopDeployment, RetryDeployment, ReadRows, SendPage,
       queueVars, tableVars
  <1>5. \A i \in inserts : InsertLine(i) => Calm
    BY <1>1 DEF InsertLine, queueVars
  <1>6. \A s \in segInserts : InsertSegment(s) => Calm
    BY <1>1 DEF InsertSegment, queueVars
  <1>7. \A a \in Attempt, n \in Number : Purge(a, n) => Calm
    BY <1>1 DEF Purge, queueVars
  <1>8. (\A n \in 0 .. Limit : Reconnect(n) => Calm) /\ (ReconnectById => Calm)
    BY <1>1 DEF Reconnect, ReconnectById, queueVars, tableVars
  <1> QED BY <1>3, <1>4, <1>5, <1>6, <1>7, <1>8 DEF Next

\* What write_line and flush do to the sink: where it was and goes, how many lines
\* it counts, and whether the buffer was rotated.
LEMMA SinkWrites ==
  ASSUME TypeOK, NEW a \in Attempt, WriteLine(a) \/ FlushSink(a)
  PROVE  /\ sink[a].at \in Writing /\ sink[a].at # "none"
         /\ UNCHANGED <<attempt, strays, segments>> /\ (Trouble \/ UNCHANGED trouble)
         /\ \A b \in Attempt \ {a} : sink'[b] = sink[b]
         /\ sink'[a].sequence \in Nat /\ sink[a].sequence <= sink'[a].sequence
         /\ sink'[a].sequence <= sink[a].sequence + 1
         /\ \/ /\ Rotate(a, sink'[a].sequence) /\ sink'[a].start = sink'[a].sequence + 1
               /\ sink[a].start <= sink'[a].sequence /\ UNCHANGED trouble
            \/ /\ sink'[a].start = sink[a].start /\ UNCHANGED <<files, segInserts>>
  <1>0. /\ sink[a].sequence \in Nat /\ sink[a].start \in Nat /\ sink[a].start <= sink[a].sequence + 1
    BY SinkNumbers
  <1>1. CASE WriteLine(a)
    <2>1. PICK n : n = sink[a].sequence + 1
      OBVIOUS
    <2>2. PICK p \in {"building", "failing"} :
            (Rotated(a, p, n) /\ UNCHANGED trouble) \/ Kept(a, p, n)
      BY <1>1, <2>1 DEF WriteLine
    <2>3. /\ sink[a].at \in Writing /\ sink[a].at # "none"
          /\ UNCHANGED <<attempt, strays, segments>> /\ (Trouble \/ UNCHANGED trouble)
      BY <1>1 DEF WriteLine, At, Writing, queueVars
    <2>4. CASE Rotated(a, p, n) /\ UNCHANGED trouble
      <3>1. sink' = [sink EXCEPT ![a] = Sink(p, n, n + 1)] /\ Rotate(a, n)
        BY <2>4 DEF Rotated, AfterRotation
      <3>2. /\ sink'[a].at = p /\ sink'[a].sequence = n /\ sink'[a].start = n + 1
            /\ \A b \in Attempt \ {a} : sink'[b] = sink[b]
        BY <3>1, NewSink
      <3> QED BY <1>0, <2>1, <2>3, <2>4, <3>1, <3>2
    <2>5. CASE Kept(a, p, n)
      <3>1. PICK s : s = sink[a].start
        OBVIOUS
      <3>2. sink' = [sink EXCEPT ![a] = Sink(p, n, s)] /\ UNCHANGED <<files, segInserts>>
        BY <2>5, <3>1 DEF Kept
      <3>3. /\ sink'[a].at = p /\ sink'[a].sequence = n /\ sink'[a].start = s
            /\ \A b \in Attempt \ {a} : sink'[b] = sink[b]
        BY <3>2, NewSink
      <3> QED BY <1>0, <2>1, <2>3, <3>1, <3>2, <3>3
    <2> QED BY <2>2, <2>4, <2>5
  <1>2. CASE FlushSink(a)
    <2>1. PICK n : n = sink[a].sequence
      OBVIOUS
    <2>2. PICK p : (Rotated(a, p, n) /\ ~ (sink[a].start > n) /\ UNCHANGED trouble) \/ Kept(a, p, n)
      BY <1>2, <2>1 DEF FlushSink
    <2>3. /\ sink[a].at \in Writing /\ sink[a].at # "none"
          /\ UNCHANGED <<attempt, strays, segments>> /\ (Trouble \/ UNCHANGED trouble)
      BY <1>2 DEF FlushSink, AfterFlush, Writing, queueVars
    <2>4. CASE Rotated(a, p, n) /\ ~ (sink[a].start > n) /\ UNCHANGED trouble
      <3>1. sink' = [sink EXCEPT ![a] = Sink(p, n, n + 1)] /\ Rotate(a, n)
        BY <2>4 DEF Rotated, AfterRotation
      <3>2. /\ sink'[a].at = p /\ sink'[a].sequence = n /\ sink'[a].start = n + 1
            /\ \A b \in Attempt \ {a} : sink'[b] = sink[b]
        BY <3>1, NewSink
      <3> QED BY <1>0, <2>1, <2>3, <2>4, <3>1, <3>2
    <2>5. CASE Kept(a, p, n)
      <3>1. PICK s : s = sink[a].start
        OBVIOUS
      <3>2. sink' = [sink EXCEPT ![a] = Sink(p, n, s)] /\ UNCHANGED <<files, segInserts>>
        BY <2>5, <3>1 DEF Kept
      <3>3. /\ sink'[a].at = p /\ sink'[a].sequence = n /\ sink'[a].start = s
            /\ \A b \in Attempt \ {a} : sink'[b] = sink[b]
        BY <3>2, NewSink
      <3> QED BY <1>0, <2>1, <2>3, <3>1, <3>2, <3>3
    <2> QED BY <2>2, <2>4, <2>5
  <1> QED BY <1>1, <1>2

\* What a new attempt does to the sinks.
LEMMA BeginFacts ==
  ASSUME TypeOK, Begin
  PROVE  \E c \in Attempt :
           /\ c = attempt + 1 /\ attempt' = c
           /\ sink'[c].at = "building" /\ sink'[c].sequence = 0 /\ sink'[c].start = 1
           /\ \A b \in Attempt \ {c} : sink'[b] = sink[b]
           /\ UNCHANGED tableVars
  <1>1. PICK c \in Attempt : c = attempt + 1
    BY LogStreamAssumption DEF TypeOK, Begin, Attempt
  <1>2. sink' = [sink EXCEPT ![c] = Sink("building", 0, 1)]
    BY <1>1 DEF Begin
  <1>3. /\ sink'[c].at = "building" /\ sink'[c].sequence = 0 /\ sink'[c].start = 1
        /\ \A b \in Attempt \ {c} : sink'[b] = sink[b]
    BY <1>2, NewSink
  <1> QED BY <1>1, <1>3 DEF Begin

\* write_line rotates at the threshold, so the buffers stay bounded.
LEMMA BufferStep ==
  ASSUME TypeOK, BufferBounded, Next
  PROVE  BufferBounded'
  <1> USE LogStreamAssumption
  <1>1. CASE Begin
    <2>1. PICK c \in Attempt :
            /\ sink'[c].at = "building" /\ sink'[c].sequence = 0 /\ sink'[c].start = 1
            /\ \A b \in Attempt \ {c} : sink'[b] = sink[b]
      BY <1>1, BeginFacts
    <2> QED BY <2>1 DEF BufferBounded, At
  <1>2. ASSUME NEW a \in Attempt, WriteLine(a) PROVE BufferBounded'
    <2>0. sink[a].sequence \in Nat /\ sink[a].start \in Nat
      BY SinkNumbers
    <2>1. PICK n : n = sink[a].sequence + 1
      OBVIOUS
    <2>2. /\ \A b \in Attempt \ {a} : sink'[b] = sink[b]
          /\ sink[a].at = "building"
      BY <1>2, SinkWrites DEF WriteLine, At
    <2>3. sink[a].sequence - sink[a].start + 1 < Threshold
      BY <2>2 DEF BufferBounded, At
    <2>4. /\ sink'[a].sequence - sink'[a].start + 1 <= Threshold
          /\ sink'[a].at = "building" => sink'[a].sequence - sink'[a].start + 1 < Threshold
      <3>1. CASE Rotated(a, "building", n)
        <4>1. sink' = [sink EXCEPT ![a] = Sink("building", n, n + 1)]
          BY <3>1 DEF Rotated, AfterRotation
        <4>2. /\ sink'[a].at = "building" /\ sink'[a].sequence = n /\ sink'[a].start = n + 1
              /\ \A b \in Attempt \ {a} : sink'[b] = sink[b]
          BY <4>1, NewSink
        <4> QED BY <2>0, <2>1, <4>2
      <3>2. ASSUME NEW p, Kept(a, p, n), p = "building" => ~ (n - sink[a].start + 1 >= Threshold)
            PROVE  /\ sink'[a].sequence - sink'[a].start + 1 <= Threshold
                   /\ sink'[a].at = "building" => sink'[a].sequence - sink'[a].start + 1 < Threshold
        <4>1. PICK s : s = sink[a].start
          OBVIOUS
        <4>2. sink' = [sink EXCEPT ![a] = Sink(p, n, s)]
          BY <3>2, <4>1 DEF Kept
        <4>3. /\ sink'[a].at = p /\ sink'[a].sequence = n /\ sink'[a].start = s
              /\ \A b \in Attempt \ {a} : sink'[b] = sink[b]
          BY <4>2, NewSink
        <4> QED BY <2>0, <2>1, <2>3, <3>2, <4>1, <4>3
      <3>3. \/ Rotated(a, "building", n)
            \/ Kept(a, "building", n) /\ ~ (n - sink[a].start + 1 >= Threshold)
            \/ Kept(a, "failing", n)
        BY <1>2, <2>1 DEF WriteLine
      <3> QED BY <3>1, <3>2, <3>3
    <2> QED BY <2>2, <2>4 DEF BufferBounded, At
  <1>3. ASSUME NEW a \in Attempt, FlushSink(a) PROVE BufferBounded'
    <2>0. sink[a].sequence \in Nat /\ sink[a].start \in Nat
      BY SinkNumbers
    <2>1. PICK n : n = sink[a].sequence
      OBVIOUS
    <2>2. sink[a].at \in {"flushing", "stored", "failing"}
      BY <1>3 DEF FlushSink, AfterFlush
    <2>3. PICK p \in {"waiting", "dropped", "failed"} : Rotated(a, p, n) \/ Kept(a, p, n)
      BY <1>3, <2>1, <2>2 DEF FlushSink, AfterFlush
    <2>4. PICK s : (s = n + 1 \/ s = sink[a].start) /\ sink' = [sink EXCEPT ![a] = Sink(p, n, s)]
      BY <2>3 DEF Rotated, AfterRotation, Kept
    <2>5. /\ sink'[a].at = p /\ sink'[a].sequence = n /\ sink'[a].start = s
          /\ \A b \in Attempt \ {a} : sink'[b] = sink[b]
      BY <2>4, NewSink
    <2>6. sink[a].sequence - sink[a].start + 1 <= Threshold
      BY DEF BufferBounded
    <2>7. sink'[a].sequence - sink'[a].start + 1 <= Threshold
      BY <2>0, <2>1, <2>4, <2>5, <2>6
    <2> QED BY <2>5, <2>7 DEF BufferBounded, At
  <1>4. CASE Calm
    BY <1>4 DEF BufferBounded, Calm, At
  <1> QED BY <1>1, <1>2, <1>3, <1>4, SinkStep

\* Who writes beside a later attempt was at work when that began.
LEMMA StraysStep ==
  ASSUME TypeOK, StraysKnown, Next
  PROVE  StraysKnown'
  <1>1. CASE Begin
    <2>1. PICK c \in Attempt :
            /\ c = attempt + 1 /\ attempt' = c
            /\ \A b \in Attempt \ {c} : sink'[b] = sink[b]
      BY <1>1, BeginFacts
    <2>2. strays' = strays \cup {a \in Attempt : sink[a].at \in Writing}
      BY <1>1 DEF Begin
    <2> SUFFICES ASSUME NEW a \in Attempt, sink'[a].at \in Writing, a < attempt' PROVE a \in strays'
      BY DEF StraysKnown
    <2>3. a # c
      BY <2>1, SinkNumbers
    <2> QED BY <2>1, <2>2, <2>3
  <1>2. ASSUME NEW a \in Attempt, WriteLine(a) \/ FlushSink(a) PROVE StraysKnown'
    BY <1>2, SinkWrites DEF StraysKnown
  <1>3. CASE Calm
    BY <1>3 DEF StraysKnown, Calm
  <1> QED BY <1>1, <1>2, <1>3, SinkStep

Lines(f) == f[1] .. f[2]
Mine(a) == {f \in DOMAIN files : files[f] = a}

\* Each line before the buffer of a is in a file, of a or of one that may replace it.
Covered(a) ==
  \A n \in 1 .. sink[a].start - 1 :
    \E f \in DOMAIN files : n \in Lines(f) /\ (files[f] >= a \/ files[f] \in strays)

\* The files of a share no line, hold lines before its buffer, and are not too long.
Apart(a) == \A f, g \in Mine(a) : f # g => Lines(f) \cap Lines(g) = {}
Sized(a) ==
  \A f \in Mine(a) : /\ Lines(f) \subseteq 1 .. sink[a].start - 1
                     /\ Cardinality(Lines(f)) \in 1 .. Threshold

\* SegmentsTile, part by part.
LEMMA TileParts ==
  SegmentsTile <=> \A a \in 1 .. attempt : Covered(a) /\ Apart(a) /\ Sized(a)
  BY DEF SegmentsTile, Covered, Apart, Sized, Mine, Lines

\* The same of the next state.
LEMMA TilePartsNext ==
  SegmentsTile' <=> \A a \in 1 .. attempt' : Covered(a)' /\ Apart(a)' /\ Sized(a)'
  BY DEF SegmentsTile, Covered, Apart, Sized, Mine, Lines

\* A file of the lines from the buffer's first on joins those that tile the lines
\* before it, and takes no line from another attempt.
LEMMA RotateTiles ==
  ASSUME TypeOK, StraysKnown, SegmentsTile, NEW a \in Attempt, NEW n \in Nat,
         sink[a].at \in Writing, sink[a].start <= n, n - sink[a].start + 1 <= Threshold,
         Rotate(a, n), sink'[a].start = n + 1, \A b \in Attempt \ {a} : sink'[b] = sink[b],
         UNCHANGED <<attempt, strays>>
  PROVE  SegmentsTile'
  <1>1. PICK s : s = sink[a].start
    OBVIOUS
  <1> DEFINE new == <<s, n>>
  <1>2. /\ s \in Nat /\ s >= 1 /\ s <= n /\ a \in Nat /\ attempt \in Nat
        /\ a \in 1 .. attempt /\ 1 .. attempt \subseteq Attempt
    <2>1. sink[a].at # "none"
      BY DEF Writing
    <2>2. /\ attempt \in Nat /\ a \in Nat /\ s \in Nat /\ s >= 1 /\ a \in 1 .. attempt
      BY <1>1, <2>1, SinkNumbers
    <2>3. attempt <= MaxAttempts
      BY LogStreamAssumption DEF TypeOK
    <2> QED BY <1>1, <2>2, <2>3, LogStreamAssumption DEF Attempt
  <1>3. Lines(new) = s .. n
    BY DEF Lines
  <1>4. /\ DOMAIN files' = DOMAIN files \cup {new} /\ files'[new] = a
        /\ \A f \in DOMAIN files \ {new} : files'[f] = files[f]
    BY <1>1 DEF Rotate, With
  <1>5. \A b \in 1 .. attempt : Covered(b) /\ Apart(b) /\ Sized(b)
    BY TileParts
  <1>6. a \in strays \/ \A b \in 1 .. attempt : a >= b
    <2>1. a < attempt => a \in strays
      BY DEF StraysKnown
    <2> QED BY <1>2, <2>1
  <1>7. Cardinality(Lines(new)) \in 1 .. Threshold
    <2>1. Cardinality(s .. n) = n - s + 1
      BY <1>2, FS_Interval
    <2> QED BY <1>1, <1>2, <1>3, <2>1, LogStreamAssumption
  <1> HIDE DEF new
  <1>8. ASSUME NEW b \in 1 .. attempt PROVE Covered(b)'
    <2> SUFFICES ASSUME NEW m \in 1 .. sink'[b].start - 1
                 PROVE  \E f \in DOMAIN files' : m \in Lines(f) /\ (files'[f] >= b \/ files'[f] \in strays')
      BY DEF Covered, Lines
    <2>1. CASE m \in 1 .. sink[b].start - 1
      <3>1. PICK f \in DOMAIN files : m \in Lines(f) /\ (files[f] >= b \/ files[f] \in strays)
        BY <1>5, <2>1 DEF Covered
      <3>2. files'[f] >= b \/ files'[f] \in strays'
        BY <1>4, <1>6, <3>1
      <3> QED BY <1>4, <3>1, <3>2
    <2>2. CASE ~ (m \in 1 .. sink[b].start - 1)
      <3>1. b = a
        BY <1>2, <2>2
      <3>2. m \in Lines(new)
        BY <1>1, <1>2, <1>3, <2>2, <3>1
      <3>3. files'[new] >= b
        BY <1>2, <1>4, <3>1
      <3> QED BY <1>4, <3>2, <3>3
    <2> QED BY <2>1, <2>2
  <1>9. ASSUME NEW b \in 1 .. attempt, b # a PROVE Apart(b)' /\ Sized(b)'
    <2>1. Mine(b)' \subseteq Mine(b) /\ sink'[b] = sink[b]
      BY <1>2, <1>4, <1>9 DEF Mine
    <2>2. Apart(b)'
      BY <1>5, <2>1 DEF Apart, Lines
    <2>3. Sized(b)'
      BY <1>5, <2>1 DEF Sized, Lines
    <2> QED BY <2>2, <2>3
  <1>10. Apart(a)' /\ Sized(a)'
    <2>1. Mine(a)' \subseteq Mine(a) \cup {new}
      BY <1>4 DEF Mine
    <2>2. Apart(a) /\ Sized(a)
      BY <1>2, <1>5
    <2>3. 1 .. s - 1 \subseteq 1 .. n /\ s .. n \subseteq 1 .. n /\ (1 .. s - 1) \cap (s .. n) = {}
      BY <1>2
    <2>4. \A f \in Mine(a) : Lines(f) \subseteq 1 .. s - 1 /\ Cardinality(Lines(f)) \in 1 .. Threshold
      BY <1>1, <2>2 DEF Sized
    <2>5. \A f \in Mine(a) : Lines(f) \cap Lines(new) = {}
      BY <1>3, <2>3, <2>4
    <2>6. Apart(a)'
      <3>1. \A f, g \in Mine(a)' : f # g => Lines(f) \cap Lines(g) = {}
        BY <2>1, <2>2, <2>5 DEF Apart
      <3> QED BY <3>1 DEF Apart, Lines
    <2>7. sink'[a].start - 1 = n
      BY <1>2
    <2>8. Sized(a)'
      <3>1. \A f \in Mine(a)' : Lines(f) \subseteq 1 .. n /\ Cardinality(Lines(f)) \in 1 .. Threshold
        BY <1>3, <1>7, <2>1, <2>3, <2>4
      <3> QED BY <2>7, <3>1 DEF Sized, Lines
    <2> QED BY <2>6, <2>8
  <1> QED BY <1>8, <1>9, <1>10, TilePartsNext

\* Each step keeps the files tiling the lines before the buffers.
LEMMA TileStep ==
  ASSUME TypeOK, BufferBounded, StraysKnown, SegmentsTile, Next
  PROVE  SegmentsTile'
  <1>0. /\ \A b \in 1 .. attempt : Covered(b) /\ Apart(b) /\ Sized(b)
        /\ attempt \in Nat /\ 1 .. attempt \subseteq Attempt
    BY TileParts, LogStreamAssumption DEF TypeOK, Attempt
  <1>1. ASSUME UNCHANGED <<attempt, strays, files>>, \A b \in Attempt : sink'[b].start = sink[b].start
        PROVE  SegmentsTile'
    <2>1. ASSUME NEW b \in 1 .. attempt PROVE Covered(b)' /\ Apart(b)' /\ Sized(b)'
      <3>1. sink'[b].start = sink[b].start /\ Mine(b)' = Mine(b)
        BY <1>0, <1>1 DEF Mine
      <3>2. Covered(b)'
        BY <1>0, <1>1, <3>1 DEF Covered, Lines
      <3>3. Apart(b)' /\ Sized(b)'
        BY <1>0, <3>1 DEF Apart, Sized, Lines
      <3> QED BY <3>2, <3>3
    <2> QED BY <1>1, <2>1, TilePartsNext
  <1>2. CASE Begin
    <2>1. PICK c \in Attempt :
            /\ c = attempt + 1 /\ attempt' = c /\ sink'[c].start = 1
            /\ \A b \in Attempt \ {c} : sink'[b] = sink[b]
            /\ UNCHANGED tableVars
      BY <1>2, BeginFacts
    <2>2. files' = files /\ strays \subseteq strays'
      BY <1>2, <2>1 DEF tableVars, Begin
    <2>3. ASSUME NEW b \in 1 .. attempt PROVE Covered(b)' /\ Apart(b)' /\ Sized(b)'
      <3>1. sink'[b].start = sink[b].start /\ Mine(b)' = Mine(b)
        BY <1>0, <2>1, <2>2 DEF Mine
      <3>2. Covered(b)'
        BY <1>0, <2>2, <3>1 DEF Covered, Lines
      <3>3. Apart(b)' /\ Sized(b)'
        BY <1>0, <3>1 DEF Apart, Sized, Lines
      <3> QED BY <3>2, <3>3
    <2>4. Covered(c)' /\ Apart(c)' /\ Sized(c)'
      <3>1. Mine(c)' = {}
        BY <2>1, <2>2 DEF Mine, TypeOK
      <3>2. 1 .. sink'[c].start - 1 = {}
        BY <2>1
      <3> QED BY <3>1, <3>2 DEF Covered, Apart, Sized
    <2>5. \A b \in 1 .. attempt' : b \in 1 .. attempt \/ b = c
      BY <1>0, <2>1
    <2> QED BY <2>3, <2>4, <2>5, TilePartsNext
  <1>3. ASSUME NEW a \in Attempt, WriteLine(a) \/ FlushSink(a) PROVE SegmentsTile'
    <2>1. PICK n : n = sink'[a].sequence
      OBVIOUS
    <2>2. /\ sink[a].at \in Writing
          /\ UNCHANGED <<attempt, strays>>
          /\ \A b \in Attempt \ {a} : sink'[b] = sink[b]
          /\ n \in Nat
          /\ \/ Rotate(a, n) /\ sink'[a].start = n + 1 /\ sink[a].start <= n
             \/ sink'[a].start = sink[a].start /\ UNCHANGED <<files, segInserts>>
      BY <1>3, <2>1, SinkWrites
    <2>3. CASE sink'[a].start = sink[a].start /\ UNCHANGED <<files, segInserts>>
      BY <1>1, <2>2, <2>3
    <2>4. CASE Rotate(a, n) /\ sink'[a].start = n + 1 /\ sink[a].start <= n
      <3>1. n - sink[a].start + 1 <= Threshold
        <4>1. CASE n = sink[a].sequence
          BY <4>1 DEF BufferBounded
        <4>2. CASE n # sink[a].sequence
          <5>1. n <= sink[a].sequence + 1 /\ sink[a].sequence <= n /\ n \in Nat
            BY <1>3, <2>1, SinkWrites
          <5>2. n = sink[a].sequence + 1
            BY <4>2, <5>1, SinkNumbers
          <5>3. WriteLine(a)
            <6>1. FlushSink(a) => sink'[a].sequence = sink[a].sequence
              <7> SUFFICES ASSUME FlushSink(a) PROVE sink'[a].sequence = sink[a].sequence
                OBVIOUS
              <7>1. PICK m : m = sink[a].sequence
                OBVIOUS
              <7>2. PICK p, s : sink' = [sink EXCEPT ![a] = Sink(p, m, s)]
                BY <7>1 DEF FlushSink, Rotated, Kept
              <7>3. /\ sink'[a].at = p /\ sink'[a].sequence = m /\ sink'[a].start = s
                    /\ \A b \in Attempt \ {a} : sink'[b] = sink[b]
                BY <7>2, NewSink
              <7> QED BY <7>1, <7>3
            <6> QED BY <1>3, <2>1, <4>2, <6>1
          <5>4. sink[a].sequence - sink[a].start + 1 < Threshold
            <6>1. sink[a].at = "building"
              BY <5>3 DEF WriteLine, At
            <6> QED BY <6>1 DEF BufferBounded, At
          <5>5. sink[a].sequence \in Nat /\ sink[a].start \in Nat /\ Threshold \in Nat
            BY SinkNumbers, LogStreamAssumption
          <5> QED BY <5>2, <5>4, <5>5
        <4> QED BY <4>1, <4>2
      <3> QED BY <2>2, <2>4, <3>1, RotateTiles
    <2> QED BY <2>2, <2>3, <2>4
  <1>4. CASE Calm
    BY <1>1, <1>4 DEF Calm
  <1> QED BY <1>2, <1>3, <1>4, SinkStep

\* SegmentsTile: the files an attempt wrote hold each of its lines before the
\* buffer once, at most Threshold in each, whatever failed before and whoever
\* writes beside it.
THEOREM SegmentsAlwaysTile == Spec => []SegmentsTile
  <1> DEFINE Inv == BufferBounded /\ StraysKnown /\ SegmentsTile
  <1>1. Init => Inv
    <2> SUFFICES ASSUME Init PROVE Inv
      OBVIOUS
    <2>1. \A a \in Attempt : sink[a] = Sink("none", 0, 1)
      BY DEF Init
    <2>2. \A a \in Attempt : sink[a].sequence = 0 /\ sink[a].start = 1 /\ sink[a].at = "none"
      BY <2>1 DEF Sink
    <2>3. BufferBounded /\ StraysKnown
      BY <2>2, LogStreamAssumption DEF BufferBounded, StraysKnown, At, Writing
    <2>4. SegmentsTile
      BY DEF Init, SegmentsTile
    <2> QED BY <2>3, <2>4
  <1>2. TypeOK /\ Inv /\ [Next]_vars => Inv'
    <2>1. ASSUME Inv, UNCHANGED vars PROVE Inv'
      BY <2>1 DEF BufferBounded, StraysKnown, SegmentsTile, At, vars
    <2> QED BY <2>1, BufferStep, StraysStep, TileStep
  <1> QED BY <1>1, <1>2, TypeCorrect, PTL DEF Spec

---------------------------------------------------------------------------
(* The stream                                                              *)

Increasing(s) == \A i, j \in DOMAIN s : i < j => s[i] < s[j]

\* Joining two sequences.
LEMMA Joined ==
  ASSUME NEW s \in Seq(Number), NEW t \in Seq(Number)
  PROVE  /\ s \o t \in Seq(Number)
         /\ DOMAIN s = 1 .. Len(s) /\ DOMAIN t = 1 .. Len(t)
         /\ Len(s) \in Nat /\ Len(t) \in Nat
         /\ DOMAIN (s \o t) = 1 .. Len(s) + Len(t)
         /\ \A i \in 1 .. Len(s) : (s \o t)[i] = s[i]
         /\ \A i \in 1 .. Len(t) : (s \o t)[Len(s) + i] = t[i]
         /\ \A i \in DOMAIN (s \o t) :
              \/ i \in 1 .. Len(s) /\ (s \o t)[i] = s[i]
              \/ i - Len(s) \in 1 .. Len(t) /\ (s \o t)[i] = t[i - Len(s)]
  OBVIOUS

\* The members of two sequences joined.
LEMMA JoinedRange ==
  ASSUME NEW s \in Seq(Number), NEW t \in Seq(Number)
  PROVE  Range(s \o t) = Range(s) \cup Range(t)
  <1>1. Range(s \o t) \subseteq Range(s) \cup Range(t)
    BY Joined DEF Range
  <1>2. Range(s) \subseteq Range(s \o t)
    <2> SUFFICES ASSUME NEW i \in 1 .. Len(s) PROVE s[i] \in Range(s \o t)
      BY Joined DEF Range
    <2>1. i \in DOMAIN (s \o t) /\ (s \o t)[i] = s[i]
      BY Joined
    <2> QED BY <2>1 DEF Range
  <1>3. Range(t) \subseteq Range(s \o t)
    <2> SUFFICES ASSUME NEW i \in 1 .. Len(t) PROVE t[i] \in Range(s \o t)
      BY Joined DEF Range
    <2>1. Len(s) + i \in DOMAIN (s \o t) /\ (s \o t)[Len(s) + i] = t[i]
      BY Joined
    <2> QED BY <2>1 DEF Range
  <1> QED BY <1>1, <1>2, <1>3

\* An increasing sequence ends with its largest number.
LEMMA LastIsLargest ==
  ASSUME NEW s \in Seq(Number), Increasing(s), NEW n \in Nat, NEW x \in Range(s)
  PROVE  x \in Nat /\ x <= LastOr(s, n)
  <1>1. PICK i \in 1 .. Len(s) : x = s[i]
    BY DEF Range
  <1>2. Len(s) \in 1 .. Len(s) /\ LastOr(s, n) = s[Len(s)]
    BY <1>1 DEF LastOr
  <1>3. s[i] \in Nat /\ s[Len(s)] \in Nat
    BY <1>2, NumberFacts, ElementOfSeq
  <1>4. i = Len(s) \/ i < Len(s)
    BY <1>2
  <1> QED BY <1>1, <1>2, <1>3, <1>4 DEF Increasing

\* An increasing sequence goes on with one beyond its last number.
LEMMA JoinedIncreasing ==
  ASSUME NEW s \in Seq(Number), NEW t \in Seq(Number), Increasing(s), Increasing(t),
         \A x \in Range(t) : x > LastOr(s, 0)
  PROVE  /\ Increasing(s \o t)
         /\ LastOr(s \o t, 0) = LastOr(t, LastOr(s, 0))
  <1>1. Increasing(s \o t)
    <2> SUFFICES ASSUME NEW i \in DOMAIN (s \o t), NEW j \in DOMAIN (s \o t), i < j
                 PROVE  (s \o t)[i] < (s \o t)[j]
      BY DEF Increasing
    <2>1. i \in Nat /\ j \in Nat /\ Len(s) \in Nat
      BY Joined
    <2>2. CASE i \in 1 .. Len(s) /\ j \in 1 .. Len(s)
      BY <2>2, Joined DEF Increasing
    <2>3. CASE i - Len(s) \in 1 .. Len(t) /\ j - Len(s) \in 1 .. Len(t)
      <3>1. (s \o t)[i] = t[i - Len(s)] /\ (s \o t)[j] = t[j - Len(s)]
        BY <2>1, <2>3, Joined
      <3>2. i - Len(s) < j - Len(s)
        BY <2>1
      <3> QED BY <2>3, <3>1, <3>2, Joined DEF Increasing
    <2>4. CASE i \in 1 .. Len(s) /\ j - Len(s) \in 1 .. Len(t)
      <3>1. (s \o t)[i] = s[i] /\ (s \o t)[j] = t[j - Len(s)]
        BY <2>1, <2>4, Joined
      <3>2. s[i] \in Range(s) /\ t[j - Len(s)] \in Range(t)
        BY <2>4, Joined DEF Range
      <3>3. s[i] \in Nat /\ s[i] <= LastOr(s, 0) /\ t[j - Len(s)] > LastOr(s, 0)
        BY <3>2, LastIsLargest
      <3>4. t[j - Len(s)] \in Number /\ LastOr(s, 0) \in Number \cup {0}
        BY <2>4, ElementOfSeq, LastType
      <3>5. \A x \in Number \cup {0} : x \in Nat
        BY NumberFacts
      <3>6. PICK x, y : x = t[j - Len(s)] /\ y = LastOr(s, 0)
        OBVIOUS
      <3>7. x \in Nat /\ y \in Nat
        BY <3>4, <3>5, <3>6
      <3> QED BY <3>1, <3>3, <3>6, <3>7
    <2> QED BY <2>1, <2>2, <2>3, <2>4, Joined
  <1>2. LastOr(s \o t, 0) = LastOr(t, LastOr(s, 0))
    <2>1. CASE t = <<>>
      BY <2>1 DEF LastOr
    <2>2. CASE t # <<>>
      <3>1. Len(t) \in 1 .. Len(t) /\ s \o t # <<>> /\ Len(s \o t) = Len(s) + Len(t)
        BY <2>2
      <3>2. (s \o t)[Len(s \o t)] = t[Len(t)]
        BY <3>1, Joined
      <3> QED BY <2>2, <3>1, <3>2 DEF LastOr
    <2> QED BY <2>1, <2>2
  <1> QED BY <1>1, <1>2

\* What the client received ends with the number its stream continues after,
\* and the page it is about to get is beyond it.
OrderInv ==
  /\ Increasing(client) /\ Increasing(stream.page)
  /\ \A x \in Range(stream.page) : x > stream.last
  /\ stream.last = LastOr(client, 0)
  /\ stream.at # "status" => stream.page = <<>>

\* Only the stream's own steps change it.
LEMMA StreamStep ==
  ASSUME Next
  PROVE  \/ ReadRows
         \/ SendPage
         \/ \E n \in 0 .. Limit : Reconnect(n)
         \/ ReconnectById
         \/ UNCHANGED streamVars
  <1>1. \A a \in Attempt : Worker(a) => UNCHANGED streamVars
    BY DEF Worker, WriteLine, BuildEnds, FlushSink, StoreArtifact, MarkRunning, Ack, Fail, Crash
  <1> QED BY <1>1 DEF Next, Begin, Requeue, CancelDeployment, StopDeployment, RetryDeployment,
         InsertLine, InsertSegment, Purge

\* What ReadRows fetches.
LEMMA ReadRowsFacts ==
  ASSUME TypeOK, ReadRows
  PROVE  /\ stream'.page \in Pages(stream.last)
         /\ stream'.at = "status" /\ stream'.last = stream.last /\ client' = client
         /\ stream'.read = DOMAIN rows
         /\ ~ stream'.more => After(stream.last) = Range(stream'.page)
         /\ stream.last \in Nat
  <1>1. stream.last \in Nat
    BY NumberFacts DEF TypeOK
  <1>2. PICK p \in Pages(stream.last) :
          stream' = [at |-> "status", last |-> stream.last, page |-> p,
                     more |-> After(stream.last) # Range(p), read |-> DOMAIN rows]
    BY DEF ReadRows
  <1>3. PICK b : b = (After(stream.last) # Range(p))
    BY Zenon
  <1>4. stream' = [at |-> "status", last |-> stream.last, page |-> p, more |-> b, read |-> DOMAIN rows]
    BY <1>2, <1>3, Zenon
  <1>5. /\ stream'.page = p /\ stream'.more = b
        /\ stream'.at = "status" /\ stream'.last = stream.last /\ stream'.read = DOMAIN rows
    BY <1>4
  <1>6. ~ b => After(stream.last) = Range(p)
    BY <1>3, Zenon
  <1> QED BY <1>1, <1>5, <1>6 DEF ReadRows

\* The beginning of a page.
LEMMA Prefix ==
  ASSUME NEW s \in Seq(Number), Increasing(s), NEW n \in 0 .. Len(s)
  PROVE  /\ SubSeq(s, 1, n) \in Seq(Number)
         /\ Increasing(SubSeq(s, 1, n))
         /\ Range(SubSeq(s, 1, n)) \subseteq Range(s)
         /\ DOMAIN SubSeq(s, 1, n) = 1 .. n
         /\ \A i \in 1 .. n : SubSeq(s, 1, n)[i] = s[i]
         /\ \A i \in DOMAIN s : i <= n => s[i] \in Range(SubSeq(s, 1, n))
  <1> DEFINE p == SubSeq(s, 1, n)
  <1>1. p \in Seq(Number) /\ DOMAIN p = 1 .. n /\ (\A i \in 1 .. n : p[i] = s[i]) /\ n \in Nat
        /\ DOMAIN s = 1 .. Len(s) /\ Len(s) \in Nat /\ n <= Len(s)
    OBVIOUS
  <1> HIDE DEF p
  <1>2. Increasing(p)
    BY <1>1 DEF Increasing
  <1>3. Range(p) \subseteq Range(s)
    BY <1>1 DEF Range
  <1>4. \A i \in DOMAIN s : i <= n => s[i] \in Range(p)
    <2> SUFFICES ASSUME NEW i \in DOMAIN s, i <= n PROVE s[i] \in Range(p)
      OBVIOUS
    <2>1. i \in DOMAIN p /\ p[i] = s[i]
      BY <1>1
    <2> QED BY <2>1 DEF Range
  <1> QED BY <1>1, <1>2, <1>3, <1>4 DEF p

\* Each step of the stream keeps the order.
LEMMA OrderStep ==
  ASSUME TypeOK, OrderInv, Next
  PROVE  OrderInv'
  <1>0. stream.page \in Seq(Number) /\ client \in Seq(Number)
    BY DEF TypeOK
  <1>1. CASE ReadRows
    <2>1. /\ Range(stream'.page) \subseteq After(stream.last) /\ Increasing(stream'.page)
      BY <1>1, ReadRowsFacts, PageFacts DEF Increasing
    <2>2. \A x \in Range(stream'.page) : x > stream'.last
      BY <1>1, <2>1, ReadRowsFacts DEF After
    <2> QED BY <1>1, <2>1, <2>2, ReadRowsFacts DEF OrderInv
  <1>2. CASE SendPage
    <2>1. client' = client \o stream.page /\ stream'.page = <<>> /\ stream'.last = Passed
      BY <1>2 DEF SendPage
    <2>2. Increasing(client') /\ LastOr(client', 0) = LastOr(stream.page, LastOr(client, 0))
      BY <1>0, <2>1, JoinedIncreasing DEF OrderInv
    <2>3. stream'.last = LastOr(client', 0)
      BY <2>1, <2>2 DEF Passed, OrderInv
    <2>4. Increasing(stream'.page) /\ Range(stream'.page) = {}
      BY <2>1 DEF Increasing, Range
    <2> QED BY <2>1, <2>2, <2>3, <2>4 DEF OrderInv
  <1>3. ASSUME NEW n \in 0 .. Limit, Reconnect(n) PROVE OrderInv'
    <2>1. /\ client' = client \o SubSeq(stream.page, 1, n) /\ n \in 0 .. Len(stream.page)
          /\ stream'.page = <<>> /\ stream'.last = LastOr(client', 0)
      BY <1>3 DEF Reconnect, Received, Poll
    <2>2. Increasing(stream.page) /\ Increasing(client) /\ stream.last = LastOr(client, 0)
      BY DEF OrderInv
    <2>3. /\ SubSeq(stream.page, 1, n) \in Seq(Number) /\ Increasing(SubSeq(stream.page, 1, n))
          /\ Range(SubSeq(stream.page, 1, n)) \subseteq Range(stream.page)
      BY <1>0, <2>1, <2>2, Prefix
    <2>4. \A x \in Range(SubSeq(stream.page, 1, n)) : x > LastOr(client, 0)
      BY <2>2, <2>3 DEF OrderInv
    <2>5. Increasing(client')
      BY <1>0, <2>1, <2>2, <2>3, <2>4, JoinedIncreasing
    <2>6. Increasing(stream'.page) /\ Range(stream'.page) = {}
      BY <2>1 DEF Increasing, Range
    <2> QED BY <2>1, <2>5, <2>6 DEF OrderInv
  <1>4. ASSUME ReconnectById PROVE OrderInv'
    <2>1. client' = <<>> /\ stream'.page = <<>> /\ stream'.last = 0
      BY <1>4 DEF ReconnectById, Poll
    <2> QED BY <2>1 DEF OrderInv, Increasing, Range, LastOr
  <1>5. CASE UNCHANGED streamVars
    BY <1>5 DEF OrderInv, Increasing, streamVars
  <1> QED BY <1>1, <1>2, <1>3, <1>4, <1>5, StreamStep

\* StreamInOrder: over all pages and connections a client that comes back with its
\* last number gets no line twice and none out of order.
THEOREM StreamAlwaysInOrder == Spec => []StreamInOrder
  <1>1. Init => OrderInv
    BY DEF Init, Poll, OrderInv, Increasing, Range, LastOr
  <1>2. TypeOK /\ OrderInv /\ [Next]_vars => OrderInv'
    <2>1. ASSUME OrderInv, UNCHANGED vars PROVE OrderInv'
      BY <2>1 DEF OrderInv, Increasing, vars
    <2> QED BY <2>1, OrderStep
  <1>3. OrderInv => StreamInOrder
    BY DEF OrderInv, Increasing, StreamInOrder
  <1> QED BY <1>1, <1>2, <1>3, TypeCorrect, PTL DEF Spec

\* A row that the stream has passed was sent, is on the page, or came too late;
\* so are all the rows of a reading that nothing was cut off from.
SkipInv ==
  /\ \A n \in DOMAIN rows : n <= Passed => n \in Range(client) \cup Range(stream.page) \cup late
  /\ stream.at = "status" /\ ~ stream.more =>
       stream.read \subseteq Range(client) \cup Range(stream.page) \cup late
  /\ stream.at = "done" => stream.read \subseteq Range(client) \cup late

\* Whom the stream passes over when it continues after the last of a page.
LEMMA PassedFacts ==
  ASSUME TypeOK, OrderInv
  PROVE  /\ Passed \in Nat /\ stream.last \in Nat /\ stream.last <= Passed
         /\ stream.page = <<>> => Passed = stream.last
         /\ \A x \in Range(stream.page) : x \in Nat /\ x <= Passed
  <1>1. stream.page \in Seq(Number) /\ stream.last \in Number \cup {0}
    BY DEF TypeOK
  <1>2. \A x \in Number \cup {0} : x \in Nat
    BY NumberFacts
  <1>3. Passed \in Number \cup {0}
    BY <1>1, LastType DEF Passed
  <1>4. \A x \in Range(stream.page) : x \in Nat /\ x <= Passed
    BY <1>1, <1>2, LastIsLargest DEF Passed, OrderInv
  <1>5. stream.page = <<>> => Passed = stream.last
    BY DEF Passed, LastOr
  <1>6. stream.page # <<>> => Passed \in Range(stream.page)
    BY <1>1, LastType DEF Passed, Range
  <1>7. stream.last <= Passed
    <2>1. stream.last \in Nat /\ Passed \in Nat
      BY <1>1, <1>2, <1>3
    <2>2. CASE stream.page = <<>>
      BY <1>5, <2>1, <2>2
    <2>3. CASE stream.page # <<>>
      <3>1. Passed > stream.last
        BY <1>6, <2>3 DEF OrderInv
      <3> QED BY <2>1, <3>1
    <2> QED BY <2>2, <2>3
  <1> QED BY <1>1, <1>2, <1>3, <1>4, <1>5, <1>7

\* A reading passes over nothing it does not put on the page.
LEMMA ReadRowsSkips ==
  ASSUME TypeOK, OrderInv, SkipInv, ReadRows
  PROVE  SkipInv'
  <1>0. UNCHANGED <<rows, late, client>>
    BY DEF ReadRows, tableVars
  <1>1. PICK p : p = stream'.page
    OBVIOUS
  <1>2. /\ p \in Pages(stream.last) /\ stream.last \in Nat /\ stream'.last = stream.last
        /\ stream'.at = "status" /\ stream'.read = DOMAIN rows
        /\ ~ stream'.more => After(stream.last) = Range(p)
    BY <1>1, ReadRowsFacts
  <1>3. /\ p \in Seq(Number) /\ Range(p) \subseteq After(stream.last)
        /\ \A m \in After(stream.last) \ Range(p) : \A i \in DOMAIN p : p[i] < m
    BY <1>2, PageFacts
  <1>4. Passed' = LastOr(p, stream.last)
    BY <1>1, <1>2 DEF Passed
  <1>5. stream.page = <<>> /\ Passed = stream.last
    BY PassedFacts DEF OrderInv, ReadRows
  <1>6. Range(stream.page) = {}
    BY <1>5 DEF Range
  <1>7. DOMAIN rows \subseteq Nat
    BY NumberFacts DEF TypeOK
  <1>8. ASSUME NEW n \in DOMAIN rows, n <= Passed' PROVE n \in Range(client) \cup Range(p) \cup late
    <2>1. CASE n <= stream.last
      BY <1>5, <1>6, <2>1 DEF SkipInv
    <2>2. CASE ~ (n <= stream.last)
      <3>1. n \in After(stream.last) /\ n \in Nat
        BY <1>2, <1>7, <2>2 DEF After
      <3>2. p # <<>>
        BY <1>4, <1>8, <2>2 DEF LastOr
      <3>3. Len(p) \in DOMAIN p /\ n <= p[Len(p)]
        BY <1>2, <1>3, <1>4, <1>8, <3>2, LastType DEF LastOr
      <3>4. p[Len(p)] \in Nat
        BY <1>3, <1>7, <3>3 DEF Range, After
      <3>5. n \in Range(p)
        BY <1>3, <3>1, <3>3, <3>4
      <3> QED BY <3>5
    <2> QED BY <2>1, <2>2
  <1>9. ASSUME ~ stream'.more PROVE DOMAIN rows \subseteq Range(client) \cup Range(p) \cup late
    <2> SUFFICES ASSUME NEW n \in DOMAIN rows PROVE n \in Range(client) \cup Range(p) \cup late
      OBVIOUS
    <2>1. CASE n <= stream.last
      BY <1>5, <1>6, <2>1 DEF SkipInv
    <2>2. CASE ~ (n <= stream.last)
      BY <1>2, <1>7, <1>9, <2>2 DEF After
    <2> QED BY <2>1, <2>2
  <1> QED BY <1>0, <1>1, <1>2, <1>8, <1>9 DEF SkipInv

\* Sending the page passes over nothing.
LEMMA SendPageSkips ==
  ASSUME TypeOK, OrderInv, SkipInv, SendPage
  PROVE  SkipInv'
  <1>1. /\ UNCHANGED <<rows, late>> /\ client' = client \o stream.page /\ stream.at = "status"
        /\ stream'.page = <<>> /\ stream'.last = Passed /\ stream'.read = stream.read
        /\ stream'.at = IF Ends THEN "done" ELSE "rows"
    BY DEF SendPage, tableVars
  <1>2. Range(client') = Range(client) \cup Range(stream.page) /\ Range(stream'.page) = {}
    <2>1. Range(<<>>) = {}
      BY DEF Range
    <2> QED BY <1>1, <2>1, JoinedRange DEF TypeOK
  <1>3. Passed' = Passed
    BY <1>1 DEF Passed, LastOr
  <1>4. \A n \in DOMAIN rows' : n <= Passed' => n \in Range(client') \cup Range(stream'.page) \cup late'
    BY <1>1, <1>2, <1>3 DEF SkipInv
  <1>5. stream'.at = "done" => stream'.read \subseteq Range(client') \cup late'
    BY <1>1, <1>2 DEF SkipInv, Ends
  <1> QED BY <1>1, <1>4, <1>5 DEF SkipInv

\* A client that comes back with the last number it received misses nothing of
\* the page that was cut.
LEMMA ReconnectSkips ==
  ASSUME TypeOK, OrderInv, SkipInv, NEW n \in 0 .. Limit, Reconnect(n)
  PROVE  SkipInv'
  <1> DEFINE part == SubSeq(stream.page, 1, n)
  <1>1. /\ UNCHANGED <<rows, late>> /\ client' = client \o part /\ n \in 0 .. Len(stream.page)
        /\ stream'.page = <<>> /\ stream'.last = LastOr(client', 0) /\ stream'.at = "rows"
    BY DEF Reconnect, Received, tableVars, Poll
  <1>2. /\ stream.page \in Seq(Number) /\ client \in Seq(Number)
        /\ Increasing(stream.page) /\ Increasing(client) /\ stream.last = LastOr(client, 0)
    BY DEF OrderInv, TypeOK
  <1>3. /\ part \in Seq(Number) /\ Increasing(part) /\ Range(part) \subseteq Range(stream.page)
        /\ DOMAIN part = 1 .. n /\ \A i \in 1 .. n : part[i] = stream.page[i]
        /\ \A i \in DOMAIN stream.page : i <= n => stream.page[i] \in Range(part)
    BY <1>1, <1>2, Prefix
  <1> HIDE DEF part
  <1>4. \A x \in Range(part) : x > LastOr(client, 0)
    BY <1>2, <1>3 DEF OrderInv
  <1>5. LastOr(client', 0) = LastOr(part, stream.last)
    BY <1>1, <1>2, <1>3, <1>4, JoinedIncreasing
  <1>6. Passed' = LastOr(part, stream.last)
    BY <1>1, <1>5 DEF Passed, LastOr
  <1>7. Range(client') = Range(client) \cup Range(part)
    BY <1>1, <1>2, <1>3, JoinedRange
  <1>8. stream.last \in Nat /\ Passed \in Nat /\ stream.last <= Passed
        /\ \A x \in Range(stream.page) : x \in Nat /\ x <= Passed
    BY PassedFacts
  <1>9. part = <<>> => Passed' = stream.last
    BY <1>6 DEF LastOr
  <1>10. part # <<>> => n \in DOMAIN stream.page /\ Passed' = stream.page[n]
    <2>1. ASSUME part # <<>> PROVE Len(part) = n /\ n \in 1 .. n /\ LastOr(part, stream.last) = part[n]
      BY <1>1, <1>3, <2>1 DEF LastOr
    <2> QED BY <1>1, <1>2, <1>3, <1>6, <2>1
  <1>11. Passed' \in Nat /\ Passed' <= Passed
    <2>1. CASE part = <<>>
      BY <1>8, <1>9, <2>1
    <2>2. CASE part # <<>>
      BY <1>8, <1>10, <2>2 DEF Range
    <2> QED BY <2>1, <2>2
  <1>12. ASSUME NEW m \in DOMAIN rows, m <= Passed' PROVE m \in Range(client') \cup late
    <2>1. m \in Nat
      BY NumberFacts DEF TypeOK
    <2>2. m \in Range(client) \cup Range(stream.page) \cup late
      BY <1>8, <1>11, <1>12, <2>1 DEF SkipInv
    <2>3. ASSUME m \in Range(stream.page) PROVE m \in Range(part)
      <3>1. PICK i \in DOMAIN stream.page : m = stream.page[i]
        BY <2>3 DEF Range
      <3>2. m > stream.last
        BY <2>3 DEF OrderInv
      <3>3. part # <<>>
        BY <1>8, <1>9, <1>12, <2>1, <3>2
      <3>4. n \in DOMAIN stream.page /\ m <= stream.page[n] /\ stream.page[n] \in Nat
        BY <1>10, <1>11, <1>12, <3>3
      <3>5. i \in Nat /\ n \in Nat /\ (n < i => stream.page[n] < m)
        BY <1>2, <3>1, <3>4 DEF Increasing
      <3>6. i <= n
        BY <2>1, <3>4, <3>5
      <3> QED BY <1>3, <3>1, <3>6
    <2> QED BY <1>7, <2>2, <2>3
  <1> QED BY <1>1, <1>12 DEF SkipInv

\* A client that starts over has passed nothing.
LEMMA ReconnectByIdSkips ==
  ASSUME TypeOK, ReconnectById
  PROVE  SkipInv'
  <1>1. stream'.page = <<>> /\ stream'.last = 0 /\ stream'.at = "rows" /\ UNCHANGED rows
    BY DEF ReconnectById, Poll, tableVars
  <1>2. Passed' = 0
    BY <1>1 DEF Passed, LastOr
  <1>3. \A m \in DOMAIN rows : ~ (m <= 0)
    BY NumberFacts DEF TypeOK
  <1> QED BY <1>1, <1>2, <1>3 DEF SkipInv

\* The tables change under the stream only by purges and by rows that are
\* counted late when it has passed them.
LEMMA TablesSkip ==
  ASSUME TypeOK, SkipInv, Next, UNCHANGED streamVars
  PROVE  SkipInv'
  <1>1. UNCHANGED <<stream, client, Passed>>
    BY DEF streamVars, Passed
  <1>2. ASSUME UNCHANGED <<rows, late>> PROVE SkipInv'
    BY <1>1, <1>2 DEF SkipInv
  <1>3. ASSUME NEW i \in inserts, InsertLine(i) PROVE SkipInv'
    <2>1. CASE UNCHANGED <<rows, late>>
      BY <1>2, <2>1
    <2>2. CASE /\ rows' = With(rows, i.line, i.attempt)
               /\ late' = IF i.line <= Passed THEN late \cup {i.line} ELSE late
      <3>1. late \subseteq late' /\ DOMAIN rows' = DOMAIN rows \cup {i.line}
        BY <2>2 DEF With
      <3>2. i.line <= Passed => i.line \in late'
        BY <2>2
      <3> QED BY <1>1, <3>1, <3>2 DEF SkipInv
    <2> QED BY <1>3, <2>1, <2>2 DEF InsertLine
  <1>4. ASSUME NEW a \in Attempt, NEW n \in Number, Purge(a, n) PROVE SkipInv'
    <2>1. DOMAIN rows' \subseteq DOMAIN rows /\ late' = late
      BY <1>4 DEF Purge
    <2> QED BY <1>1, <2>1 DEF SkipInv
  <1>5. \/ UNCHANGED <<rows, late>>
        \/ \E i \in inserts : InsertLine(i)
        \/ \E a \in Attempt, n \in Number : Purge(a, n)
    <2>1. \A a \in Attempt : Worker(a) => UNCHANGED <<rows, late>>
      BY DEF Worker, WriteLine, BuildEnds, FlushSink, StoreArtifact, MarkRunning, Ack, Fail, Crash,
         tableVars
    <2> QED BY <2>1 DEF Next, Begin, Requeue, CancelDeployment, StopDeployment, RetryDeployment,
           InsertSegment, ReadRows, SendPage, Reconnect, ReconnectById, tableVars
  <1> QED BY <1>2, <1>3, <1>4, <1>5

\* StreamSkipsOnlyLate: what the stream leaves out came behind it, also over a
\* broken connection, and a stream that ended has sent its last reading.
THEOREM StreamAlwaysSkipsOnlyLate == Spec => []StreamSkipsOnlyLate
  <1> DEFINE Inv == OrderInv /\ SkipInv
  <1>1. Init => Inv
    BY DEF Init, Poll, OrderInv, SkipInv, Increasing, Range, LastOr
  <1>2. TypeOK /\ Inv /\ [Next]_vars => Inv'
    <2>1. ASSUME TypeOK, Inv, Next PROVE Inv'
      BY <2>1, OrderStep, StreamStep, ReadRowsSkips, SendPageSkips, ReconnectSkips, ReconnectByIdSkips,
         TablesSkip
    <2>2. ASSUME Inv, UNCHANGED vars PROVE Inv'
      BY <2>2 DEF OrderInv, SkipInv, Increasing, Passed, vars
    <2> QED BY <2>1, <2>2
  <1>3. TypeOK /\ Inv => StreamSkipsOnlyLate
    <2> SUFFICES ASSUME TypeOK, OrderInv, SkipInv PROVE StreamSkipsOnlyLate
      OBVIOUS
    <2>1. DOMAIN rows \subseteq Nat
      BY NumberFacts DEF TypeOK
    <2>2. ASSUME NEW n \in DOMAIN rows, n <= stream.last PROVE n \in Range(client) \cup late
      <3>1. n <= Passed /\ n \in Nat /\ stream.last \in Nat
        BY <2>1, <2>2, PassedFacts
      <3>2. n \notin Range(stream.page)
        BY <2>2, <3>1 DEF OrderInv
      <3> QED BY <3>1, <3>2 DEF SkipInv
    <2> QED BY <2>2 DEF StreamSkipsOnlyLate, SkipInv
  <1> QED BY <1>1, <1>2, <1>3, TypeCorrect, PTL DEF Spec

---------------------------------------------------------------------------
(* The stored log                                                          *)

\* The worker of a has not failed, died or gone.
AtWork(a) == sink[a].at \in {"building", "flushing", "waiting", "stored", "dropped", "built"}

\* The places after wait_all.
Waited(a) == sink[a].at \in {"stored", "dropped", "built"}

\* Each line of an attempt at work has its row, waits for it, or lost it.
LinesKept ==
  \A a \in Attempt : AtWork(a) =>
    \A n \in 1 .. sink[a].sequence :
      \/ n \in lost \cup DOMAIN rows
      \/ [attempt |-> a, line |-> n] \in inserts

\* Without trouble its segments cover its lines up to the buffer, and the buffer
\* is empty once it was flushed.
SegmentsKept ==
  trouble = 0 => \A a \in Attempt : AtWork(a) =>
    /\ UNION Ranges({s \in segInserts \cup segments : s.attempt = a}) = 1 .. sink[a].start - 1
    /\ ~ (At(a, "building") \/ At(a, "flushing")) => sink[a].start = sink[a].sequence + 1

\* After wait_all there is no line to insert, and without trouble no segment.
WorkDone ==
  \A a \in Attempt : Waited(a) =>
    /\ \A i \in inserts : i.attempt # a
    /\ trouble = 0 => \A s \in segInserts : s.attempt # a

\* Steps of a worker that write nothing: its sink keeps its numbers and its tasks,
\* and it comes to work, or past wait_all, only from work.
Quiet(a) ==
  /\ UNCHANGED <<rows, lost, inserts, segInserts, segments>>
  /\ sink'[a].sequence = sink[a].sequence /\ sink'[a].start = sink[a].start
  /\ \A b \in Attempt \ {a} : sink'[b] = sink[b]
  /\ Trouble \/ UNCHANGED trouble
  /\ AtWork(a)' => AtWork(a)
  /\ Waited(a)' => Waited(a) \/ TasksDone(a)
  /\ At(a, "building")' \/ At(a, "flushing")' => At(a, "building") \/ At(a, "flushing")
  /\ AtWork(a)' /\ ~ (At(a, "building")' \/ At(a, "flushing")') => ~ (At(a, "building") \/ At(a, "flushing"))

\* The steps of a worker, for its tasks.
LEMMA WorkerTasks ==
  ASSUME TypeOK, NEW a \in Attempt, Worker(a)
  PROVE  WriteLine(a) \/ FlushSink(a) \/ Crash(a) \/ Quiet(a)
  <1>1. ASSUME NEW p, NEW q, Goto(a, p), sink[a].at = q,
               UNCHANGED <<rows, lost, inserts, segInserts, segments>>, Trouble \/ UNCHANGED trouble,
               \/ q = "building" /\ p \in {"flushing", "failing"}
               \/ q = "waiting" /\ TasksDone(a) /\ p \in {"stored", "failing"}
               \/ q = "dropped" /\ p = "built"
               \/ q = "built" /\ p = "gone"
               \/ q = "failed" /\ p = "gone"
        PROVE  Quiet(a)
    <2>1. sink' = [sink EXCEPT ![a] = Sink(p, sink[a].sequence, sink[a].start)]
      BY <1>1, Moved
    <2>2. PICK m, s : m = sink[a].sequence /\ s = sink[a].start
      OBVIOUS
    <2>3. /\ sink'[a].at = p /\ sink'[a].sequence = m /\ sink'[a].start = s
          /\ \A b \in Attempt \ {a} : sink'[b] = sink[b]
      BY <2>1, <2>2, NewSink
    <2> QED BY <1>1, <2>2, <2>3 DEF Quiet, AtWork, Waited, At
  <1>2. CASE BuildEnds(a)
    <2>1. PICK p \in {"flushing", "failing"} : Goto(a, p)
      BY <1>2 DEF BuildEnds
    <2> QED BY <1>1, <1>2, <2>1 DEF BuildEnds, At, tableVars
  <1>3. CASE StoreArtifact(a)
    <2>1. PICK p \in {"stored", "failing"} : Goto(a, p)
      BY <1>3 DEF StoreArtifact
    <2> QED BY <1>1, <1>3, <2>1 DEF StoreArtifact, At, tableVars
  <1>4. CASE MarkRunning(a)
    BY <1>1, <1>4 DEF MarkRunning, SetStatus, At, tableVars
  <1>5. CASE Ack(a)
    BY <1>1, <1>5 DEF Ack, At, tableVars
  <1>6. CASE Fail(a)
    BY <1>1, <1>6 DEF Fail, SetStatus, At, tableVars
  <1> QED BY <1>2, <1>3, <1>4, <1>5, <1>6 DEF Worker

\* Where write_line and flush take the worker.
LEMMA WriterMoves ==
  ASSUME TypeOK, NEW a \in Attempt
  PROVE  /\ WriteLine(a) => /\ sink[a].at = "building" /\ sink'[a].at \in {"building", "failing"}
                            /\ sink'[a].sequence = sink[a].sequence + 1
                            /\ UNCHANGED <<rows, lost>>
                            /\ inserts' = inserts \cup {[attempt |-> a, line |-> sink[a].sequence + 1]}
         /\ FlushSink(a) => /\ sink'[a].sequence = sink[a].sequence
                            /\ UNCHANGED <<rows, lost, inserts>>
                            /\ \/ sink[a].at = "flushing" /\ sink'[a].at = "waiting"
                               \/ sink[a].at = "stored" /\ sink'[a].at = "dropped"
                               \/ sink[a].at = "failing" /\ sink'[a].at = "failed"
                            /\ \/ Trouble
                               \/ UNCHANGED trouble /\ sink'[a].start = sink[a].sequence + 1
  <1>1. ASSUME WriteLine(a)
        PROVE  /\ sink'[a].at \in {"building", "failing"} /\ sink'[a].sequence = sink[a].sequence + 1
    <2>1. PICK n : n = sink[a].sequence + 1
      OBVIOUS
    <2>2. PICK p, s : p \in {"building", "failing"} /\ sink' = [sink EXCEPT ![a] = Sink(p, n, s)]
      BY <1>1, <2>1 DEF WriteLine, Rotated, Kept
    <2>3. /\ sink'[a].at = p /\ sink'[a].sequence = n /\ sink'[a].start = s
          /\ \A b \in Attempt \ {a} : sink'[b] = sink[b]
      BY <2>2, NewSink
    <2> QED BY <2>1, <2>2, <2>3
  <1>2. ASSUME FlushSink(a)
        PROVE  /\ sink'[a].sequence = sink[a].sequence
               /\ \/ sink[a].at = "flushing" /\ sink'[a].at = "waiting"
                  \/ sink[a].at = "stored" /\ sink'[a].at = "dropped"
                  \/ sink[a].at = "failing" /\ sink'[a].at = "failed"
               /\ \/ Trouble
                  \/ UNCHANGED trouble /\ sink'[a].start = sink[a].sequence + 1
    <2>1. PICK n, p : n = sink[a].sequence /\ p = AfterFlush[sink[a].at]
      OBVIOUS
    <2>2. \/ sink[a].at = "flushing" /\ p = "waiting"
          \/ sink[a].at = "stored" /\ p = "dropped"
          \/ sink[a].at = "failing" /\ p = "failed"
      BY <1>2, <2>1 DEF FlushSink, AfterFlush
    <2>3. PICK s : /\ sink' = [sink EXCEPT ![a] = Sink(p, n, s)]
                   /\ \/ Trouble
                      \/ UNCHANGED trouble /\ s = n + 1
                      \/ UNCHANGED trouble /\ s = sink[a].start /\ sink[a].start > n
      BY <1>2, <2>1 DEF FlushSink, Rotated, AfterRotation, Kept
    <2>4. /\ sink'[a].at = p /\ sink'[a].sequence = n /\ sink'[a].start = s
          /\ \A b \in Attempt \ {a} : sink'[b] = sink[b]
      BY <2>3, NewSink
    <2>5. s = sink[a].start /\ sink[a].start > n => s = n + 1
      BY <2>1, SinkNumbers
    <2> QED BY <2>1, <2>2, <2>3, <2>4, <2>5
  <1>3. WriteLine(a) => /\ sink[a].at = "building" /\ UNCHANGED <<rows, lost>>
                        /\ inserts' = inserts \cup {[attempt |-> a, line |-> sink[a].sequence + 1]}
    BY DEF WriteLine, At
  <1>4. FlushSink(a) => UNCHANGED <<rows, lost, inserts>>
    BY DEF FlushSink
  <1> QED BY <1>1, <1>2, <1>3, <1>4

\* The death of a worker takes its own tasks only.
LEMMA CrashFacts ==
  ASSUME TypeOK, NEW a \in Attempt, Crash(a)
  PROVE  /\ UNCHANGED <<rows, lost, segments>> /\ Trouble
         /\ ~ AtWork(a)' /\ ~ Waited(a)' /\ \A b \in Attempt \ {a} : sink'[b] = sink[b]
         /\ inserts' = {i \in inserts : i.attempt # a}
  <1>1. sink' = [sink EXCEPT ![a] = Sink("dead", sink[a].sequence, sink[a].start)]
    BY Moved DEF Crash
  <1>2. PICK m, s : m = sink[a].sequence /\ s = sink[a].start
    OBVIOUS
  <1>3. /\ sink'[a].at = "dead" /\ sink'[a].sequence = m /\ sink'[a].start = s
        /\ \A b \in Attempt \ {a} : sink'[b] = sink[b]
    BY <1>1, <1>2, NewSink
  <1> QED BY <1>3 DEF Crash, AtWork, Waited

\* The tables and requests leave the sinks alone; rows are inserted, refused or lost.
LEMMA OtherTasks ==
  ASSUME TypeOK, Next
  PROVE  \/ Begin
         \/ \E a \in Attempt : Worker(a)
         \/ \E i \in inserts : InsertLine(i)
         \/ \E s \in segInserts : InsertSegment(s)
         \/ \E a \in Attempt, n \in Number : Purge(a, n)
         \/ UNCHANGED <<sink, rows, lost, inserts, segInserts, segments>> /\ (Trouble \/ UNCHANGED trouble)
  BY DEF Next, Requeue, CancelDeployment, StopDeployment, RetryDeployment, ReadRows, SendPage,
     Reconnect, ReconnectById, queueVars, tableVars

\* Each step keeps every line of the attempts at work accounted for.
LEMMA LinesStep ==
  ASSUME TypeOK, LinesKept, Next
  PROVE  LinesKept'
  <1>1. CASE Begin
    <2>1. PICK c \in Attempt :
            /\ sink'[c].at = "building" /\ sink'[c].sequence = 0 /\ sink'[c].start = 1
            /\ \A b \in Attempt \ {c} : sink'[b] = sink[b]
            /\ UNCHANGED tableVars
      BY <1>1, BeginFacts
    <2> QED BY <2>1 DEF LinesKept, AtWork, tableVars
  <1>2. ASSUME NEW a \in Attempt, WriteLine(a) PROVE LinesKept'
    <2>1. PICK n : n = sink[a].sequence
      OBVIOUS
    <2>2. /\ sink[a].at = "building" /\ sink'[a].sequence = n + 1 /\ UNCHANGED <<rows, lost>>
          /\ inserts' = inserts \cup {[attempt |-> a, line |-> n + 1]}
          /\ \A b \in Attempt \ {a} : sink'[b] = sink[b]
          /\ n \in Nat
      BY <1>2, <2>1, WriterMoves, SinkWrites, SinkNumbers
    <2>3. \A m \in 1 .. n + 1 : m \in 1 .. n \/ m = n + 1
      BY <2>2
    <2>4. AtWork(a)
      BY <2>2 DEF AtWork
    <2> QED BY <2>1, <2>2, <2>3, <2>4 DEF LinesKept, AtWork
  <1>3. ASSUME NEW a \in Attempt, FlushSink(a) PROVE LinesKept'
    <2>1. /\ sink'[a].sequence = sink[a].sequence /\ UNCHANGED <<rows, lost, inserts>>
          /\ \A b \in Attempt \ {a} : sink'[b] = sink[b]
          /\ AtWork(a)' => AtWork(a)
      BY <1>3, WriterMoves, SinkWrites DEF AtWork
    <2> QED BY <2>1 DEF LinesKept, AtWork
  <1>4. ASSUME NEW a \in Attempt, Crash(a) PROVE LinesKept'
    <2>1. \A b, n : b # a => [attempt |-> b, line |-> n].attempt # a
      OBVIOUS
    <2> QED BY <1>4, <2>1, CrashFacts DEF LinesKept, AtWork
  <1>5. ASSUME NEW a \in Attempt, Quiet(a) PROVE LinesKept'
    BY <1>5 DEF Quiet, LinesKept, AtWork
  <1>6. ASSUME NEW i \in inserts, InsertLine(i) PROVE LinesKept'
    <2>1. /\ UNCHANGED sink /\ inserts' = inserts \ {i}
          /\ lost \cup DOMAIN rows \subseteq lost' \cup DOMAIN rows'
          /\ i.line \in lost' \cup DOMAIN rows'
      BY <1>6 DEF InsertLine, With
    <2>2. \A a, n : i = [attempt |-> a, line |-> n] => i.line = n
      OBVIOUS
    <2> QED BY <2>1, <2>2 DEF LinesKept, AtWork
  <1>7. ASSUME NEW a \in Attempt, NEW n \in Number, Purge(a, n) PROVE LinesKept'
    <2>1. /\ UNCHANGED <<sink, inserts>>
          /\ lost \cup DOMAIN rows \subseteq lost' \cup DOMAIN rows'
      BY <1>7 DEF Purge
    <2> QED BY <2>1 DEF LinesKept, AtWork
  <1>8. ASSUME UNCHANGED <<sink, rows, lost, inserts>> PROVE LinesKept'
    BY <1>8 DEF LinesKept, AtWork
  <1>9. \A s \in segInserts : InsertSegment(s) => LinesKept'
    BY <1>8 DEF InsertSegment
  <1> QED BY <1>1, <1>2, <1>3, <1>4, <1>5, <1>6, <1>7, <1>8, <1>9, OtherTasks, WorkerTasks

\* A rotation adds the buffer's lines to those its segments cover.
LEMMA RotateCovers ==
  ASSUME TypeOK, NEW a \in Attempt, NEW n \in Nat, sink[a].start <= n, Rotate(a, n),
         segments' = segments, sink'[a].start = n + 1,
         UNION Ranges({s \in segInserts \cup segments : s.attempt = a}) = 1 .. sink[a].start - 1
  PROVE  UNION Ranges({s \in segInserts' \cup segments' : s.attempt = a}) = 1 .. sink'[a].start - 1
  <1>0. PICK first : first = sink[a].start
    OBVIOUS
  <1> DEFINE own == {s \in segInserts \cup segments : s.attempt = a}
             new == [attempt |-> a, first |-> first, last |-> n]
  <1>1. {s \in segInserts' \cup segments' : s.attempt = a} = own \cup {new}
    BY <1>0 DEF Rotate
  <1>2. UNION Ranges(own \cup {new}) = (UNION Ranges(own)) \cup (first .. n)
    <2>1. new.first = first /\ new.last = n
      OBVIOUS
    <2> HIDE DEF own, new
    <2> QED BY <2>1 DEF Ranges
  <1>3. (1 .. first - 1) \cup (first .. n) = 1 .. n
    BY <1>0, SinkNumbers
  <1>4. sink'[a].start - 1 = n
    OBVIOUS
  <1> QED BY <1>0, <1>1, <1>2, <1>3, <1>4

\* Each step keeps the lines before the buffers in segments.
LEMMA SegmentsStep ==
  ASSUME TypeOK, SegmentsKept, Next
  PROVE  SegmentsKept'
  <1>1. trouble \in Nat /\ (Trouble => trouble' # 0)
    BY LogStreamAssumption DEF TypeOK, Trouble
  <1>2. ASSUME Trouble PROVE SegmentsKept'
    BY <1>1, <1>2 DEF SegmentsKept
  <1>3. ASSUME UNCHANGED <<sink, segInserts, segments, trouble>> PROVE SegmentsKept'
    BY <1>3 DEF SegmentsKept, AtWork, At
  <1>4. CASE Begin
    <2>1. PICK c \in Attempt :
            /\ c = attempt + 1
            /\ sink'[c].at = "building" /\ sink'[c].sequence = 0 /\ sink'[c].start = 1
            /\ \A b \in Attempt \ {c} : sink'[b] = sink[b]
            /\ UNCHANGED tableVars
      BY <1>4, BeginFacts
    <2>2. {s \in segInserts \cup segments : s.attempt = c} = {}
      <3>1. \A s \in segInserts \cup segments : s.attempt \in 1 .. attempt
        BY DEF TypeOK
      <3> QED BY <2>1, <3>1 DEF TypeOK
    <2>3. UNION Ranges({}) = {}
      BY DEF Ranges
    <2>4. UNION Ranges({s \in segInserts \cup segments : s.attempt = c}) = 1 .. sink'[c].start - 1
      BY <2>1, <2>2, <2>3
    <2>5. CASE Trouble
      BY <1>2, <2>5
    <2>6. CASE UNCHANGED trouble
      BY <2>1, <2>4, <2>6 DEF SegmentsKept, AtWork, At, tableVars
    <2> QED BY <1>4, <2>5, <2>6 DEF Begin, SetStatus
  <1>5. ASSUME NEW a \in Attempt, WriteLine(a) \/ FlushSink(a) PROVE SegmentsKept'
    <2>0. PICK n : n = sink'[a].sequence
      OBVIOUS
    <2>1. /\ UNCHANGED segments /\ (Trouble \/ UNCHANGED trouble)
          /\ \A b \in Attempt \ {a} : sink'[b] = sink[b]
          /\ n \in Nat
          /\ \/ Rotate(a, n) /\ sink'[a].start = n + 1 /\ sink[a].start <= n
             \/ sink'[a].start = sink[a].start /\ UNCHANGED <<files, segInserts>>
      BY <1>5, <2>0, SinkWrites
    <2> SUFFICES ASSUME UNCHANGED trouble, trouble = 0 PROVE SegmentsKept'
      BY <1>2, <2>1 DEF SegmentsKept
    <2>2. ASSUME NEW b \in Attempt, b # a, AtWork(b)'
          PROVE  /\ UNION Ranges({s \in segInserts' \cup segments' : s.attempt = b}) = 1 .. sink'[b].start - 1
                 /\ ~ (At(b, "building")' \/ At(b, "flushing")') => sink'[b].start = sink'[b].sequence + 1
      <3>1. {s \in segInserts' \cup segments' : s.attempt = b} = {s \in segInserts \cup segments : s.attempt = b}
        BY <2>1, <2>2 DEF Rotate
      <3>2. sink'[b] = sink[b] /\ AtWork(b)
        BY <2>1, <2>2 DEF AtWork
      <3> QED BY <3>1, <3>2 DEF SegmentsKept, At
    <2>3. ASSUME AtWork(a)'
          PROVE  UNION Ranges({s \in segInserts' \cup segments' : s.attempt = a}) = 1 .. sink'[a].start - 1
      <3>1. AtWork(a)
        BY <1>5, <2>3, WriterMoves DEF AtWork
      <3>2. UNION Ranges({s \in segInserts \cup segments : s.attempt = a}) = 1 .. sink[a].start - 1
        BY <3>1 DEF SegmentsKept
      <3>3. CASE Rotate(a, n) /\ sink'[a].start = n + 1 /\ sink[a].start <= n
        BY <2>1, <3>2, <3>3, RotateCovers
      <3>4. CASE sink'[a].start = sink[a].start /\ UNCHANGED <<files, segInserts>>
        BY <2>1, <3>2, <3>4
      <3> QED BY <2>1, <3>3, <3>4
    <2>4. ASSUME AtWork(a)', ~ (At(a, "building")' \/ At(a, "flushing")')
          PROVE  sink'[a].start = sink'[a].sequence + 1
      <3>1. FlushSink(a)
        BY <1>5, <2>4, WriterMoves DEF AtWork, At
      <3>2. ~ Trouble
        BY <1>1
      <3> QED BY <3>1, <3>2, WriterMoves
    <2> QED BY <2>2, <2>3, <2>4 DEF SegmentsKept
  <1>6. ASSUME NEW a \in Attempt, Crash(a) PROVE SegmentsKept'
    BY <1>2, <1>6 DEF Crash
  <1>7. ASSUME NEW a \in Attempt, Quiet(a) PROVE SegmentsKept'
    <2> SUFFICES ASSUME UNCHANGED trouble PROVE SegmentsKept'
      BY <1>2, <1>7 DEF Quiet
    <2> QED BY <1>7 DEF SegmentsKept, Quiet, AtWork, At
  <1>8. ASSUME NEW s \in segInserts, InsertSegment(s) PROVE SegmentsKept'
    <2>1. CASE Trouble
      BY <1>2, <2>1
    <2>2. CASE segments' = segments \cup {s} /\ UNCHANGED trouble
      <3>1. segInserts' \cup segments' = segInserts \cup segments /\ UNCHANGED sink
        BY <1>8, <2>2 DEF InsertSegment
      <3> QED BY <2>2, <3>1 DEF SegmentsKept, AtWork, At
    <2> QED BY <1>8, <2>1, <2>2 DEF InsertSegment
  <1>9. \A i \in inserts : InsertLine(i) => SegmentsKept'
    BY <1>2, <1>3 DEF InsertLine
  <1>10. \A a \in Attempt, n \in Number : Purge(a, n) => SegmentsKept'
    BY <1>2 DEF Purge
  <1> QED BY <1>2, <1>3, <1>4, <1>5, <1>6, <1>7, <1>8, <1>9, <1>10, OtherTasks, WorkerTasks

\* No line is left to insert after wait_all, nor without trouble a segment.
LEMMA DoneStep ==
  ASSUME TypeOK, SegmentsKept, WorkDone, Next
  PROVE  WorkDone'
  <1>1. trouble \in Nat /\ (Trouble => trouble' # 0)
    BY LogStreamAssumption DEF TypeOK, Trouble
  <1>2. ASSUME \A b \in Attempt : Waited(b)' => Waited(b), inserts' \subseteq inserts,
               segInserts' \subseteq segInserts, Trouble \/ UNCHANGED trouble
        PROVE  WorkDone'
    BY <1>1, <1>2 DEF WorkDone
  <1>3. CASE Begin
    <2>1. PICK c \in Attempt :
            /\ sink'[c].at = "building" /\ sink'[c].sequence = 0 /\ sink'[c].start = 1
            /\ \A b \in Attempt \ {c} : sink'[b] = sink[b]
            /\ UNCHANGED tableVars
      BY <1>3, BeginFacts
    <2>2. \A b \in Attempt : Waited(b)' => Waited(b)
      BY <2>1 DEF Waited
    <2> QED BY <1>2, <1>3, <2>1, <2>2 DEF Begin, SetStatus, tableVars
  <1>4. ASSUME NEW a \in Attempt, WriteLine(a) PROVE WorkDone'
    <2>1. /\ sink'[a].at \in {"building", "failing"}
          /\ inserts' = inserts \cup {[attempt |-> a, line |-> sink[a].sequence + 1]}
          /\ \A b \in Attempt \ {a} : sink'[b] = sink[b]
          /\ Trouble \/ UNCHANGED trouble
      BY <1>4, WriterMoves, SinkWrites
    <2>2. \A s \in segInserts' \ segInserts : s.attempt = a
      BY <1>4 DEF WriteLine, Rotated, Rotate, Kept
    <2>3. ~ Waited(a)'
      BY <2>1 DEF Waited
    <2>4. ASSUME NEW b \in Attempt, Waited(b)' PROVE b # a /\ Waited(b)
      BY <2>1, <2>3, <2>4 DEF Waited
    <2> QED BY <1>1, <2>1, <2>2, <2>4 DEF WorkDone
  <1>5. ASSUME NEW a \in Attempt, FlushSink(a) PROVE WorkDone'
    <2>1. /\ UNCHANGED inserts /\ (Trouble \/ UNCHANGED trouble)
          /\ \A b \in Attempt \ {a} : sink'[b] = sink[b]
          /\ Waited(a)' => sink[a].at = "stored"
      BY <1>5, WriterMoves, SinkWrites DEF Waited
    <2>2. \A s \in segInserts' \ segInserts : s.attempt = a
      BY <1>5 DEF FlushSink, Rotated, Rotate, Kept
    <2>3. \A b \in Attempt : Waited(b)' => Waited(b)
      BY <2>1 DEF Waited
    <2>4. trouble = 0 /\ Waited(a)' => UNCHANGED segInserts
      <3> SUFFICES ASSUME trouble = 0, Waited(a)' PROVE UNCHANGED segInserts
        OBVIOUS
      <3>1. sink[a].start = sink[a].sequence + 1
        BY <2>1 DEF SegmentsKept, AtWork, At
      <3>2. sink[a].start > sink[a].sequence
        BY <3>1, SinkNumbers
      <3> QED BY <1>5, <3>2 DEF FlushSink, Kept
    <2>5. ASSUME NEW b \in Attempt, Waited(b)', trouble' = 0, NEW s \in segInserts' PROVE s.attempt # b
      <3>1. trouble = 0 /\ Waited(b)
        BY <1>1, <2>1, <2>3, <2>5
      <3>2. CASE b = a
        BY <2>4, <2>5, <3>1, <3>2 DEF WorkDone
      <3>3. CASE b # a
        BY <2>2, <3>1, <3>3 DEF WorkDone
      <3> QED BY <3>2, <3>3
    <2> QED BY <2>1, <2>3, <2>5 DEF WorkDone
  <1>6. ASSUME NEW a \in Attempt, Crash(a) PROVE WorkDone'
    <2>1. \A b \in Attempt : Waited(b)' => Waited(b)
      BY <1>6, CrashFacts DEF Waited
    <2>2. inserts' \subseteq inserts /\ segInserts' \subseteq segInserts /\ Trouble
      BY <1>6 DEF Crash
    <2> QED BY <1>2, <2>1, <2>2
  <1>7. ASSUME NEW a \in Attempt, Quiet(a) PROVE WorkDone'
    <2>1. /\ UNCHANGED <<inserts, segInserts>> /\ (Trouble \/ UNCHANGED trouble)
          /\ \A b \in Attempt \ {a} : sink'[b] = sink[b]
          /\ Waited(a)' => Waited(a) \/ TasksDone(a)
      BY <1>7 DEF Quiet
    <2>2. \A b \in Attempt : Waited(b)' => Waited(b) \/ TasksDone(b)
      BY <2>1 DEF Waited
    <2> QED BY <1>1, <2>1, <2>2 DEF WorkDone, TasksDone
  <1>8. ASSUME UNCHANGED sink, inserts' \subseteq inserts, segInserts' \subseteq segInserts,
               Trouble \/ UNCHANGED trouble
        PROVE  WorkDone'
    <2>1. \A b \in Attempt : Waited(b)' => Waited(b)
      BY <1>8 DEF Waited
    <2> QED BY <1>2, <1>8, <2>1
  <1>9. \A i \in inserts : InsertLine(i) => WorkDone'
    BY <1>8 DEF InsertLine
  <1>10. \A s \in segInserts : InsertSegment(s) => WorkDone'
    BY <1>8 DEF InsertSegment
  <1>11. \A a \in Attempt, n \in Number : Purge(a, n) => WorkDone'
    BY <1>8 DEF Purge
  <1> QED BY <1>3, <1>4, <1>5, <1>6, <1>7, <1>8, <1>9, <1>10, <1>11, OtherTasks, WorkerTasks

\* BuiltLogStored: the status of a deployment says it runs only when each line
\* of its attempt has its row, or lost it, and its segments cover the lines; also
\* for a worker that has lost its lease.
THEOREM BuiltLogAlwaysStored == Spec => []BuiltLogStored
  <1> DEFINE Inv == LinesKept /\ SegmentsKept /\ WorkDone
  <1>1. Init => Inv
    <2> SUFFICES ASSUME Init PROVE Inv
      OBVIOUS
    <2>1. \A a \in Attempt : sink[a] = Sink("none", 0, 1)
      BY DEF Init
    <2>2. \A a \in Attempt : sink[a].at = "none"
      BY <2>1 DEF Sink
    <2> QED BY <2>2 DEF LinesKept, SegmentsKept, WorkDone, AtWork, Waited
  <1>2. TypeOK /\ Inv /\ [Next]_vars => Inv'
    <2>1. ASSUME Inv, UNCHANGED vars PROVE Inv'
      BY <2>1 DEF LinesKept, SegmentsKept, WorkDone, AtWork, Waited, At, vars
    <2> QED BY <2>1, LinesStep, SegmentsStep, DoneStep
  <1>3. TypeOK /\ Inv => BuiltLogStored
    <2> SUFFICES ASSUME TypeOK, Inv, NEW a \in Attempt, At(a, "built")
                 PROVE  /\ \A n \in (1 .. sink[a].sequence) \ lost :
                             n \in DOMAIN rows /\ (attempt = 1 => rows[n] = 1)
                        /\ trouble = 0 =>
                             UNION Ranges({s \in segments : s.attempt = a}) = 1 .. sink[a].sequence
      BY DEF BuiltLogStored
    <2>1. AtWork(a) /\ Waited(a)
      BY DEF AtWork, Waited, At
    <2>2. ASSUME NEW n \in (1 .. sink[a].sequence) \ lost
          PROVE  n \in DOMAIN rows /\ (attempt = 1 => rows[n] = 1)
      <3>1. [attempt |-> a, line |-> n] \notin inserts
        BY <2>1 DEF WorkDone
      <3>2. n \in DOMAIN rows
        BY <2>1, <2>2, <3>1 DEF LinesKept
      <3>3. rows[n] \in 1 .. attempt
        BY <3>2 DEF TypeOK
      <3> QED BY <3>2, <3>3
    <2>3. ASSUME trouble = 0
          PROVE  UNION Ranges({s \in segments : s.attempt = a}) = 1 .. sink[a].sequence
      <3>1. {s \in segInserts \cup segments : s.attempt = a} = {s \in segments : s.attempt = a}
        BY <2>1, <2>3 DEF WorkDone
      <3>2. sink[a].start = sink[a].sequence + 1
        BY <2>1, <2>3 DEF SegmentsKept, At
      <3>3. sink[a].start - 1 = sink[a].sequence
        BY <3>2, SinkNumbers
      <3>4. UNION Ranges({s \in segInserts \cup segments : s.attempt = a}) = 1 .. sink[a].start - 1
        BY <2>1, <2>3 DEF SegmentsKept
      <3> QED BY <3>1, <3>3, <3>4
    <2> QED BY <2>2, <2>3
  <1> QED BY <1>1, <1>2, <1>3, TypeCorrect, PTL DEF Spec
=============================================================================
