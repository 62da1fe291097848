----------------------------- MODULE LogStream -----------------------------
(***************************************************************************)
(* The log of one deployment: DurableLogSink and LogRepository of          *)
(* src/logs.rs, the workers of src/worker.rs that fill the sinks, and the  *)
(* stream of src/api.rs that polls the table for a client.                 *)
(*                                                                         *)
(* A line is the number its attempt gave it.  Every line is inserted by a  *)
(* task of its own, so lines reach the table in any order; a row refuses a *)
(* second one with its number, which is what a later attempt produces.  A  *)
(* worker that lost its lease goes on beside the next attempt.             *)
(***************************************************************************)
EXTENDS Integers, Sequences, FiniteSets, Functions

CONSTANTS
  Threshold,    \* segment_threshold, 100 in the worker
  Limit,        \* limit of a query, 100 in the stream
  MaxAttempts,  \* max_attempts of the job
  MaxLines,     \* bound on the lines of each attempt
  MaxTrouble    \* bound on failed statements and writes, crashes, cancellations,
                \* purges and lost connections together

ASSUME LogStreamAssumption ==
  /\ Threshold \in Nat \ {0} /\ Limit \in Nat \ {0}
  /\ MaxAttempts \in Nat \ {0} /\ MaxTrouble \in Nat
  /\ MaxLines \in [1 .. MaxAttempts -> Nat]

Attempt == 1 .. MaxAttempts

\* The numbers a line may have
Number == UNION {1 .. MaxLines[a] : a \in Attempt}

VARIABLES
  status,     \* status of the deployment
  job,        \* status of its build job
  attempt,    \* number of attempts to build it
  sink,       \* the worker of each attempt and its sink: where it is, the number
              \* of the last line, and the first line in segment_buffer
  inserts,    \* tasks inserting a line
  rows,       \* deployment_logs: the attempt whose line each number holds
  segInserts, \* tasks inserting a segment
  segments,   \* log_segments
  files,      \* segment files: the attempt that wrote each last
  stream,     \* the task that serves the client
  client,     \* history: the numbers the client received, in order, since it
              \* last came without a number
  late,       \* history: rows that arrived behind the stream
  lost,       \* history: numbers whose row was refused by the database or purged
  strays,     \* history: attempts that had a sink when a later one began
  trouble     \* history: what MaxTrouble bounds

vars == <<status, job, attempt, sink, inserts, rows, segInserts, segments, files, stream,
          client, late, lost, strays, trouble>>
queueVars == <<job, attempt, strays>>
tableVars == <<inserts, rows, segInserts, segments, files, late, lost>>
streamVars == <<stream, client>>

Status == {"queued", "building", "running", "failed", "cancelled", "stopped"}

Poll == [at |-> "rows", last |-> 0, page |-> <<>>, more |-> FALSE, read |-> {}]

Sink(at, sequence, start) == [at |-> at, sequence |-> sequence, start |-> start]

Init ==
  /\ status = "queued"
  /\ job = "queued"
  /\ attempt = 0
  /\ sink = [a \in Attempt |-> Sink("none", 0, 1)]
  /\ inserts = {}
  /\ rows = [n \in {} |-> 0]
  /\ segInserts = {}
  /\ segments = {}
  /\ files = [f \in {} |-> 0]
  /\ stream = Poll
  /\ client = <<>>
  /\ late = {}
  /\ lost = {}
  /\ strays = {}
  /\ trouble = 0

Trouble ==
  /\ trouble < MaxTrouble
  /\ trouble' = trouble + 1

With(f, x, y) == [z \in DOMAIN f \cup {x} |-> IF z = x THEN y ELSE f[z]]

\* UPDATE deployments SET status, whose result nobody looks at
SetStatus(s) ==
  \/ status' = s /\ UNCHANGED trouble
  \/ UNCHANGED status /\ Trouble

At(a, place) == sink[a].at = place
Goto(a, place) == sink' = [sink EXCEPT ![a].at = place]

---------------------------------------------------------------------------
(* The worker and its sink.                                                *)

\* The places of a worker whose sink may still write.
Writing == {"building", "flushing", "waiting", "stored", "failing"}

\* claim gives the job to a worker, which makes a sink that counts from 1.  A
\* failed job whose entry is in the stream is taken too.
Begin ==
  /\ job \in {"queued", "failed"} /\ attempt < MaxAttempts
  /\ job' = "running"
  /\ attempt' = attempt + 1
  /\ sink' = [sink EXCEPT ![attempt + 1] = Sink("building", 0, 1)]
  /\ strays' = strays \cup {a \in Attempt : sink[a].at \in Writing}
  /\ SetStatus("building")
  /\ UNCHANGED <<tableVars, streamVars>>

\* Mutant: the buffer is not cleared.
KeepsBuffer(a, n) == sink[a].start

\* rotate_segment clears the buffer.
AfterRotation(a, n) == n + 1

\* rotate_segment on the lines up to n: the file is named by its first and last
\* line and replaces one of that name; its row is inserted by a task.
Rotate(a, n) ==
  LET first == sink[a].start IN
  /\ files' = With(files, <<first, n>>, a)
  /\ segInserts' = segInserts \cup {[attempt |-> a, first |-> first, last |-> n]}

\* The sink has counted n lines, and its buffer was rotated or kept.
Rotated(a, place, n) ==
  /\ Rotate(a, n)
  /\ sink' = [sink EXCEPT ![a] = Sink(place, n, AfterRotation(a, n))]

Kept(a, place, n) ==
  /\ sink' = [sink EXCEPT ![a] = Sink(place, n, sink[a].start)]
  /\ UNCHANGED <<files, segInserts>>

\* write_line; when the segment cannot be written the build fails, and the lines
\* stay in the buffer.
WriteLine(a) ==
  LET n == sink[a].sequence + 1
      full == n - sink[a].start + 1 >= Threshold
  IN
  /\ At(a, "building")
  /\ n <= MaxLines[a]
  /\ inserts' = inserts \cup {[attempt |-> a, line |-> n]}
  /\ \/ ~ full /\ Kept(a, "building", n) /\ UNCHANGED trouble
     \/ full /\ Rotated(a, "building", n) /\ UNCHANGED trouble
     \/ full /\ Kept(a, "failing", n) /\ Trouble
  /\ UNCHANGED <<status, queueVars, rows, segments, late, lost, streamVars>>

\* The build ends, well or not.
BuildEnds(a) ==
  /\ At(a, "building")
  /\ Goto(a, "flushing") \/ Goto(a, "failing")
  /\ UNCHANGED <<status, queueVars, tableVars, streamVars, trouble>>

\* After a good build the worker flushes the sink and will wait for its tasks;
\* at the end of the pipeline the sink is dropped, which flushes what is left and
\* waits for nothing.
AfterFlush == [flushing |-> "waiting", stored |-> "dropped", failing |-> "failed"]

\* flush, whose result nobody looks at
FlushSink(a) ==
  LET n == sink[a].sequence
      empty == sink[a].start > n
      next == AfterFlush[sink[a].at]
  IN
  /\ sink[a].at \in DOMAIN AfterFlush
  /\ \/ empty /\ Kept(a, next, n) /\ UNCHANGED trouble
     \/ ~ empty /\ Rotated(a, next, n) /\ UNCHANGED trouble
     \/ ~ empty /\ Kept(a, next, n) /\ Trouble
  /\ UNCHANGED <<status, queueVars, inserts, rows, segments, late, lost, streamVars>>

\* Mutant: nothing is waited for.
WaitsForNothing(a) == TRUE

\* wait_all: the sink's own tasks are done.
TasksDone(a) ==
  /\ \A i \in inserts : i.attempt # a
  /\ \A s \in segInserts : s.attempt # a

\* When wait_all is done the artifact is stored, or the attempt fails.
StoreArtifact(a) ==
  /\ At(a, "waiting") /\ TasksDone(a)
  /\ Goto(a, "stored") \/ Goto(a, "failing")
  /\ UNCHANGED <<status, queueVars, tableVars, streamVars, trouble>>

\* The deployment is said to run.
MarkRunning(a) ==
  /\ At(a, "dropped")
  /\ SetStatus("running")
  /\ Goto(a, "built")
  /\ UNCHANGED <<queueVars, tableVars, streamVars>>

\* UPDATE build_jobs by the worker of attempt a, if it still holds the lease
SetJob(a, s) == job' = IF a = attempt /\ job = "running" THEN s ELSE job

\* ack; an error before it ends the worker and leaves the job to its lease.
Ack(a) ==
  /\ At(a, "built")
  /\ \/ SetJob(a, "completed") /\ UNCHANGED trouble
     \/ UNCHANGED job /\ Trouble
  /\ Goto(a, "gone")
  /\ UNCHANGED <<status, attempt, strays, tableVars, streamVars>>

\* fail: no further attempt, or one more, during which the deployment keeps its
\* status; an error before it leaves the job to its lease.
Fail(a) ==
  /\ At(a, "failed")
  /\ \/ SetStatus("failed") /\ SetJob(a, "failed")
     \/ attempt < MaxAttempts /\ SetJob(a, "queued") /\ UNCHANGED <<status, trouble>>
     \/ status' \in {status, "failed"} /\ UNCHANGED job /\ Trouble
  /\ Goto(a, "gone")
  /\ UNCHANGED <<attempt, strays, tableVars, streamVars>>

\* The worker's process dies, and with it the sink and its tasks.
Crash(a) ==
  /\ sink[a].at \notin {"none", "dead"}
  /\ Goto(a, "dead")
  /\ inserts' = {i \in inserts : i.attempt # a}
  /\ segInserts' = {s \in segInserts : s.attempt # a}
  /\ Trouble
  /\ UNCHANGED <<status, queueVars, rows, segments, files, late, lost, streamVars>>

\* requeue_expired finds that the lease is over: the worker died or gave up, or it
\* is at work and late to renew the lease.
Requeue ==
  /\ job = "running"
  /\ Trouble \/ (sink[attempt].at \in {"dead", "gone"} /\ UNCHANGED trouble)
  /\ \/ attempt < MaxAttempts /\ job' = "queued" /\ UNCHANGED status
     \/ attempt = MaxAttempts /\ job' = "failed" /\ status' = "failed"
     \/ attempt = MaxAttempts /\ job' = "failed" /\ UNCHANGED status /\ Trouble
  /\ UNCHANGED <<attempt, sink, strays, tableVars, streamVars>>

---------------------------------------------------------------------------
(* What others do to the deployment.                                       *)

\* cancel_deployment; a job that waits is not built, one that is being built is.
CancelDeployment ==
  /\ status' = "cancelled"
  /\ job' = IF job \in {"queued", "running"} THEN "cancelled" ELSE job
  /\ Trouble
  /\ UNCHANGED <<attempt, sink, strays, tableVars, streamVars>>

\* stop_preview
StopDeployment ==
  /\ status' = "stopped"
  /\ Trouble
  /\ UNCHANGED <<queueVars, sink, tableVars, streamVars>>

\* retry_deployment, which finds the job there and enqueues nothing
RetryDeployment ==
  /\ status' = "queued"
  /\ Trouble
  /\ UNCHANGED <<queueVars, sink, tableVars, streamVars>>

---------------------------------------------------------------------------
(* The tables.                                                             *)

\* The last of the numbers received, or of a page, if there is one.
LastOr(s, n) == IF s = <<>> THEN n ELSE s[Len(s)]

\* The number up to which the stream will not ask any more.
Passed == LastOr(stream.page, stream.last)

\* The INSERT of write_line; its result is dropped.
InsertLine(i) ==
  /\ inserts' = inserts \ {i}
  /\ \/ /\ i.line \notin DOMAIN rows
        /\ rows' = With(rows, i.line, i.attempt)
        /\ late' = IF i.line <= Passed THEN late \cup {i.line} ELSE late
        /\ UNCHANGED <<lost, trouble>>
     \/ i.line \in DOMAIN rows /\ UNCHANGED <<rows, late, lost, trouble>>
     \/ lost' = lost \cup {i.line} /\ Trouble /\ UNCHANGED <<rows, late>>
  /\ UNCHANGED <<status, queueVars, sink, segInserts, segments, files, streamVars>>

\* The INSERT of rotate_segment
InsertSegment(s) ==
  /\ segInserts' = segInserts \ {s}
  /\ \/ segments' = segments \cup {s} /\ UNCHANGED trouble
     \/ Trouble /\ UNCHANGED segments
  /\ UNCHANGED <<status, queueVars, sink, inserts, rows, files, late, lost, streamVars>>

\* purge_logs_older_than, at a time between two lines
Purge(a, n) ==
  LET Old(b, m) == b < a \/ (b = a /\ m <= n)
      old == {m \in DOMAIN rows : Old(rows[m], m)}
  IN
  /\ old # {}
  /\ rows' = [m \in DOMAIN rows \ old |-> rows[m]]
  /\ segments' = {s \in segments : ~ Old(s.attempt, s.last)}
  /\ lost' = lost \cup old
  /\ Trouble
  /\ UNCHANGED <<status, queueVars, sink, inserts, segInserts, files, late, streamVars>>

---------------------------------------------------------------------------
(* query_logs and the stream.                                              *)

\* Mutant: the query includes the line it continues after.
FromOn(n) == {m \in DOMAIN rows : m >= n}

\* WHERE sequence > $2
After(n) == {m \in DOMAIN rows : m > n}

\* p is the beginning, at most most rows long, of After(n) in order.
IsPage(p, n, most) ==
  /\ \A i, j \in DOMAIN p : i < j => p[i] < p[j]
  /\ \A m \in After(n) \ Range(p) :
       Len(p) = most /\ \A i \in DOMAIN p : p[i] < m

\* Mutant: the line fetched to see whether there are more stays on the page.
PagesUncut(n) ==
  {p \in UNION {[1 .. k -> After(n)] : k \in 0 .. Limit + 1} : IsPage(p, n, Limit + 1)}

\* ORDER BY sequence LIMIT limit + 1, cut to the limit: there is one such page.
Pages(n) ==
  {p \in UNION {[1 .. k -> After(n)] : k \in 0 .. Limit} : IsPage(p, n, Limit)}

\* The first statement of query_logs; has_more says that a row was cut off.
ReadRows ==
  /\ stream.at = "rows"
  /\ \E page \in Pages(stream.last) :
       stream' = [at |-> "status", last |-> stream.last, page |-> page,
                  more |-> After(stream.last) # Range(page), read |-> DOMAIN rows]
  /\ UNCHANGED <<status, queueVars, sink, tableVars, client, trouble>>

\* Mutant: a cancelled deployment is not terminal.
TerminalButCancelled == {"completed", "failed", "stopped"}

\* is_terminal
Terminal == {"completed", "failed", "cancelled", "stopped"}

\* Mutant: the stream of a terminal deployment ends with the page.
EndsWithPage == status \in Terminal

\* is_terminal, of the second statement, and has_more, of the first
Ends == status \in Terminal /\ ~ stream.more

\* The second statement of query_logs; the page is sent, then perhaps the event
\* that ends the stream.
SendPage ==
  /\ stream.at = "status"
  /\ client' = client \o stream.page
  /\ stream' = [at |-> IF Ends THEN "done" ELSE "rows", last |-> Passed,
                 page |-> <<>>, more |-> stream.more, read |-> stream.read]
  /\ UNCHANGED <<status, queueVars, sink, tableVars, trouble>>

\* What the client has when the connection breaks after n lines of the page.
Received(n) == client \o SubSeq(stream.page, 1, n)

\* It comes back with the last number it received as after_sequence.
Reconnect(n) ==
  /\ stream.at = "status"
  /\ n \in 0 .. Len(stream.page)
  /\ client' = Received(n)
  /\ stream' = [Poll EXCEPT !.last = LastOr(client', 0)]
  /\ Trouble
  /\ UNCHANGED <<status, queueVars, sink, tableVars>>

\* It comes back to the same address, as an EventSource does; the number it sends
\* as Last-Event-ID is not read, and it gets the lines it has again.
ReconnectById ==
  /\ stream.at = "status"
  /\ client' = <<>>
  /\ stream' = Poll
  /\ Trouble
  /\ UNCHANGED <<status, queueVars, sink, tableVars>>

Worker(a) ==
  \/ WriteLine(a) \/ BuildEnds(a) \/ FlushSink(a) \/ StoreArtifact(a)
  \/ MarkRunning(a) \/ Ack(a) \/ Fail(a) \/ Crash(a)

Next ==
  \/ Begin \/ Requeue
  \/ \E a \in Attempt : Worker(a)
  \/ CancelDeployment \/ StopDeployment \/ RetryDeployment
  \/ \E i \in inserts : InsertLine(i)
  \/ \E s \in segInserts : InsertSegment(s)
  \/ \E a \in Attempt, n \in Number : Purge(a, n)
  \/ ReadRows \/ SendPage
  \/ \E n \in 0 .. Limit : Reconnect(n)
  \/ ReconnectById

\* The stream polls every 200 ms; queries that fail change nothing and are taken
\* to succeed in the end, and the client reads what it is sent: with 100 events
\* under way the task waits for it.
Spec == Init /\ [][Next]_vars /\ WF_vars(ReadRows) /\ WF_vars(SendPage)

---------------------------------------------------------------------------
(* Properties.                                                             *)

Place ==
  {"none", "building", "flushing", "waiting", "stored", "dropped", "built", "failing",
   "failed", "dead", "gone"}

\* Tables, sinks, workers and stream are well formed; no row, task, segment or
\* file is of an attempt that was not made.
TypeOK ==
  /\ status \in Status
  /\ job \in {"queued", "running", "completed", "failed", "cancelled"}
  /\ attempt \in 0 .. MaxAttempts
  /\ sink \in [Attempt -> [at : Place, sequence : Number \cup {0}, start : Nat \ {0}]]
  /\ \A a \in Attempt : /\ sink[a].start <= sink[a].sequence + 1
                        /\ sink[a].at = "none" <=> attempt < a
  /\ inserts \subseteq [attempt : 1 .. attempt, line : Number]
  /\ rows \in [DOMAIN rows -> 1 .. attempt] /\ DOMAIN rows \subseteq Number
  /\ segInserts \cup segments \subseteq
       [attempt : 1 .. attempt, first : Number, last : Number]
  /\ files \in [DOMAIN files -> 1 .. attempt] /\ DOMAIN files \subseteq Number \X Number
  /\ stream \in [at : {"rows", "status", "done"}, last : Number \cup {0},
                 page : Seq(Number), more : BOOLEAN, read : SUBSET Number]
  /\ Len(stream.page) <= Limit
  /\ client \in Seq(Number)
  /\ late \cup lost \subseteq Number
  /\ strays \subseteq 1 .. attempt
  /\ trouble \in 0 .. MaxTrouble

\* A client that comes back with the last number it received gets no line twice
\* and none out of order, over all pages and connections, whatever the order in
\* which lines reach the table.
StreamInOrder == \A i, j \in DOMAIN client : i < j => client[i] < client[j]

\* What the stream leaves out came too late: a row at or below the last line it
\* sent that the client did not get was inserted after the stream had passed,
\* and a stream that ended has sent all the rows of its last reading.
StreamSkipsOnlyLate ==
  LET received == Range(client) IN
  /\ \A n \in DOMAIN rows : n <= stream.last => n \in received \cup late
  /\ stream.at = "done" => stream.read \subseteq received \cup late

Ranges(segs) == {s.first .. s.last : s \in segs}

\* The log of an attempt that was built is stored before the status says so:
\* each line has its row, unless the database refused or purged it, and the rows
\* are those of this attempt if it was the only one; without trouble the segments
\* on record cover the lines.  This goes for an attempt that has lost its lease too.
BuiltLogStored ==
  \A a \in Attempt :
    At(a, "built") =>
      /\ \A n \in (1 .. sink[a].sequence) \ lost :
           n \in DOMAIN rows /\ (attempt = 1 => rows[n] = 1)
      /\ trouble = 0 =>
           UNION Ranges({s \in segments : s.attempt = a}) = 1 .. sink[a].sequence

\* The segment files an attempt has written hold each of its lines up to the
\* buffer once, none of them more than Threshold lines, though files may fail to
\* be written; a file is replaced only by one of the same lines, of a later attempt
\* or of one that went on when it had lost its lease.
SegmentsTile ==
  LET Lines(f) == f[1] .. f[2] IN
  \A a \in 1 .. attempt :
    LET mine == {f \in DOMAIN files : files[f] = a}
        kept == 1 .. sink[a].start - 1
    IN
    /\ \A n \in kept :
         \E f \in DOMAIN files : n \in Lines(f) /\ (files[f] >= a \/ files[f] \in strays)
    /\ \A f, g \in mine : f # g => Lines(f) \cap Lines(g) = {}
    /\ \A f \in mine : Lines(f) \subseteq kept /\ Cardinality(Lines(f)) \in 1 .. Threshold

\* The stream of a deployment that ends, and is not put back, comes to its end.
StreamEnds ==
  <>[](status \in {"failed", "cancelled", "stopped"}) => <>(stream.at = "done")
=============================================================================
