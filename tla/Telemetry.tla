------------------------------ MODULE Telemetry ------------------------------
(***************************************************************************)
(* How the counters of the worker threads reach a reader: the per-CPU      *)
(* counters (dwd-core/src/stat/percpu.rs), the snapshots read from them    *)
(* (grpc/snapshot.rs), the statistics stream (grpc/server.rs), its         *)
(* consumer and RemoteStat (dwd/src/grpc/client.rs), the widgets of the    *)
(* user interface (dwd/src/ui.rs), and the Prometheus page                 *)
(* (dwd-core/src/api/metrics.rs).                                          *)
(*                                                                         *)
(* A counter is a plain cell with one writer, the worker.  Readers take no *)
(* lock: they read cell by cell while the workers go on.  The stream task, *)
(* its consumer and the metrics handler share the main thread, which a     *)
(* snapshot does not leave; the user interface has its own.                *)
(*                                                                         *)
(* Counters of bytes, sockets and HTTP classes are written and read like   *)
(* those kept here; "responses" stands for answers and timeouts, which are *)
(* counted alike.  A latency is the number of its histogram bucket.        *)
(***************************************************************************)
EXTENDS Integers, Sequences, Functions

CONSTANTS
  Workers,      \* number of worker threads
  Hist,         \* the histogram: the counters of its buckets, in order
  Bounds,       \* bounds of the Prometheus buckets: Bounds[j] is the last
                \* histogram bucket whose upper bound is within bound j
  Capacity,     \* capacity of the stream's channel (STATS_CHANNEL_CAP)
  MaxWork,      \* bound: requests of all workers
  MaxReads      \* bound: snapshots taken

ASSUME WorkersAssumption == Workers \in Nat \ {0}
ASSUME HistAssumption ==
  /\ Hist \in Seq(STRING) /\ Hist # <<>>
  /\ \A a, b \in DOMAIN Hist : Hist[a] = Hist[b] => a = b
  /\ \A b \in DOMAIN Hist : Hist[b] \notin {"requests", "responses"}
ASSUME BoundsAssumption == Bounds \in Seq(Nat)
ASSUME TelemetryBounds == Capacity \in Nat \ {0} /\ MaxWork \in Nat /\ MaxReads \in Nat

W == 1..Workers
Counters == {"requests", "responses"}
Fields == Counters \cup {Hist[b] : b \in DOMAIN Hist}

VARIABLES
  cell,         \* cell[w][f]: counter f of worker w
  wpc,          \* wpc[w]: what worker w does next
  is_running,   \* the shared run flag
  main,         \* the main thread: runs its tasks, or blocks in a join
  reader,       \* whose snapshot is being read: "none", "stream", "scrape"
  pos,          \* cells read so far
  snap,         \* the snapshot, as far as it has been read
  low,          \* history: the true totals when the snapshot was begun
  between,      \* history: workers whose histogram was read while they had an
                \* answer counted and not yet recorded
  stream,       \* the stream task
  pending,      \* the snapshot it waits to send
  chan,         \* its channel
  remote,       \* RemoteStat: the last snapshot stored
  client,       \* the consumer of the stream
  shown,        \* values on the screen
  prom,         \* Prometheus counters
  page,         \* latency histogram of the page served last
  work,         \* history: requests so far (bounds the model)
  reads         \* history: snapshots so far (bounds the model)

workerVars == <<cell, wpc, work>>
flags == <<is_running, main>>
readerVars == <<reader, pos, snap, low, between, reads>>
streamVars == <<stream, pending, chan, remote, client>>
vars == <<workerVars, readerVars, streamVars, flags, shown, prom, page>>

Zero == [f \in Fields |-> 0]
Column(f) == [w \in W |-> cell[w][f]]
Total(f) == SumFunction(Column(f))
Buckets(s) == [b \in DOMAIN Hist |-> s[Hist[b]]]
Latencies(s) == SumFunction(Buckets(s))

Init ==
  /\ cell = [w \in W |-> Zero]
  /\ wpc = [w \in W |-> "idle"]
  /\ is_running = TRUE
  /\ main = "tasks"
  /\ reader = "none"
  /\ pos = 0
  /\ snap = Zero
  /\ low = Zero
  /\ between = 0
  /\ stream = "tick"
  /\ pending = Zero
  /\ chan = <<>>
  /\ remote = Zero
  /\ client = "reading"
  /\ shown = Zero
  /\ prom = [c \in Counters |-> 0]
  /\ page = [le |-> [j \in DOMAIN Bounds |-> 0], inf |-> 0]
  /\ work = 0
  /\ reads = 0

(***************************************************************************)
(* The workers: on_requests, on_response and on_timeout, record.           *)
(***************************************************************************)

Add(w, f) == cell' = [cell EXCEPT ![w][f] = @ + 1]

WorkerStep(w, from, to) ==
  /\ wpc[w] = from
  /\ wpc' = [wpc EXCEPT ![w] = to]
  /\ UNCHANGED <<readerVars, streamVars, flags, shown, prom, page>>

OnRequest(w) ==
  /\ is_running
  /\ work < MaxWork
  /\ work' = work + 1
  /\ WorkerStep(w, "idle", "sent")
  /\ Add(w, "requests")

\* The two cells are written without synchronisation: a reader may see either
\* of the two writes first.
OnResponse(w) ==
  /\ WorkerStep(w, "sent", "record") \/ WorkerStep(w, "count", "idle")
  /\ Add(w, "responses")
  /\ UNCHANGED work

\* The last bucket takes everything above it.
Record(w, b) ==
  /\ WorkerStep(w, "record", "idle") \/ WorkerStep(w, "sent", "count")
  /\ Add(w, Hist[b])
  /\ UNCHANGED work

(***************************************************************************)
(* A snapshot: counter after counter, each summed over the workers one by  *)
(* one, the histogram last and worker by worker.                           *)
(***************************************************************************)

PerWorker(f) == [w \in W |-> <<f, w>>]
HistCells == [n \in 1..(Workers * Len(Hist)) |->
                <<Hist[((n - 1) % Len(Hist)) + 1], ((n - 1) \div Len(Hist)) + 1>>]

CellsHistogramFirst ==
  HistCells \o PerWorker("requests") \o PerWorker("responses")

Cells ==
  PerWorker("requests") \o PerWorker("responses") \o HistCells

\* The main thread is free for the next task.
Free == main = "tasks" /\ reader = "none"

Begin(who) ==
  /\ Free
  /\ reads < MaxReads
  /\ reads' = reads + 1
  /\ reader' = who
  /\ pos' = 0
  /\ snap' = Zero
  /\ low' = [f \in Fields |-> Total(f)]
  /\ between' = 0

ReadOverwrites ==
  /\ reader # "none"
  /\ pos < Len(Cells)
  /\ LET f == Cells[pos + 1][1]
         w == Cells[pos + 1][2] IN
       snap' = [snap EXCEPT ![f] = cell[w][f]] /\ UNCHANGED between
  /\ pos' = pos + 1
  /\ UNCHANGED <<workerVars, reader, low, reads, streamVars, flags, shown, prom, page>>

ReadCell ==
  /\ reader # "none"
  /\ pos < Len(Cells)
  /\ LET f == Cells[pos + 1][1]
         w == Cells[pos + 1][2] IN
       /\ snap' = [snap EXCEPT ![f] = @ + cell[w][f]]
       /\ between' = between + (IF f = Hist[1] /\ wpc[w] = "record" THEN 1 ELSE 0)
  /\ pos' = pos + 1
  /\ UNCHANGED <<workerVars, reader, low, reads, streamVars, flags, shown, prom, page>>

Taken(who) == reader = who /\ pos = Len(Cells)

End ==
  /\ reader' = "none"
  /\ pos' = 0
  /\ snap' = Zero
  /\ low' = Zero
  /\ between' = 0
  /\ UNCHANGED reads

(***************************************************************************)
(* The stream task: tick, look at the flag, snapshot, send.                *)
(***************************************************************************)

StreamTick ==
  /\ stream = "tick"
  /\ IF is_running
     THEN stream' = "send" /\ Begin("stream")
     ELSE Free /\ stream' = "ended" /\ UNCHANGED readerVars
  /\ UNCHANGED <<workerVars, pending, chan, remote, client, flags, shown, prom, page>>

\* tx.send() waits for room in the channel; other tasks run meanwhile, but the
\* snapshot has been taken.  It fails when the subscriber has gone.
SnapshotTaken ==
  /\ Taken("stream")
  /\ End
  /\ pending' = snap
  /\ stream' = "waiting"
  /\ UNCHANGED <<workerVars, chan, remote, client, flags, shown, prom, page>>

StreamSendUnbounded ==
  /\ stream = "waiting"
  /\ Free
  /\ \/ /\ client = "gone"
        /\ stream' = "ended"
        /\ UNCHANGED chan
     \/ /\ client = "reading"
        /\ chan' = Append(chan, pending)
        /\ stream' = "tick"
  /\ UNCHANGED <<workerVars, readerVars, pending, remote, client, flags, shown, prom, page>>

StreamSendKeepsOneFree ==
  /\ stream = "waiting"
  /\ Free
  /\ \/ /\ client = "gone"
        /\ stream' = "ended"
        /\ UNCHANGED chan
     \/ /\ client = "reading"
        /\ Len(chan) < Capacity - 1
        /\ chan' = Append(chan, pending)
        /\ stream' = "tick"
  /\ UNCHANGED <<workerVars, readerVars, pending, remote, client, flags, shown, prom, page>>

StreamSend ==
  /\ stream = "waiting"
  /\ Free
  /\ \/ /\ client = "gone"
        /\ stream' = "ended"
        /\ UNCHANGED chan
     \/ /\ client = "reading"
        /\ Len(chan) < Capacity
        /\ chan' = Append(chan, pending)
        /\ stream' = "tick"
  /\ UNCHANGED <<workerVars, readerVars, pending, remote, client, flags, shown, prom, page>>

\* spawn_stats_consumer(): stores what it receives, ends with the stream.
Consume ==
  /\ client = "reading"
  /\ Free
  /\ \/ /\ chan # <<>>
        /\ remote' = Head(chan)
        /\ chan' = Tail(chan)
        /\ UNCHANGED client
     \/ /\ chan = <<>> /\ stream = "ended"
        /\ client' = "ended"
        /\ UNCHANGED <<chan, remote>>
  /\ UNCHANGED <<workerVars, readerVars, stream, pending, flags, shown, prom, page>>

\* A subscriber may drop the stream at any moment.
ClientLeaves ==
  /\ client = "reading"
  /\ Free
  /\ client' = "gone"
  /\ chan' = <<>>
  /\ UNCHANGED <<workerVars, readerVars, stream, pending, remote, flags, shown, prom, page>>

\* The getters of RemoteStat, one per counter.
RemoteStat(f) == remote[f]

\* on_tick(): every widget reads its value of the last snapshot stored.  No
\* property compares two widgets, so a tick is one step.
OnTick ==
  /\ shown' = [f \in Fields |-> RemoteStat(f)]
  /\ UNCHANGED <<workerVars, readerVars, streamVars, flags, prom, page>>

(***************************************************************************)
(* The metrics handler: the counters are raised to the totals read, the    *)
(* histogram is encoded from the cells read last.                          *)
(***************************************************************************)

StartScrape ==
  /\ Begin("scrape")
  /\ UNCHANGED <<workerVars, streamVars, flags, shown, prom, page>>

RaisedByTotal(c) == prom[c] + snap[c]
Raised(c) == IF snap[c] > prom[c] THEN snap[c] ELSE prom[c]

\* encode_histogram(): every bound sums the histogram buckets within it, and
\* the sums are added up once more as the bounds are written.
Within(j) == SumFunctionOnSet(Buckets(snap), {b \in DOMAIN Hist : b <= Bounds[j]})
EncodedLe(j) == SumFunction([i \in 1..j |-> Within(i)])

Scrape ==
  /\ Taken("scrape")
  /\ End
  /\ prom' = [c \in Counters |-> Raised(c)]
  /\ page' = [le |-> [j \in DOMAIN Bounds |-> EncodedLe(j)], inf |-> Latencies(snap)]
  /\ UNCHANGED <<workerVars, streamVars, flags, shown>>

StopRun ==
  /\ is_running
  /\ is_running' = FALSE
  /\ UNCHANGED <<workerVars, readerVars, streamVars, main, shown, prom, page>>

\* The rate-control loop sees the flag and the main thread goes on to join the
\* other threads, which stops its runtime.
LoopEnds ==
  /\ ~is_running
  /\ Free
  /\ main' = "joins"
  /\ UNCHANGED <<workerVars, readerVars, streamVars, is_running, shown, prom, page>>

Next ==
  \/ \E w \in W : \/ OnRequest(w) \/ OnResponse(w)
                  \/ \E b \in DOMAIN Hist : Record(w, b)
  \/ ReadCell
  \/ StreamTick \/ SnapshotTaken \/ StreamSend \/ Consume \/ ClientLeaves
  \/ OnTick
  \/ StartScrape \/ Scrape \/ StopRun \/ LoopEnds

Spec == Init /\ [][Next]_vars

\* The main thread does not stand still while one of its tasks can run.  Which
\* task it runs is left open, and nothing is assumed of workers and readers.
MainThread == ReadCell \/ StreamTick \/ SnapshotTaken \/ StreamSend \/ Consume \/ Scrape

FairSpec == Spec /\ WF_vars(MainThread)

------------------------------------------------------------------------------
Snapshots == [Fields -> Nat]

TypeOK ==
  /\ cell \in [W -> Snapshots]
  /\ wpc \in [W -> {"idle", "sent", "record", "count"}]
  /\ is_running \in BOOLEAN
  /\ main \in {"tasks", "joins"}
  /\ reader \in {"none", "stream", "scrape"}
  /\ pos \in 0..Len(Cells)
  /\ between \in 0..Workers
  /\ {snap, low, pending, remote, shown} \subseteq Snapshots
  /\ prom \in [Counters -> Nat]
  /\ stream \in {"tick", "send", "waiting", "ended"}
  /\ chan \in Seq(Snapshots) /\ Len(chan) <= Capacity
  /\ client \in {"reading", "gone", "ended"}
  /\ (reader = "stream") <=> (stream = "send")
  /\ page \in [le : [DOMAIN Bounds -> Nat], inf : Nat]
  /\ work \in 0..MaxWork /\ reads \in 0..MaxReads

\* Every value of a snapshot is one the counter really had while the snapshot
\* was read: never behind the total at its beginning, never ahead of the total
\* at its end, although workers count on between any two cells (the sums of
\* percpu.rs, snapshot() and collect()).
SnapshotBracketed ==
  pos = Len(Cells) /\ reader # "none" =>
    \A f \in Fields : low[f] <= snap[f] /\ snap[f] <= Total(f)

\* The latencies of a snapshot cover its answers and timeouts, but for those
\* of the workers that had counted one and not yet recorded it when their
\* histogram was read: the histogram is read after the counters, so that the
\* percentiles are never those of fewer answers (rx_stats, metrics_handler;
\* on_response and on_timeout).
LatenciesCover ==
  pos = Len(Cells) /\ reader # "none" =>
    Latencies(snap) + between >= snap["responses"]

\* Nothing a user sees of the counters ever goes down, on the screen, in the
\* last snapshot stored or on the metrics page, and a Prometheus counter is
\* never ahead of the true total (the stream, update_tx, update_rx).
NothingGoesBack ==
  [][\A f \in Fields :
       /\ remote'[f] >= remote[f]
       /\ shown'[f] >= shown[f]
       /\ f \in Counters => prom'[f] >= prom[f] /\ prom'[f] <= Total(f)']_vars

\* While the run goes on a snapshot taken reaches a consumer that stays: a full
\* channel, a scrape and the stream task waiting for the consumer on the same
\* thread do not block each other (stream_stats, spawn_stats_consumer).
Delivered ==
  (stream = "waiting" \/ chan # <<>>)
    ~> (\/ stream # "waiting" /\ chan = <<>>
        \/ client = "gone"
        \/ ~is_running)

\* The page counts at a bound the latencies within it, and never more than
\* there are (encode_histogram: "For each prometheus bucket with upper bound B
\* (in seconds), we sum all log-bucket counts where the upper bound <= B").
BucketsWithinTotal == \A j \in DOMAIN Bounds : page.le[j] <= page.inf
==============================================================================
