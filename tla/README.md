# A formal model of dwd

dwd is a load generator: worker threads send requests at a rate that follows a
profile, and a user changes that rate from a terminal interface or over gRPC
while the load runs. This directory holds TLA+ modules translated from the
source, TLC configurations that check them on small instances, and TLAPS proofs
of the main safety properties for every value of the constants. `PROJECT.json`
lists components, runs, the source lines behind each definition, hazards,
findings and theorems.

## The system

| Part | State it keeps | Operations | Talks to |
| --- | --- | --- | --- |
| Load profiles (`generator.rs`) | start instant, index into a sequence | activate, current | the suspendable generator |
| `SuspendableGenerator` (`generator.rs`) | `suspended_at`, `suspended_duration`, `value` | suspend, resume, set, current_at | owned by the rate-control loop |
| Rate-control loop (`engine.rs`, `run_generator`) | rate polled; writes limits, announced rate, run flag | one iteration every 10 ms | control channel (cap. 1), limits, flag |
| gRPC service (`grpc/server.rs`) | sender of the channel, run flag | Control (Suspend, Resume, Set, Stop), StreamStats, Describe | the channel, the flag, snapshots |
| TUI (`ui.rs`, `grpc/client.rs`) | mode shown, channel (cap. 1) to the forwarder | keys s, Enter, q; forwarder | the gRPC service, in process |
| Shaper (`shaper.rs`) | tokens, last tick | tick, consume | its worker; reads one limit |
| Workers (`engine/coro.rs`, `udp`, `http`, `http3`) | connection, request budget | look at the flag, tick, burst, consume; connect, request, answer, error, timeout | limit, flag, statistics, the peer |
| Pools (`engine/runtime.rs`) | thread and task handles | start in order, join in order | the engine thread |
| Runtime (`dwd/src/runtime.rs`) | handles of the engine, ui and summary threads | start, run the loop, join, report | everything |
| Summary (`summary.rs`) | samples, last counters | sample, stop, finish | flag, snapshots |
| Statistics (`stat/percpu.rs`, `histogram.rs`) | per-worker counters and histogram cells | count, record, sum | written by workers, read by snapshots and scrapes |
| Statistics stream (`grpc/snapshot.rs`, `grpc/server.rs`, `grpc/client.rs`) | channel (cap. 4), last snapshot stored | tick, snapshot, send, consume | subscribers, among them the TUI |
| Metrics (`api/metrics.rs`) | Prometheus counters | scrape, encode | snapshots |
| DPDK engine (`worker/dpdk.rs`) | pools, queues, packets, reference counts, position | set up, refill, transmit, shut down | driver, shaper |

What makes it hard. The loop, the gRPC handlers, the forwarder and the signal
handler are tasks of one single-threaded runtime, so they interleave only where
the loop awaits its sleep, and not at all once the main thread blocks in a
join. The ui thread, the engine thread, the workers and the summary thread are
real threads that share the run flag and the limits. Both channels hold one
event and drop what does not fit. Statistics are summed without a lock while
they are written. A timeout may cut a request off at any await, and what a peer
or a network driver does is up to them. The clock moves under everything.

What makes it right, part by part: pauses freeze the profile's clock to the
tick; a pass over the workers conserves the rate and exposes no stray limit;
the loop ends when, and only when, it should; a worker never sends more than
its limits allow; the mode a user sees is the mode the generator is heading
for; a run that reports success lost neither a thread nor an error; a stop ends
the process; every request is counted once, on a connection that is its own and
within its budget; a report without warnings is true; a packet in use is never
freed; no statistic is invented or goes back; a profile is played in full and
nearly on time.

## Modules

- **SuspendableGenerator** — the wrapper's fields as a record, its methods as
  operators of the generator and an instant. The profile is a table `Profile`
  over its own clock, over strictly after `Duration`.
- **RateControl** — `run_generator` cut where another thread or task can
  observe it: `Activate`, `Current`, `Receive`, one `StoreLimit` per worker,
  `Publish`, `Wake`, `Exit`. `Control` and `ControlStop` are the gRPC handler,
  `Signal` the headless signal task, `UiExit` the ui thread. `Awaiting` says
  where the runtime may run a handler.
- **LoadProfile** — the abstract specification: a profile with a clock of its
  own that runs only while the profile is in charge. No channel, no wall clock,
  no per-worker limits, no pause arithmetic. `RateControl` refines it with
  `elapsed <- ElapsedOf(g, now)` and `mode <- ModeOf(g)`.
- **TuiControl** — extends RateControl by the TUI: key handler, its channel, the
  forwarder and the call in flight. Commands come from keys only.
- **Lifecycle** — `Runtime::run`, the engine thread and its pool, workers, the
  summary thread and the ui thread, with every error and panic a join can
  return. `EngineStartHttp`, `EngineStartRaw`, `EngineStartHttp3` and
  `EngineStartUdp` are `run` of the four engines up to the pool: what each sets
  up decides whether it may refuse to run. `Dealt` and `OnePerThread` are the
  tasks their `new` gives to each thread. The loop is reduced to what RateControl
  shows of it. A process that exits takes all its threads with it.
- **ShapedWorker** — a worker's loop with the shaper in exact arithmetic: tokens
  are counted in units of 1/`TicksPerSec`, so `as u64` is a division. `Cap` is
  the 32 of `ShapedCoroWorker`; the UDP worker has no cap, which is a `Cap` no
  limit reaches.
- **Connection** — the tasks of one worker thread, for each of the four engines:
  `Execute` takes the kept connection out of its field, the `Reconnect` actions
  and `CurrSock` make one, `Request`, `Answer`, `Failed` and `Timeout` are the
  steps between the awaits of `do_execute`. Peer and network are left open.
  `Issues` is the summary's list of warnings over these counters.
- **DpdkWorker** — `DpdkEngine::new` (`InitWorkers`, `InitPorts`, `LoadPcap`) for
  a layout of ports and cores, the loop of a core (`Look`, `Burst`, `NoTokens`,
  `Panic`) and the shutdown of `run`. The driver is external: it takes any number
  of packets it is offered and collects finished descriptors in order.
- **Telemetry** — worker cells, a snapshot read cell by cell, the stream task,
  its channel and consumer, the TUI's tick and the metrics handler. `main` says
  whether the main thread still runs its tasks or blocks in a join.
- **Profiles** — `Config` as sequences of parts on tracks that are added up,
  created in order up to the first error or panic, activated and polled as the
  generators do; division as in Rust. Empty sums and sequences are profiles too.
- **RateControlProofs** (RateControl and TuiControl), **ShapedWorkerProofs**,
  **ConnectionProofs**, **LifecycleProofs**, **DpdkWorkerProofs**,
  **TelemetryProofs**, **ProfilesProofs** — theorems.
- **Arithmetic** — lemmas the proofs share: division, multiplication, and sums of
  functions over finite sets.
- **MCRateControl**, **MCTuiControl**, **MCDpdkWorker**, **MCTelemetry**,
  **MCProfiles** — profiles, layouts and buckets for the runs.

Modules meet in the state they share. TuiControl extends RateControl. Lifecycle
takes from RateControl when the loop may end, from ShapedWorker that a burst
ends, and from Connection that a request does (`EveryRequestEnds`, which is what
makes the fairness of its workers right). Profiles stands behind the table
`Profile` of SuspendableGenerator. Telemetry takes from Lifecycle that the main
thread goes from its loop to a join.

Definitions named after a mistake (`ShareOffByOne`, `ConsumeTwice`,
`LookIgnoresFlag`, ...) are variants of the definition that follows them; each
makes one property fail, which shows that the property depends on that code.
Variables called *history* exist for properties only; `requests` and `presses`
only bound the model.

## Runs

| Run | Shows |
| --- | --- |
| `rate_control` | Everything RateControl promises, and the refinement of LoadProfile. Profile 5, 0, 3 over three ticks and three workers: one rate divides evenly, one is zero, one leaves a remainder, and a manual rate of 4 differs from all of them. Clock up to 5, so the profile can end with up to two ticks of pauses; three requests, so a set, a suspend and a resume occur in every order. 69 220 states. |
| `suspend_after_set` | *violation*: see finding 1. |
| `dropped_request` | *violation*: see finding 2. |
| `tui_control` | Keys through both channels. Four commands fill the ui channel, the forwarder and the control channel at once and overflow one of them. 198 880 states. |
| `lifecycle` | Two workers, so that one fails before, behind or during the join of the other; the four engines, with and without TLS; both configurations of `--no-ui` and `--grpc-addr`; one job or two, so that a thread may get none; bursts of up to two as long as they stay within three requests, so that a worker looks at the flag between bursts and the last bursts fall behind the sampler's window. 691 928 states. |
| `stop_with_ui` | *violation*: see finding 3. |
| `shaped_worker` | Limits 0, 1 and 3 with two ticks a second, so that a tick earns fractions of a token, the cap of 2 cuts bursts of 3 and the one-second cap cuts savings. 36 376 states. |
| `connection` | Four engines, two tasks that share the counters, a budget of 2 with deviation 1, so that 1, 2 and 3 requests per connection occur, and enough requests to lose a connection, renew the budget and reuse one. 165 664 states. |
| `dpdk` | Two cores on one port or on two, a core named twice, the main core named. Up to five packets, so that a core gets none, one, two or three; refills every 2 rounds with 3 spare references over a ring of 3 (the code: 16 384, 1 024 and 1 024), 14 packets sent, which is more than two refills for any share. 128 645 states. |
| `telemetry` | Two workers with one histogram bucket, two requests and two snapshots: enough for a worker to count between any two cells of a snapshot, for two workers to be caught between counter and histogram, and for the second snapshot to wait at a channel of one that the first has filled. 826 285 states. |
| `histogram_page` | *violation*: see finding 4. |
| `profiles` | A rising line of 5 over 2 s and a falling one of 7 over 3 s, which do not divide evenly, constants, a sine, a line without length, alone and behind a sine that may fail first, a sum whose tracks have different lengths, an empty sum and an empty sequence; polls 0 to 5 quarters of a second apart, so that a poll falls on, just after and far beyond the end of a part. 1 111 states. |

Deadlock is not checked: a run that is over stops, and bounded clocks and
request counts stop too.

**Fairness.** `RateControl` and `ShapedWorker`: weak fairness of the loop, which
is a task or thread that is always scheduled again, with sleeps and requests
that end (HTTP requests are under a timeout, UDP sends do not wait).
`TuiControl`: also strong fairness of the forwarder, because its task becomes
runnable at every sleep of the loop and tokio polls runnable tasks in turn.
`Lifecycle`: weak fairness of each thread. `Connection`: the timer of a request
fires; the blocking calls of the UDP worker return. `DpdkWorker`: the polling
loop and the main thread go on. `Telemetry`: weak fairness of the main thread as
a whole, not of any one of its tasks. No fairness is assumed of users, clients,
peers, drivers, signals, failures or the end of a profile.

## Findings

1. **Suspend after Set does nothing.** `suspend()` returns early when
   `suspended_at` is set, which it also is in manual mode. The gRPC API
   documents Suspend as suspending generation. The TUI never sends this sequence
   (`s` in manual mode sends Resume), a remote client can.
2. **The newest request is the one that is dropped.** The comment in
   `grpc/server.rs` says that the next event supersedes a dropped one; the
   one-place channel keeps the older event and `try_send` drops the newer, with
   no later event to supersede it.
3. **Stop does not end a run with an open TUI.** The rate loop ends and the
   engine drains, but `Runtime::run` waits in `ui.join()` and the ui thread does
   not read the run flag, while the API promises a shutdown as if the TUI had
   exited.
4. **Histogram buckets are accumulated twice.** `encode_histogram` computes for
   each bound the number of samples within it, and adds these numbers up again
   as it writes them. A bucket can exceed `+Inf`, and quantiles computed from the
   page are wrong.

Observations the models made plain, without a run of their own:

- A new connection of the HTTP engines inherits the budget of a lost one. The
  fields `requests_per_sock_left` (`http/engine.rs:182-185`) and
  `requests_per_sock_done` (`http/engine_raw.rs:137-140`) "must be reset when a
  new socket is created", but are renewed only when the budget is used up. The
  UDP worker, with the same comment, does reset its counter. `BudgetRespected`,
  an upper bound, shows that this only ever makes a connection shorter-lived.
- A raw HTTP connection is reused with the body of its last response unread, as
  a comment in `engine_raw.rs` says; `CleanReuse` leaves this engine out.
- With fewer jobs than threads a thread of the HTTP engines has no task and
  panics (`http/engine.rs:105`).
- A core without packets divides by zero (`dpdk.rs:589`), which aborts the
  process.
- At the end of a DPDK run reference counts are set to 1 while the ring may hold
  the same packet several times; the driver, closing, then returns it to its
  pool more than once. Packets received are never freed.
- A line of duration zero panics at start-up; the slope of a line is a whole
  number, so a line that rises by less than one request per second each second
  does not rise at all.
- The sampler's window ends before the last bursts do, so up to one burst per
  worker is in the totals and not in the window.
- After a remote stop with the TUI open the screen also freezes, because the
  consumer of the stream shares the blocked main thread: `Delivered` promises
  nothing once the run flag is cleared.
- `TcpStatMonitor` keeps a file descriptor's number beyond the descriptor's life.

## Proofs

Every invariant and every action property of the runs is proved, and so is the
safety part of the refinement: for every value of the constants, from the named
assumptions on them. Each inductive invariant below was checked by TLC before it
was proved.

**Arithmetic.** The models add up with `SumFunction` and `SumFunctionOnSet` of
the community module Functions, which are folds that pick elements by `CHOOSE`.
What the proofs need of them is that a sum over a finite set splits off any
element (`SumSplit`), and from that, how it changes with one term (`SumChange`,
`SumBump`) and how two sums compare (`SumMono`, `SumSame`). The installed provers
cannot instantiate the library's induction rules, which take an operator;
`NatInd` and `FiniteInd` state induction for a *set* closed under successor, or
under adding an element, and derive it from the pigeonhole facts about finite
sets. The fold itself is unrolled along the sequence of picked elements
(`IterationExists`, `IterationUnique`).

**RateControlProofs**, for every profile, duration, number of workers, set of
rates and bound:

- `TypeCorrect` proves `TypeOK` together with `ClockInv` (a pause begins in the
  past and pauses add up to no more than the time that has passed). Types alone
  are not inductive: the length of a pause is a natural number only because of
  `ClockInv`.
- `TornPass` and `NoEarlyEnd` are inductive relative to that; `NoEarlyEnd` needs
  in addition that a cleared flag was asked for or follows the exit.
- `SharesAddUp` is about the sum of the limits. `TornPass` says that outside a
  pass every limit is its share; the first `k` shares add up to `GivenTo(k, v)`
  (`GivenToNext`), which is the rate for `k = N`, and by `SumPartial` partial sums
  that are known determine the sum.
- `Refinement` maps every step to a step of `LoadProfile` or a stutter. The
  heart is `ApplyEventEffect`: no command moves `ElapsedOf`.
- `InterfaceRefines`: a step of the user interface is a step of the loop or of a
  client of it, so the loop's theorems, the refinement among them, hold for the
  composition (`InterfaceImplements`).
- `StatusLine`: a command that enters a channel appends to the composition of
  `After` what the key handler has already shown; forwarding moves a command
  from one stage to the next and leaves the composition as it is. The modes of
  the status line and of the generator are the same three-state machine.

**ShapedWorkerProofs** has one inductive invariant: types, the bucket's bound,
the ledger, `Covered` (the tokens of a burst stay in the bucket until it is
charged) and `Billed` (time is billed once, at no more than the peak limit).
`RateBound` follows from the ledger and `Billed` by monotonicity of
multiplication.

**ConnectionProofs** proves all safety invariants of Connection, for every
engine, finite set of tasks, budget and deviation, from one inductive invariant
`IInv`. `BudgetRespected` speaks of kept connections only, so `BudgetKept` adds
the one in hand and that a busy task has none in its field. `Accounting` counts
busy tasks, so `Ledger` adds the number of those that wait for an answer:
responses plus these are at most the requests counted, and requests at most
those settled plus these. `VerdictTrue` is `Ledger` with nobody busy. The counts
are cardinalities of finite sets that one step changes by one element (`Moves`).

**LifecycleProofs**: `GracefulExit` needs what is known at each join. `PoolInv`
(whom the pool has joined without leaving had ended well, and every thread
started has tasks), `MainInv` (what the main thread has behind it at each of its
places) and `SentInv`: what a run may still send after the window is the number
of requests in bursts that have begun, `NPending`, the size of a set of at most
`MaxBurst` places for each worker.

**DpdkWorkerProofs**: `BuffersKept` rests on `RefInv`, that a packet's references
plus the times it was sent since the refill are at least its copies in the ring
plus the rounds of a cycle and one spare. Copies in the ring are at most
`Ring <= Slack`, a burst does not cross the end of the packets, and a refill
comes exactly when the cycle is full (`CycleInv`): so before any transmission
something is left. `TimesSentNext` and its companions do the arithmetic of
rounds. The queues are distinct because the cores are named once (`NamesInv`).
`TokensRespected`, because a burst is the smallest of three numbers of which the
tokens are one.

**TelemetryProofs**, for every number of workers, histogram, set of page bounds
and channel capacity. The order in which cells are read is first established
once (`CellAt`, `SlotOf`, `CellOnce`, `ReadOrder`); then `IInv` has six parts:

- `BracketInv`: what has been read plus what the unread cells hold now lies
  between the total at the beginning and the total now. A count raises the
  total, and what is to come if its cell is unread; a read moves a cell from one
  to the other. With no cell unread it is `SnapshotBracketed`.
- `TravelInv`: values are ordered from the screen through the last snapshot
  stored, the channel and the snapshot to send to the beginning of the next
  snapshot. `NeverBack` follows: every hand-over goes up this order.
- `RecordInv`: a worker has recorded a latency for every answer counted but for
  the one it is at. `CoverInv`: answers read and to come are covered by the
  latencies read and *promised*, where a worker promises its answers until the
  reading of its histogram begins and its unread buckets from then on. The
  promise is kept at the first bucket by `RecordInv`, up to the worker caught in
  between; it needs that all answers are read before any histogram, which is
  `ReadOrder`. With everything read it is `LatenciesCover`.
- `BetweenInv` and `TypeOK`.

**ProfilesProofs**, for every set of profiles, clock unit and polling interval:
`ScheduleKept` proves `TypeOK` and `Schedule` together. The schedule is inductive
because a part ends at the first poll after its time: the poll before was within
it, so the overrun is at least 1 and at most `MaxGap`, and adds to what was late
before. `LinesFaithful` is the rounding of two truncating divisions, for rising
and falling lines; the last polled rate is kept by `RateInv`. `EndsInFull` adds
`DueInv`, that a track is due after exactly the sum of its parts so far; when it
is over that is its whole duration, and a track never ends before it is due.

Only model-checked: liveness (`StopHonoured`, `ExhaustedEnds`, `EventApplied`,
`SuspendTakesEffect`, `StopEnds`, `EveryRequestEnds`, `ShutdownCompletes`,
`Delivered` and the three of `Lifecycle`), because the prover does neither
fairness nor `ENABLED`; and the four violations, which are counterexamples.

## Abstractions

- `f64` rounding in the shaper, and the width of integers: the modelled code
  only divides a rate, it never adds to or multiplies one as an integer.
- Relaxed and SeqCst accesses are atomic steps in program order. Each shared
  word is independent of the others for the code that reads it.
- In RateControl a profile is a function of its own clock. Profiles shows what
  is behind it: parts are activated when polled, so that the table depends on
  the polls by at most one interval per part.
- A sine answers any rate of its range; phases and floating point are left out.
- Signals while the TUI runs, and remote clients besides the TUI in
  `TuiControl`, are left out.
- A worker thread of `Lifecycle` stands for its tasks. `MaxBurst` bounds what
  all of them together may still send between two looks at the flag: up to 32 for
  each task of an HTTP engine, which is `32 * TasksOf(w)`, and one second of its
  limit for a UDP worker. A panicking task is noticed when it is awaited, which is
  a later panic of the thread.
- Connection: payloads, bytes, latencies and TLS are left out; budgets that the
  code counts up are counted down. Telemetry: one counter of requests and one of
  answers stand for all counters, which are written and read alike. DpdkWorker:
  cores do not interact after start-up, so one of them is followed.

## Not modelled

Reading payloads, parsing the command line and configuration, layout and
logging, TLS set-up, the DPDK bindings and the test backend keep no state the
run depends on. The neighbour lookup over netlink, device capabilities, the
kernel's socket counters and the quantiles of the summary are I/O or arithmetic
for display.

## Plan

Done: all modules above, and proofs of all their safety properties. Left:
RateControl composed with shaped workers, the rate of the whole process against
the announced one, with the bound `RateBounded` of each worker summed over them.
