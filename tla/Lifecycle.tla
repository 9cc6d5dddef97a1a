------------------------------ MODULE Lifecycle ------------------------------
(***************************************************************************)
(* How a run starts and ends (dwd/src/runtime.rs, Runtime::run): the main  *)
(* thread with its single-threaded runtime, the engine thread and its pool *)
(* of worker threads (dwd-core/src/engine/runtime.rs), the summary thread  *)
(* (dwd-core/src/summary.rs), the ui thread and everybody who may clear    *)
(* the shared run flag.                                                    *)
(*                                                                         *)
(* The rate-control loop is what RateControl says of it: it ends when the  *)
(* flag is cleared or the profile is over.  A blocking join on the main    *)
(* thread stops its runtime, so no handler runs from there on.             *)
(***************************************************************************)
EXTENDS Integers, FiniteSets

CONSTANTS
  W,         \* number of worker threads
  MaxJobs,   \* bound: tasks of all threads (concurrency)
  MaxBurst,  \* most requests of a thread between two looks at the flag, the
             \* bursts of all its tasks (up to 32 each) taken together
  MaxSent    \* bound: requests of the whole run

ASSUME WAssumption == W \in Nat \ {0} /\ MaxJobs \in Nat \ {0}
ASSUME BurstAssumption == MaxBurst \in Nat /\ MaxSent \in Nat

Worker == 1..W

VARIABLES
  no_ui,       \* configuration: headless
  grpc,        \* configuration: a remote client can reach the Control handler
  mode,        \* configuration: the engine
  tls,         \* configuration: the target is reached over TLS
  jobs,        \* configuration: tasks of all threads together
  main,        \* position of the main thread
  is_running,  \* the shared run flag
  ui,          \* the ui thread
  engine,      \* the engine thread
  spawned,     \* worker threads the pool has started
  joined,      \* worker threads the pool has joined
  worker,      \* each worker thread
  left,        \* requests left in each worker's current burst
  sampler,     \* the summary thread
  prev,        \* requests at its last sample
  window,      \* history: requests when it saw the end of the load
  sent,        \* requests counted by the workers
  reported,    \* requests in the final report
  stopAsked    \* history: a remote client asked for a stop

config   == <<no_ui, grpc, mode, tls, jobs>>
samples  == <<prev, window>>
poolVars == <<spawned, joined, worker, left, sent>>
vars == <<config, main, is_running, ui, engine, poolVars, sampler, samples, reported, stopAsked>>

\* The process exits with main, taking every other thread with it.
Exited == main \in {"ok", "err"}
Running == ~Exited
Over(w) == worker[w] \in {"ended", "failed", "panicked"}

\* Engine::new() of the three HTTP engines: task i goes to thread i % threads.
Dealt(w) == Cardinality({i \in 0..(jobs - 1) : i % W = w - 1})

\* Engine::new() of the UDP engine: every thread is one worker.
OnePerThread(w) == 1

TasksOf(w) == IF mode = "udp" THEN OnePerThread(w) ELSE Dealt(w)

\* An HTTP/3 target is always reached over TLS, a UDP target never.
TlsOf(m) == CASE m = "http3" -> {TRUE} [] m = "udp" -> {FALSE} [] OTHER -> BOOLEAN

\* The UDP engine has no number of tasks to configure.
JobsOf(m) == IF m = "udp" THEN {0} ELSE 1..MaxJobs

Init ==
  /\ no_ui \in BOOLEAN
  /\ grpc \in BOOLEAN
  /\ mode \in {"http", "raw", "http3", "udp"}
  /\ tls \in TlsOf(mode)
  /\ jobs \in JobsOf(mode)
  /\ main = "boot"
  /\ is_running = TRUE
  /\ ui = "none"
  /\ engine = "none"
  /\ spawned = 0
  /\ joined = 0
  /\ worker = [w \in Worker |-> "none"]
  /\ left = [w \in Worker |-> 0]
  /\ sampler = "none"
  /\ prev = 0
  /\ window = 0
  /\ sent = 0
  /\ reported = 0
  /\ stopAsked = FALSE

(***************************************************************************)
(* The main thread.                                                        *)
(***************************************************************************)

\* engine::build, serve_tcp and the in-process client: a bad address or device
\* fails the run at once.
Boot ==
  /\ main = "boot"
  /\ main' \in {"seam", "err"}
  /\ UNCHANGED <<config, is_running, ui, engine, poolVars, sampler, reported, samples, stopAsked>>

\* The summary, engine and ui threads are started; the generator is created,
\* which fails for a profile that has no solution.
Spawn ==
  /\ main = "seam"
  /\ sampler' = "sampling"
  /\ engine' = "starting"
  /\ ui' = IF no_ui THEN "none" ELSE "running"
  /\ main' \in {"loop", "err"}
  /\ UNCHANGED <<config, is_running, poolVars, reported, samples, stopAsked>>

\* run_generator returns: the flag was cleared, or the profile is over.
AfterLoop == IF no_ui THEN "joinEngine" ELSE "joinUi"

LoopStopped ==
  /\ main = "loop"
  /\ ~is_running
  /\ main' = AfterLoop
  /\ UNCHANGED <<config, is_running, ui, engine, poolVars, sampler, reported, samples, stopAsked>>

ProfileOverKeepsFlag ==
  /\ main = "loop"
  /\ main' = AfterLoop
  /\ UNCHANGED <<config, is_running, ui, engine, poolVars, sampler, reported, samples, stopAsked>>

ProfileOver ==
  /\ main = "loop"
  /\ is_running' = FALSE
  /\ main' = AfterLoop
  /\ UNCHANGED <<config, ui, engine, poolVars, sampler, reported, samples, stopAsked>>

\* ui.join().expect(..).unwrap(): an error of the ui is a panic here.
JoinUi ==
  /\ main = "joinUi"
  /\ ui \in {"exited", "failed"}
  /\ main' = IF ui = "exited" THEN "joinEngine" ELSE "err"
  /\ UNCHANGED <<config, is_running, ui, engine, poolVars, sampler, reported, samples, stopAsked>>

\* engine.join().expect(..)?: an error or a panic of the engine ends the run.
JoinEngineDetached ==
  /\ main = "joinEngine"
  /\ main' = "joinSummary"
  /\ UNCHANGED <<config, is_running, ui, engine, poolVars, sampler, reported, samples, stopAsked>>

JoinEngine ==
  /\ main = "joinEngine"
  /\ engine \in {"ok", "err", "panicked"}
  /\ main' = IF engine = "ok" THEN "joinSummary" ELSE "err"
  /\ UNCHANGED <<config, is_running, ui, engine, poolVars, sampler, reported, samples, stopAsked>>

\* summary.finish(): joins the sampler and takes the final snapshot.
Finish ==
  /\ main = "joinSummary"
  /\ sampler = "stopped"
  /\ reported' = sent
  /\ main' = "report"
  /\ UNCHANGED <<config, is_running, ui, engine, poolVars, sampler, samples, stopAsked>>

\* The report is logged, the servers are aborted and the process exits.
Return ==
  /\ main = "report"
  /\ main' = "ok"
  /\ UNCHANGED <<config, is_running, ui, engine, poolVars, sampler, reported, samples, stopAsked>>

Main == Boot \/ Spawn \/ LoopStopped \/ JoinUi \/ JoinEngine \/ Finish \/ Return

(***************************************************************************)
(* Who stops a run.                                                        *)
(***************************************************************************)

\* The Control handler with Stop; a task of the main thread's runtime, which
\* runs while the loop sleeps and, ahead of it, while the in-process client of
\* the user interface awaits its description.
ControlStop ==
  /\ grpc
  /\ main = "loop" \/ (main = "seam" /\ ~no_ui)
  /\ is_running' = FALSE
  /\ stopAsked' = TRUE
  /\ UNCHANGED <<config, main, ui, engine, poolVars, sampler, reported, samples>>

\* SIGINT or SIGTERM: a handler is installed in headless runs only.
Signal ==
  /\ no_ui
  /\ main = "loop"
  /\ is_running' = FALSE
  /\ UNCHANGED <<config, main, ui, engine, poolVars, sampler, reported, samples, stopAsked>>

\* The user quits, or the terminal fails; either way the flag is cleared.
UiExitsKeepsFlag ==
  /\ Running
  /\ ui = "running"
  /\ ui' \in {"exited", "failed"}
  /\ UNCHANGED <<config, main, is_running, engine, poolVars, sampler, reported, samples, stopAsked>>

UiExits ==
  /\ Running
  /\ ui = "running"
  /\ ui' \in {"exited", "failed"}
  /\ is_running' = FALSE
  /\ UNCHANGED <<config, main, engine, poolVars, sampler, reported, samples, stopAsked>>

(***************************************************************************)
(* The engine thread: a pool that starts its workers one by one and joins  *)
(* them in the same order.                                                 *)
(***************************************************************************)

\* Engine::run of each engine: what it sets up before it hands the factory of
\* its workers to the pool decides whether it may refuse to run.
EngineStarting(m, outcomes) ==
  /\ Running
  /\ mode = m
  /\ engine = "starting"
  /\ engine' \in outcomes
  /\ UNCHANGED <<config, main, is_running, ui, poolVars, sampler, reported, samples, stopAsked>>

\* HTTP: the connector of a TLS target, built once, may fail.
EngineStartHttp == EngineStarting("http", IF tls THEN {"spawning", "err"} ELSE {"spawning"})

\* Raw HTTP: a TLS target is refused.
EngineStartRaw == EngineStarting("raw", IF tls THEN {"err"} ELSE {"spawning"})

\* HTTP/3: the QUIC client configuration may be refused.
EngineStartHttp3 == EngineStarting("http3", {"spawning", "err"})

\* UDP: nothing to set up.
EngineStartUdp == EngineStarting("udp", {"spawning"})

EngineStart == EngineStartHttp \/ EngineStartRaw \/ EngineStartHttp3 \/ EngineStartUdp

\* The next worker thread; a factory that panics, for a thread without tasks,
\* or a thread that cannot be started leaves the others to themselves.
SpawnWorker ==
  /\ Running
  /\ engine = "spawning"
  /\ spawned < W
  /\ \/ /\ TasksOf(spawned + 1) > 0
        /\ spawned' = spawned + 1
        /\ worker' = [worker EXCEPT ![spawned + 1] = "starting"]
        /\ UNCHANGED engine
     \/ /\ engine' = IF TasksOf(spawned + 1) > 0 THEN "err" ELSE "panicked"
        /\ UNCHANGED <<spawned, worker>>
  /\ UNCHANGED <<config, main, is_running, ui, joined, left, sent, sampler, reported, samples, stopAsked>>

\* Joins are made in order, after the last start; the first failure is
\* returned, with the workers behind it not joined.
JoinWorker ==
  /\ Running
  /\ engine = "spawning"
  /\ spawned = W
  /\ joined < W
  /\ Over(joined + 1)
  /\ joined' = joined + 1
  /\ engine' = CASE worker[joined + 1] = "ended"    -> IF joined + 1 = W THEN "ok" ELSE engine
                 [] worker[joined + 1] = "failed"   -> "err"
                 [] worker[joined + 1] = "panicked" -> "panicked"
  /\ UNCHANGED <<config, main, is_running, ui, spawned, worker, left, sent, sampler, reported, samples, stopAsked>>

Engine == EngineStart \/ SpawnWorker \/ JoinWorker

(***************************************************************************)
(* A worker thread looks at the flag, then performs a whole burst.  The    *)
(* tasks of a thread are one unit: their bursts overlap, and `left' is     *)
(* what remains of them together.                                          *)
(***************************************************************************)
\* The thread builds the runtime of its tasks, which may fail; a UDP worker needs
\* none.
StartWorker(w) ==
  /\ Running
  /\ worker[w] = "starting"
  /\ \E s \in {"running"} \cup (IF mode = "udp" THEN {} ELSE {"failed"}) :
       worker' = [worker EXCEPT ![w] = s]
  /\ UNCHANGED <<config, main, is_running, ui, engine, spawned, joined, left, sent, sampler, reported, samples, stopAsked>>

LookIgnoresFlag(w) ==
  /\ Running
  /\ worker[w] = "running"
  /\ left[w] = 0
  /\ \E n \in 1..MaxBurst : sent + n <= MaxSent /\ left' = [left EXCEPT ![w] = n]
  /\ UNCHANGED <<config, main, is_running, ui, engine, spawned, joined, worker, sent, sampler, reported, samples, stopAsked>>

LookOffByOne(w) ==
  /\ Running
  /\ worker[w] = "running"
  /\ left[w] = 0
  /\ is_running
  /\ \E n \in 1..(MaxBurst + 1) : sent + n <= MaxSent /\ left' = [left EXCEPT ![w] = n]
  /\ UNCHANGED <<config, main, is_running, ui, engine, spawned, joined, worker, sent, sampler, reported, samples, stopAsked>>

Look(w) ==
  /\ Running
  /\ worker[w] = "running"
  /\ left[w] = 0
  /\ IF is_running
     THEN /\ \E n \in 1..MaxBurst : sent + n <= MaxSent /\ left' = [left EXCEPT ![w] = n]
          /\ UNCHANGED worker
     ELSE /\ worker' = [worker EXCEPT ![w] = "ended"]
          /\ UNCHANGED left
  /\ UNCHANGED <<config, main, is_running, ui, engine, spawned, joined, sent, sampler, reported, samples, stopAsked>>

\* One request, whatever its outcome, ends: it is sent, fails or times out.
Execute(w) ==
  /\ Running
  /\ worker[w] = "running"
  /\ left[w] > 0
  /\ left' = [left EXCEPT ![w] = @ - 1]
  /\ sent' = sent + 1
  /\ UNCHANGED <<config, main, is_running, ui, engine, spawned, joined, worker, sampler, reported, samples, stopAsked>>

\* A task of the worker panics, in a burst or between two.
WorkerPanics(w) ==
  /\ Running
  /\ worker[w] = "running"
  /\ worker' = [worker EXCEPT ![w] = "panicked"]
  /\ UNCHANGED <<config, main, is_running, ui, engine, spawned, joined, left, sent, sampler, reported, samples, stopAsked>>

\* The summary thread: a sample of the counters now and then, and a look at
\* the flag in between.  The moment it sees the flag cleared ends the load
\* window over which the report averages.
Sample ==
  /\ Running
  /\ sampler = "sampling"
  /\ prev' = sent
  /\ UNCHANGED <<config, main, is_running, ui, engine, poolVars, sampler, window, reported, stopAsked>>

SamplerStops ==
  /\ Running
  /\ sampler = "sampling"
  /\ ~is_running
  /\ sampler' = "stopped"
  /\ window' = sent
  /\ UNCHANGED <<config, main, is_running, ui, engine, poolVars, prev, reported, stopAsked>>

Next ==
  \/ Main \/ ProfileOver
  \/ ControlStop \/ Signal \/ UiExits
  \/ Engine
  \/ \E w \in Worker : StartWorker(w) \/ Look(w) \/ Execute(w) \/ WorkerPanics(w)
  \/ Sample \/ SamplerStops

\* Threads are scheduled and every request ends; the profile may be endless,
\* and no user, client or signal has to come.
Spec ==
  /\ Init /\ [][Next]_vars
  /\ WF_vars(Main)
  /\ WF_vars(Engine)
  /\ \A w \in Worker : WF_vars(StartWorker(w) \/ Look(w) \/ Execute(w))
  /\ WF_vars(SamplerStops)

(***************************************************************************)
(* Properties.                                                             *)
(***************************************************************************)

\* Every thread is at a position of its program.
TypeOK ==
  /\ no_ui \in BOOLEAN /\ grpc \in BOOLEAN
  /\ mode \in {"http", "raw", "http3", "udp"} /\ tls \in TlsOf(mode) /\ jobs \in JobsOf(mode)
  /\ main \in {"boot", "seam", "loop", "joinUi", "joinEngine", "joinSummary", "report", "ok", "err"}
  /\ is_running \in BOOLEAN
  /\ ui \in {"none", "running", "exited", "failed"}
  /\ engine \in {"none", "starting", "spawning", "ok", "err", "panicked"}
  /\ spawned \in 0..W /\ joined \in 0..spawned
  /\ worker \in [Worker -> {"none", "starting", "running", "ended", "failed", "panicked"}]
  /\ left \in [Worker -> 0..MaxBurst]
  /\ sampler \in {"none", "sampling", "stopped"}
  /\ prev \in Nat /\ window \in Nat
  /\ sent \in 0..(MaxSent + W * MaxBurst) /\ reported \in Nat
  /\ stopAsked \in BOOLEAN

\* A run that ends without an error was shut down gracefully: nobody was cut
\* off by the exit of the process, no failure of a worker was swallowed on its
\* way through the two joins, no thread was without tasks, and the report
\* counts every request.  Its average divides them by the load window, which
\* ends before the last bursts do: at most one burst of every worker is counted
\* beyond it, and the sampled rates never account for requests outside it
\* (Runtime::run, ThreadPool::run, Recorder::finish, Sampler::run).
CleanExit ==
  main = "ok" =>
    /\ \A w \in Worker : worker[w] = "ended"
    /\ engine = "ok"
    /\ ui \in {"none", "exited"}
    /\ sampler = "stopped"
    /\ reported = sent
    /\ \A w \in Worker : TasksOf(w) > 0
    /\ prev <= window /\ reported - window <= W * MaxBurst

\* README, --no-ui: "the load runs until the profile is exhausted or the
\* process receives SIGINT (Ctrl-C) or SIGTERM, then shuts down gracefully".
HeadlessStopEnds == (no_ui /\ ~is_running) ~> Exited

\* Leaving the user interface ends the process, whatever the threads are doing.
QuitEnds == ui \in {"exited", "failed"} ~> Exited

\* Once the rate-control loop is over the workers drain, also behind a user
\* interface that stays open.
LoopOverDrains ==
  main \in {"joinUi", "joinEngine"}
    ~> (Exited \/ \A w \in Worker : worker[w] = "none" \/ Over(w))

\* dwd.proto, StopControl: "the engine drains and the process shuts down
\* gracefully, exactly as if the TUI had exited or SIGTERM was received".
StopShutsDown == stopAsked ~> Exited
==============================================================================
