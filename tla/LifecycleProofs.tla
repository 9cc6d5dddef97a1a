--------------------------- MODULE LifecycleProofs ---------------------------
(***************************************************************************)
(* Proofs about the start and the end of a run, for any number of worker   *)
(* threads, any number of tasks and any size of burst.                     *)
(***************************************************************************)
EXTENDS Lifecycle, FiniteSetTheorems, TLAPS

(***************************************************************************)
(* The requests still to be performed in the bursts that have begun, as a  *)
(* set, so that they can be counted without a sum.                         *)
(***************************************************************************)
Pending == {p \in Worker \X (1..MaxBurst) : p[2] <= left[p[1]]}
NPending == Cardinality(Pending)

\* What the run may send, and what may be sent once the load window has ended.
SentInv ==
  /\ sent + NPending <= MaxSent + W * MaxBurst
  /\ sampler # "stopped" => prev <= sent
  /\ sampler = "stopped" =>
       /\ ~is_running
       /\ prev <= window
       /\ window <= sent
       /\ sent - window + NPending <= W * MaxBurst

\* Every thread started has tasks, and whom the pool has joined without leaving
\* had ended well.
PoolInv ==
  /\ \A w \in Worker : w <= spawned => TasksOf(w) > 0
  /\ engine \in {"none", "starting"} => joined = 0
  /\ engine \in {"spawning", "ok"} => \A w \in Worker : w <= joined => worker[w] = "ended"
  /\ engine = "ok" => joined = W

\* What the main thread knows at each of its joins.
MainInv ==
  /\ main \in {"boot", "seam"} => engine = "none" /\ ui = "none"
  /\ no_ui => ui = "none"
  /\ main \in {"joinEngine", "joinSummary", "report", "ok"} => ui \in {"none", "exited"}
  /\ main \in {"joinSummary", "report", "ok"} => engine = "ok"
  /\ main \in {"report", "ok"} => sampler = "stopped" /\ reported = sent

IInv == TypeOK /\ SentInv /\ PoolInv /\ MainInv

\* At most one burst of every worker is under way.
LEMMA PendingBounded ==
  /\ IsFiniteSet(Pending)
  /\ NPending \in Nat
  /\ NPending <= W * MaxBurst
<1>1. /\ IsFiniteSet(Worker) /\ Cardinality(Worker) = W
      /\ IsFiniteSet(1..MaxBurst) /\ Cardinality(1..MaxBurst) = MaxBurst
  <2>1. W \in Nat /\ MaxBurst \in Nat
    BY WAssumption, BurstAssumption
  <2> QED BY <2>1, FS_Interval DEF Worker
<1>2. /\ IsFiniteSet(Worker \X (1..MaxBurst))
      /\ Cardinality(Worker \X (1..MaxBurst)) = W * MaxBurst
  BY <1>1, FS_Product
<1>3. Pending \subseteq Worker \X (1..MaxBurst)
  BY DEF Pending
<1> QED BY <1>2, <1>3, FS_Subset, FS_CardinalityType DEF NPending

\* A step that touches no burst leaves their requests where they are.
LEMMA PendingFixed == UNCHANGED left => NPending' = NPending
BY DEF NPending, Pending

\* A request performed is one less to perform.
LEMMA PendingExecuted ==
  ASSUME TypeOK, NEW w \in Worker, Execute(w)
  PROVE  NPending' = NPending - 1
<1> DEFINE p == <<w, left[w]>>
<1>1. left[w] \in 1..MaxBurst /\ left' = [left EXCEPT ![w] = left[w] - 1]
  BY DEF TypeOK, Execute
<1>2. p \in Pending
  BY <1>1 DEF Pending
<1>3. Pending' = Pending \ {p}
  <2>1. ASSUME NEW u \in Worker, NEW k \in 1..MaxBurst
        PROVE  k <= left'[u] <=> (k <= left[u] /\ <<u, k>> # p)
    BY <1>1 DEF TypeOK
  <2>2. \A q \in Worker \X (1..MaxBurst) : q \in Pending' <=> q \in Pending \ {p}
    BY <2>1 DEF Pending
  <2> QED BY <2>2 DEF Pending
<1> QED BY <1>2, <1>3, PendingBounded, FS_RemoveElement DEF NPending

\* The configuration of a run never changes, and with it the split of its tasks.
LEMMA ConfigFixed ==
  ASSUME [Next]_vars
  PROVE  UNCHANGED config /\ \A w \in Worker : TasksOf(w)' = TasksOf(w)
<1>1. UNCHANGED config
  BY DEF Next, vars, Main, Boot, Spawn, LoopStopped, JoinUi, JoinEngine, Finish, Return,
     ProfileOver, ControlStop, Signal, UiExits, Engine, EngineStart, EngineStartHttp, EngineStartRaw, EngineStartHttp3,
     EngineStartUdp, EngineStarting, SpawnWorker, JoinWorker,
     StartWorker, Look, Execute, WorkerPanics, Sample, SamplerStops
<1>2. jobs' = jobs /\ mode' = mode
  BY <1>1 DEF config
<1> QED BY <1>1, <1>2 DEF TasksOf, Dealt, OnePerThread

\* The run flag is never set again.
LEMMA FlagFalls ==
  ASSUME [Next]_vars, ~is_running
  PROVE  ~is_running'
BY DEF Next, vars, Main, Boot, Spawn, LoopStopped, JoinUi, JoinEngine, Finish, Return,
     ProfileOver, ControlStop, Signal, UiExits, Engine, EngineStart, EngineStartHttp, EngineStartRaw, EngineStartHttp3,
     EngineStartUdp, EngineStarting, SpawnWorker, JoinWorker,
     StartWorker, Look, Execute, WorkerPanics, Sample, SamplerStops

\* Requests in flight are bounded, before and after the load window ends.
LEMMA StepSent == TypeOK /\ SentInv /\ [Next]_vars => SentInv'
<1> SUFFICES ASSUME TypeOK, SentInv, [Next]_vars
             PROVE  SentInv'
  OBVIOUS
<1>b. /\ W * MaxBurst \in Nat /\ MaxSent \in Nat
      /\ sent \in Nat /\ prev \in Nat /\ window \in Nat
      /\ NPending \in Nat /\ NPending <= W * MaxBurst
  BY PendingBounded, WAssumption, BurstAssumption DEF TypeOK
<1>c. NPending' \in Nat /\ NPending' <= W * MaxBurst
  <2>1. (NPending \in Nat /\ NPending <= W * MaxBurst)'
    BY PendingBounded, PTL
  <2> QED BY <2>1
<1> DEFINE quiet == <<left, sent, prev, window, sampler>>
<1>1. CASE UNCHANGED quiet
  BY <1>1, <1>b, PendingFixed, FlagFalls DEF SentInv
<1>2. CASE Main \/ ProfileOver
  <2>1. CASE Spawn
    BY <2>1, <1>b, PendingFixed DEF Spawn, SentInv, poolVars, samples
  <2>2. CASE ~Spawn
    BY <1>1, <1>2, <2>2 DEF Main, Boot, LoopStopped, JoinUi, JoinEngine, Finish, Return,
       ProfileOver, poolVars, samples
  <2> QED BY <2>1, <2>2
<1>3. CASE ControlStop \/ Signal \/ UiExits
  BY <1>1, <1>3 DEF ControlStop, Signal, UiExits, poolVars, samples
<1>4. CASE Engine
  BY <1>1, <1>4 DEF Engine, EngineStart, EngineStartHttp, EngineStartRaw, EngineStartHttp3,
     EngineStartUdp, EngineStarting, SpawnWorker, JoinWorker, poolVars, samples
<1>5. ASSUME NEW w \in Worker, StartWorker(w) \/ WorkerPanics(w)
      PROVE  SentInv'
  BY <1>1, <1>5 DEF StartWorker, WorkerPanics, samples
<1>6. ASSUME NEW w \in Worker, Look(w)
      PROVE  SentInv'
  <2>1. CASE is_running
    <3>1. UNCHANGED <<sent, prev, window, sampler>> /\ sent <= MaxSent
      BY <1>6, <2>1, <1>b DEF Look, samples
    <3> QED BY <2>1, <3>1, <1>b, <1>c DEF SentInv
  <2>2. CASE ~is_running
    BY <1>1, <1>6, <2>2 DEF Look, samples
  <2> QED BY <2>1, <2>2
<1>7. ASSUME NEW w \in Worker, Execute(w)
      PROVE  SentInv'
  <2>1. sent' = sent + 1 /\ UNCHANGED <<prev, window, sampler, is_running>>
    BY <1>7 DEF Execute, samples
  <2> QED BY <1>7, <2>1, <1>b, PendingExecuted DEF SentInv
<1>8. CASE Sample
  BY <1>8, <1>b, PendingFixed DEF Sample, SentInv, poolVars
<1>9. CASE SamplerStops
  BY <1>9, <1>b, PendingFixed DEF SamplerStops, SentInv, poolVars
<1>10. CASE UNCHANGED vars
  BY <1>1, <1>10 DEF vars, poolVars, samples
<1> QED
  BY <1>2, <1>3, <1>4, <1>5, <1>6, <1>7, <1>8, <1>9, <1>10 DEF Next

\* The pool joins in order, and a worker that has ended stays so.
LEMMA StepPool == TypeOK /\ PoolInv /\ MainInv /\ [Next]_vars => PoolInv'
<1> SUFFICES ASSUME TypeOK, PoolInv, MainInv, [Next]_vars
             PROVE  PoolInv'
  OBVIOUS
<1>b. W \in Nat /\ spawned \in Nat /\ joined \in Nat /\ joined <= spawned /\ spawned <= W
  BY WAssumption DEF TypeOK
<1>c. \A w \in Worker : TasksOf(w)' = TasksOf(w)
  BY ConfigFixed
<1>1. CASE UNCHANGED <<engine, spawned, joined, worker>>
  BY <1>1, <1>c DEF PoolInv
<1>2. CASE Main \/ ProfileOver
  <2>1. CASE Spawn
    BY <2>1, <1>c DEF Spawn, PoolInv, MainInv, poolVars
  <2>2. CASE ~Spawn
    BY <1>1, <1>2, <2>2 DEF Main, Boot, LoopStopped, JoinUi, JoinEngine, Finish, Return,
       ProfileOver, poolVars
  <2> QED BY <2>1, <2>2
<1>3. CASE ControlStop \/ Signal \/ UiExits
  BY <1>1, <1>3 DEF ControlStop, Signal, UiExits, poolVars
<1>4. CASE EngineStart
  BY <1>4, <1>b, <1>c DEF EngineStart, EngineStartHttp, EngineStartRaw, EngineStartHttp3,
     EngineStartUdp, EngineStarting, PoolInv, poolVars, Worker
<1>5. CASE SpawnWorker
  <2>1. engine = "spawning" /\ joined' = joined
    BY <1>5 DEF SpawnWorker
  <2>2. CASE spawned' = spawned + 1 /\ TasksOf(spawned + 1) > 0
             /\ worker' = [worker EXCEPT ![spawned + 1] = "starting"] /\ engine' = engine
    <3>1. \A w \in Worker : w <= spawned' => TasksOf(w)' > 0
      BY <2>2, <1>b, <1>c DEF PoolInv, Worker
    <3>2. \A w \in Worker : w <= joined => worker'[w] = worker[w]
      BY <2>2, <1>b DEF TypeOK, Worker
    <3> QED BY <2>1, <2>2, <3>1, <3>2 DEF PoolInv
  <2>3. CASE engine' \in {"err", "panicked"} /\ UNCHANGED <<spawned, worker>>
    BY <2>1, <2>3, <1>c DEF PoolInv
  <2> QED BY <1>5, <2>2, <2>3 DEF SpawnWorker
<1>6. CASE JoinWorker
  <2>1. /\ engine = "spawning" /\ joined < W /\ Over(joined + 1)
        /\ joined' = joined + 1 /\ UNCHANGED <<spawned, worker>>
    BY <1>6 DEF JoinWorker
  <2>2. CASE worker[joined + 1] = "ended"
    <3>1. engine' = IF joined + 1 = W THEN "ok" ELSE engine
      BY <1>6, <2>2 DEF JoinWorker
    <3>2. \A w \in Worker : w <= joined' => worker'[w] = "ended"
      BY <2>1, <2>2, <1>b DEF PoolInv, Worker
    <3> QED BY <2>1, <3>1, <3>2, <1>b, <1>c DEF PoolInv
  <2>3. CASE worker[joined + 1] \in {"failed", "panicked"}
    <3>1. engine' \in {"err", "panicked"}
      BY <1>6, <2>3 DEF JoinWorker
    <3> QED BY <2>1, <3>1, <1>c DEF PoolInv
  <2> QED BY <2>1, <2>2, <2>3 DEF Over
<1>7. ASSUME NEW w \in Worker, StartWorker(w) \/ Look(w) \/ Execute(w) \/ WorkerPanics(w)
      PROVE  PoolInv'
  <2>1. UNCHANGED <<engine, spawned, joined>>
    BY <1>7 DEF StartWorker, Look, Execute, WorkerPanics
  <2>2. \A u \in Worker : worker[u] = "ended" => worker'[u] = "ended"
    BY <1>7 DEF StartWorker, Look, Execute, WorkerPanics, TypeOK
  <2> QED BY <2>1, <2>2, <1>c DEF PoolInv
<1>8. CASE Sample \/ SamplerStops
  BY <1>1, <1>8 DEF Sample, SamplerStops, poolVars
<1>9. CASE UNCHANGED vars
  BY <1>1, <1>9 DEF vars, poolVars
<1> QED
  BY <1>2, <1>3, <1>4, <1>5, <1>6, <1>7, <1>8, <1>9 DEF Next, Engine

\* What the main thread has joined stays joined, and what it has reported stays
\* complete: behind the engine's join nobody sends any more.
LEMMA StepMain == TypeOK /\ PoolInv /\ MainInv /\ [Next]_vars => MainInv'
<1> SUFFICES ASSUME TypeOK, PoolInv, MainInv, [Next]_vars
             PROVE  MainInv'
  OBVIOUS
<1> USE DEF MainInv
<1>c. UNCHANGED no_ui
  BY ConfigFixed DEF config
<1>d. engine = "ok" => \A w \in Worker : worker[w] = "ended"
  BY WAssumption DEF PoolInv, Worker
<1>1. CASE UNCHANGED <<main, ui, engine, sampler, sent, reported>>
  BY <1>1, <1>c
<1>2. CASE Boot \/ Spawn \/ LoopStopped \/ ProfileOver \/ JoinUi
  BY <1>2, <1>c DEF Boot, Spawn, LoopStopped, ProfileOver, JoinUi, AfterLoop, TypeOK
<1>3. CASE JoinEngine \/ Finish \/ Return
  BY <1>3, <1>c DEF JoinEngine, Finish, Return, poolVars
<1>4. CASE ControlStop \/ Signal
  BY <1>1, <1>4 DEF ControlStop, Signal, poolVars
<1>5. CASE UiExits
  BY <1>5, <1>c DEF UiExits, poolVars
<1>6. CASE Engine
  BY <1>6, <1>c DEF Engine, EngineStart, EngineStartHttp, EngineStartRaw, EngineStartHttp3,
     EngineStartUdp, EngineStarting, SpawnWorker, JoinWorker, poolVars
<1>7. ASSUME NEW w \in Worker, StartWorker(w) \/ Look(w) \/ WorkerPanics(w)
      PROVE  MainInv'
  BY <1>1, <1>7 DEF StartWorker, Look, WorkerPanics
<1>8. ASSUME NEW w \in Worker, Execute(w)
      PROVE  MainInv'
  <2>1. engine # "ok"
    BY <1>8, <1>d DEF Execute
  <2>2. UNCHANGED <<main, ui, engine, sampler, reported>>
    BY <1>8 DEF Execute
  <2> QED BY <2>1, <2>2, <1>c
<1>9. CASE Sample \/ SamplerStops
  BY <1>9, <1>c DEF Sample, SamplerStops, poolVars
<1>10. CASE UNCHANGED vars
  BY <1>1, <1>10 DEF vars, poolVars
<1> QED
  BY <1>2, <1>3, <1>4, <1>5, <1>6, <1>7, <1>8, <1>9, <1>10 DEF Next, Main

\* No thread leaves its program, and the run sends no more than its bound and
\* the bursts that had begun.
LEMMA StepType == TypeOK /\ SentInv /\ [Next]_vars => TypeOK'
<1> SUFFICES ASSUME TypeOK, SentInv, [Next]_vars
             PROVE  TypeOK'
  OBVIOUS
<1> USE DEF TypeOK
<1>a. SentInv'
  BY StepSent
<1>b. W \in Nat /\ MaxBurst \in Nat /\ W * MaxBurst \in Nat /\ MaxSent \in Nat
  BY WAssumption, BurstAssumption
<1>c. NPending' \in Nat
  <2>1. (NPending \in Nat)'
    BY PendingBounded, PTL
  <2> QED BY <2>1
<1>1. UNCHANGED config
  BY ConfigFixed
<1>2. CASE Main \/ ProfileOver
  <2>1. UNCHANGED <<spawned, joined, worker, left, sent, prev, window, stopAsked>>
    BY <1>2 DEF Main, Boot, Spawn, LoopStopped, JoinUi, JoinEngine, Finish, Return,
       ProfileOver, poolVars, samples
  <2>2. reported' \in Nat
    BY <1>2, <1>b DEF Main, Boot, Spawn, LoopStopped, JoinUi, JoinEngine, Finish, Return,
       ProfileOver
  <2>3. main' \in {"boot", "seam", "loop", "joinUi", "joinEngine", "joinSummary",
                   "report", "ok", "err"}
    BY <1>2 DEF Main, Boot, Spawn, LoopStopped, JoinUi, JoinEngine, Finish, Return,
       ProfileOver, AfterLoop
  <2>4. /\ is_running' \in BOOLEAN
        /\ ui' \in {"none", "running", "exited", "failed"}
        /\ engine' \in {"none", "starting", "spawning", "ok", "err", "panicked"}
        /\ sampler' \in {"none", "sampling", "stopped"}
    BY <1>2 DEF Main, Boot, Spawn, LoopStopped, JoinUi, JoinEngine, Finish, Return,
       ProfileOver
  <2> QED BY <1>1, <2>1, <2>2, <2>3, <2>4 DEF config
<1>3. CASE ControlStop \/ Signal \/ UiExits
  <2>1. /\ UNCHANGED <<main, engine, spawned, joined, worker, left, sent, sampler, prev,
                       window, reported>>
        /\ is_running' = FALSE
    BY <1>3 DEF ControlStop, Signal, UiExits, poolVars, samples
  <2>2. stopAsked' \in BOOLEAN /\ ui' \in {"none", "running", "exited", "failed"}
    BY <1>3 DEF ControlStop, Signal, UiExits
  <2> QED BY <1>1, <2>1, <2>2 DEF config
<1>4. CASE EngineStart
  BY <1>1, <1>4 DEF EngineStart, EngineStartHttp, EngineStartRaw, EngineStartHttp3,
     EngineStartUdp, EngineStarting, config, poolVars, samples
<1>5. CASE SpawnWorker
  BY <1>1, <1>5, <1>b DEF SpawnWorker, config, samples
<1>6. CASE JoinWorker
  <2>1. engine' \in {"spawning", "ok", "err", "panicked"}
    BY <1>6 DEF JoinWorker, Over
  <2>2. joined' \in 0..spawned
    BY <1>6, <1>b DEF JoinWorker
  <2>3. UNCHANGED <<config, main, is_running, ui, spawned, worker, left, sent, sampler,
                    reported, samples, stopAsked>>
    BY <1>6 DEF JoinWorker
  <2> QED BY <2>1, <2>2, <2>3 DEF config, samples
<1>7. ASSUME NEW w \in Worker, StartWorker(w) \/ WorkerPanics(w)
      PROVE  TypeOK'
  BY <1>1, <1>7 DEF StartWorker, WorkerPanics, config, samples
<1>8. ASSUME NEW w \in Worker, Look(w)
      PROVE  TypeOK'
  BY <1>1, <1>8, <1>b DEF Look, config, samples
<1>9. ASSUME NEW w \in Worker, Execute(w)
      PROVE  TypeOK'
  <2>1. sent' \in 0..(MaxSent + W * MaxBurst)
    <3>1. sent' \in Nat
      BY <1>9 DEF Execute
    <3>2. ASSUME NEW s \in Nat, NEW n \in Nat, NEW b \in Nat, NEW m \in Nat, s + n <= m + b
          PROVE  s \in 0..(m + b)
      BY <3>2
    <3>3. sent' + NPending' <= MaxSent + W * MaxBurst
      BY <1>a DEF SentInv
    <3> HIDE DEF TypeOK
    <3> QED BY <3>1, <3>2, <3>3, <1>b, <1>c
  <2>2. left' \in [Worker -> 0..MaxBurst]
    BY <1>9, <1>b DEF Execute
  <2>3. /\ worker' = worker
        /\ UNCHANGED <<config, main, is_running, ui, engine, spawned, joined, sampler,
                      reported, samples, stopAsked>>
    BY <1>9 DEF Execute
  <2> QED BY <2>1, <2>2, <2>3 DEF config, samples
<1>10. CASE Sample \/ SamplerStops
  BY <1>1, <1>10, <1>b DEF Sample, SamplerStops, config, poolVars, samples
<1>11. CASE UNCHANGED vars
  BY <1>11 DEF vars, config, poolVars, samples
<1> QED
  BY <1>2, <1>3, <1>4, <1>5, <1>6, <1>7, <1>8, <1>9, <1>10, <1>11 DEF Next, Engine

\* Nothing has begun when a run starts.
LEMMA InitInv == Init => IInv
<1> SUFFICES ASSUME Init PROVE IInv
  OBVIOUS
<1>b. W \in Nat /\ MaxBurst \in Nat /\ W * MaxBurst \in Nat /\ MaxSent \in Nat
  BY WAssumption, BurstAssumption
<1>1. TypeOK
  <2>1. 0 \in 0..(MaxSent + W * MaxBurst) /\ 0 \in 0..W /\ 0 \in 0..MaxBurst
    BY <1>b
  <2>2. worker \in [Worker -> {"none", "starting", "running", "ended", "failed", "panicked"}]
    BY DEF Init
  <2>3. left \in [Worker -> 0..MaxBurst]
    BY <2>1 DEF Init
  <2>4. spawned \in 0..W /\ joined \in 0..spawned /\ sent \in 0..(MaxSent + W * MaxBurst)
    BY <2>1 DEF Init
  <2> QED BY <2>2, <2>3, <2>4 DEF Init, TypeOK
<1>2. SentInv
  BY <1>b, PendingBounded DEF Init, SentInv
<1>3. PoolInv
  BY DEF Init, PoolInv, Worker
<1>4. MainInv
  BY DEF Init, MainInv
<1> QED BY <1>1, <1>2, <1>3, <1>4 DEF IInv

\* The invariant of the run, of which the theorems below are consequences.
LEMMA RunInvariant == Spec => []IInv
<1>1. IInv /\ [Next]_vars => IInv'
  BY StepType, StepSent, StepPool, StepMain DEF IInv
<1> QED BY <1>1, InitInv, PTL DEF Spec

\* Every thread is always at a position of its program, and the requests of a
\* run exceed its bound by the bursts that had begun and no more.
THEOREM RunTypeCorrect == Spec => []TypeOK
<1>1. IInv => TypeOK
  BY DEF IInv
<1> QED BY <1>1, RunInvariant, PTL

\* A run that ends well was shut down gracefully, for any number of threads:
\* every worker was joined after it had ended, every failure reached the main
\* thread, and the report is complete and overshoots its load window by at most
\* one burst of every worker.
THEOREM GracefulExit == Spec => []CleanExit
<1>1. IInv => CleanExit
  <2> SUFFICES ASSUME IInv, main = "ok"
               PROVE  CleanExit
    BY DEF CleanExit
  <2>1. engine = "ok" /\ ui \in {"none", "exited"} /\ sampler = "stopped" /\ reported = sent
    BY DEF IInv, MainInv
  <2>2. joined = W /\ spawned = W /\ W \in Nat
    BY <2>1, WAssumption DEF IInv, PoolInv, TypeOK
  <2>3. \A w \in Worker : worker[w] = "ended" /\ TasksOf(w) > 0
    BY <2>1, <2>2 DEF IInv, PoolInv, Worker
  <2>4. prev <= window /\ sent - window <= W * MaxBurst
    <3>1. W * MaxBurst \in Nat /\ sent \in Nat /\ window \in Nat /\ NPending \in Nat
      BY PendingBounded, WAssumption, BurstAssumption DEF IInv, TypeOK
    <3> QED BY <2>1, <3>1 DEF IInv, SentInv
  <2> QED BY <2>1, <2>3, <2>4 DEF CleanExit
<1> QED BY <1>1, RunInvariant, PTL

==============================================================================
