----------------------------- MODULE RateControl -----------------------------
(***************************************************************************)
(* The rate-control loop (dwd-core/src/engine.rs, run_generator) with the  *)
(* control channel it polls and the gRPC Control handler that fills it     *)
(* (dwd-core/src/grpc/server.rs).                                          *)
(*                                                                         *)
(* The loop, the handler and the signal handler are tasks of one           *)
(* current-thread tokio runtime: a handler runs only while the loop awaits *)
(* its sleep.  The user interface has a thread of its own and clears       *)
(* is_running at any moment, and the worker threads read the limits        *)
(* between any two stores.                                                 *)
(***************************************************************************)
EXTENDS SuspendableGenerator, Sequences, FiniteSets, Functions

CONSTANTS
  N,            \* number of per-worker limits
  Rates,        \* rates a client may set by hand
  MaxNow,       \* bound: ticks of the wall clock
  MaxRequests   \* bound: Control requests

ASSUME NAssumption == N \in Nat \ {0}
ASSUME RatesAssumption == Rates \subseteq Nat
ASSUME BoundsAssumption == MaxNow \in Nat /\ MaxRequests \in Nat

VARIABLES
  now,          \* wall clock
  g,            \* the suspendable generator
  pc,           \* position of the loop
  v,            \* the rate polled in this iteration
  idx,          \* next limit to store
  limits,       \* per-worker limits, shared with the worker threads
  generator,    \* rate shown to users and metrics (SharedGenerator)
  chan,         \* control channel, capacity 1
  is_running,   \* shared run flag
  requests,     \* number of Control requests so far (bounds the model)
  requested,    \* history: the last command a client asked for
  applied,      \* history: the last command applied to the generator
  stopAsked     \* history: somebody asked the run to stop

loopVars == <<pc, v, idx, limits, generator>>
ctlVars  == <<chan, requests, requested>>
vars == <<now, g, loopVars, ctlVars, is_running, applied, stopAsked>>

SuspendEvent == [kind |-> "Suspend", rps |-> 0]
ResumeEvent  == [kind |-> "Resume", rps |-> 0]
SetEvent(r)  == [kind |-> "Set", rps |-> r]
Events == {SuspendEvent, ResumeEvent} \cup {SetEvent(r) : r \in Rates}

Workers == 0..(N - 1)

\* Integer division plus remainder: the first (rate % N) workers get one more.
ShareOffByOne(rate, i) == rate \div N + (IF i <= rate % N THEN 1 ELSE 0)
Share(rate, i) == rate \div N + (IF i < rate % N THEN 1 ELSE 0)

ApplyEvent(ev) ==
  CASE ev.kind = "Suspend" -> Suspend(g, now)
    [] ev.kind = "Resume"  -> Resume(g, now)
    [] ev.kind = "Set"     -> SetValue(g, ev.rps, now)

Init ==
  /\ now = 0
  /\ g = NewGenerator
  /\ pc = "start"
  /\ v = 0
  /\ idx = 0
  /\ limits = [i \in Workers |-> 0]
  /\ generator = 0
  /\ chan = <<>>
  /\ is_running = TRUE
  /\ requests = 0
  /\ requested = None
  /\ applied = None
  /\ stopAsked = FALSE

(***************************************************************************)
(* The loop.                                                               *)
(***************************************************************************)

\* g.activate(): the wall clock is counted from here.
Activate ==
  /\ pc = "start"
  /\ pc' = "current"
  /\ UNCHANGED <<now, g, v, idx, limits, generator, ctlVars, is_running, applied, stopAsked>>

\* while let Some(v) = g.current()
Current ==
  /\ pc = "current"
  /\ LET polled == CurrentAt(g, now) IN
       IF polled = None
       THEN pc' = "exit" /\ UNCHANGED v
       ELSE pc' = "receive" /\ v' = polled
  /\ UNCHANGED <<now, g, idx, limits, generator, ctlVars, is_running, applied, stopAsked>>

\* The run flag is checked, and at most one event is taken off the channel.
\* An event changes the generator, not the rate already polled.
StartPass == pc' = "store" /\ idx' = 0

ReceiveIgnoresStop ==
  /\ pc = "receive"
  /\ StartPass
  /\ IF chan = <<>>
     THEN UNCHANGED <<g, chan, applied>>
     ELSE /\ g' = ApplyEvent(Head(chan))
          /\ applied' = Head(chan)
          /\ chan' = Tail(chan)
  /\ UNCHANGED <<now, v, limits, generator, requests, requested, is_running, stopAsked>>

ReceiveOnlyWhileActive ==
  /\ pc = "receive"
  /\ IF ~is_running
     THEN pc' = "exit" /\ UNCHANGED <<g, idx, chan, applied>>
     ELSE /\ StartPass
          /\ IF chan = <<>> \/ g.suspended_at # None
             THEN UNCHANGED <<g, chan, applied>>
             ELSE /\ g' = ApplyEvent(Head(chan))
                  /\ applied' = Head(chan)
                  /\ chan' = Tail(chan)
  /\ UNCHANGED <<now, v, limits, generator, requests, requested, is_running, stopAsked>>

Receive ==
  /\ pc = "receive"
  /\ IF ~is_running
     THEN pc' = "exit" /\ UNCHANGED <<g, idx, chan, applied>>
     ELSE /\ StartPass
          /\ IF chan = <<>>
             THEN UNCHANGED <<g, chan, applied>>
             ELSE /\ g' = ApplyEvent(Head(chan))
                  /\ applied' = Head(chan)
                  /\ chan' = Tail(chan)
  /\ UNCHANGED <<now, v, limits, generator, requests, requested, is_running, stopAsked>>

\* One Relaxed store per worker: a worker may read between any two of them.
StoreLimit ==
  /\ pc = "store"
  /\ idx < N
  /\ limits' = [limits EXCEPT ![idx] = Share(v, idx)]
  /\ idx' = idx + 1
  /\ UNCHANGED <<now, g, pc, v, generator, ctlVars, is_running, applied, stopAsked>>

\* generator.store(v), then the sleep is awaited.
PublishBeforeLastLimit ==
  /\ pc = "store"
  /\ idx = N - 1
  /\ generator' = v
  /\ pc' = "sleep"
  /\ UNCHANGED <<now, g, v, idx, limits, ctlVars, is_running, applied, stopAsked>>

Publish ==
  /\ pc = "store"
  /\ idx = N
  /\ generator' = v
  /\ pc' = "sleep"
  /\ UNCHANGED <<now, g, v, idx, limits, ctlVars, is_running, applied, stopAsked>>

Wake ==
  /\ pc = "sleep"
  /\ pc' = "current"
  /\ UNCHANGED <<now, g, v, idx, limits, generator, ctlVars, is_running, applied, stopAsked>>

\* The loop is left: the flag tells everybody else.
Exit ==
  /\ pc = "exit"
  /\ is_running' = FALSE
  /\ pc' = "done"
  /\ UNCHANGED <<now, g, v, idx, limits, generator, ctlVars, applied, stopAsked>>

Loop == Activate \/ Current \/ Receive \/ StoreLimit \/ Publish \/ Wake \/ Exit

(***************************************************************************)
(* The other tasks and threads.                                            *)
(***************************************************************************)

\* The runtime runs other tasks while Runtime::run awaits: before the loop is
\* entered (the network endpoint is up while the interface is described), and
\* during each sleep of the loop.
Awaiting == pc \in {"start", "sleep"}

\* DwdService::control with a generator event: try_send on the channel; when
\* the channel is full the event is dropped.
TrySendUnbounded(ev) == chan' = Append(chan, ev)
TrySend(ev) == chan' = IF chan = <<>> THEN <<ev>> ELSE chan

Control(ev) ==
  /\ Awaiting
  /\ requests < MaxRequests
  /\ requests' = requests + 1
  /\ requested' = ev
  /\ TrySend(ev)
  /\ UNCHANGED <<now, g, loopVars, is_running, applied, stopAsked>>

Halt ==
  /\ is_running' = FALSE
  /\ stopAsked' = TRUE
  /\ UNCHANGED <<now, g, loopVars, ctlVars, applied>>

\* DwdService::control with Stop: bypasses the channel.
ControlStop == Awaiting /\ Halt

\* SIGINT or SIGTERM in a headless run: the handler's task is spawned after the
\* last await before the loop.
Signal == pc = "sleep" /\ Halt

\* The user interface thread has returned.
UiExit == Halt

Tick ==
  /\ pc # "start"
  /\ now < MaxNow
  /\ now' = now + 1
  /\ UNCHANGED <<g, loopVars, ctlVars, is_running, applied, stopAsked>>

Next ==
  \/ Loop
  \/ \E ev \in Events : Control(ev)
  \/ ControlStop
  \/ Signal
  \/ UiExit
  \/ Tick

Spec == Init /\ [][Next]_vars

\* The runtime keeps polling the loop's task, and its sleeps end.
FairSpec == Spec /\ WF_vars(Loop)

(***************************************************************************)
(* Properties.                                                             *)
(***************************************************************************)

\* Every variable of the loop, the channel and the histories has its type.
TypeOK ==
  /\ now \in Nat
  /\ g \in Generators
  /\ pc \in {"start", "current", "receive", "store", "sleep", "exit", "done"}
  /\ v \in Nat
  /\ idx \in 0..N
  /\ limits \in [Workers -> Nat]
  /\ generator \in Nat
  /\ chan \in {<<>>} \cup {<<ev>> : ev \in Events}
  /\ is_running \in BOOLEAN
  /\ requests \in Nat
  /\ requested \in Events \cup {None}
  /\ applied \in Events \cup {None}
  /\ stopAsked \in BOOLEAN

\* Workers read the limits in the middle of a pass.  Whatever the moment, a
\* limit is its worker's share of the rate announced last or of the rate being
\* distributed, and in the order of the stores: run_generator's loop never
\* exposes any third value (a zero, a share of an older rate).
TornPassBounded ==
  \A i \in Workers :
    limits[i] = Share(IF pc = "store" /\ i < idx THEN v ELSE generator, i)

\* Outside a pass the limits of all workers add up to the announced rate: the
\* integer division and remainder of run_generator lose and invent nothing, for
\* any rate, rates below the number of workers included.
Conservation ==
  pc # "store" => SumFunction(limits) = generator

\* A run ends only because somebody asked for it or because the profile has
\* been played to its end on its own clock: no suspended or manual run, and no
\* run whose pauses are taken off the clock, ends by itself.
NoEarlyExit ==
  pc \in {"exit", "done"} =>
    \/ stopAsked
    \/ g.suspended_at = None /\ now - g.suspended_duration > Duration

\* A stop, however it is asked for, ends the loop, whatever the generator does.
StopHonoured == ~is_running ~> pc = "done"

\* A profile that is over ends the loop, unless a client takes the rate over
\* before the loop polls again.
ExhaustedEnds ==
  (g.suspended_at = None /\ now - g.suspended_duration > Duration)
    ~> (pc = "done" \/ g.suspended_at # None)

\* An event accepted by the channel reaches the generator, unless the loop
\* ends first: one event per iteration is enough.
EventApplied == chan # <<>> ~> (chan = <<>> \/ pc = "done")

\* The loop, the channel and the clock arithmetic of suspend/resume implement
\* a profile with a clock that runs only while the profile is in charge.
Load ==
  INSTANCE LoadProfile WITH
    mode <- ModeOf(g),
    elapsed <- ElapsedOf(g, now),
    planned <- v,
    target <- generator,
    running <- is_running
ImplementsLoadProfile == Load!Spec

(***************************************************************************)
(* What the repository says of the control interface.                      *)
(***************************************************************************)

\* dwd.proto: "Suspends generation": once a Suspend has been applied, and
\* until another command is, the generator asks for no load.
SuspendStopsLoad == applied = SuspendEvent => CurrentAt(g, now) = 0

\* grpc/server.rs on the event try_send drops: "the next one supersedes it":
\* once the channel is drained, the command in force is the last one asked for.
LastRequestWins == chan = <<>> => applied = requested
==============================================================================
