---------------------------- MODULE ShapedWorker ----------------------------
(***************************************************************************)
(* A worker behind its token-bucket shaper: dwd-core/src/shaper.rs with    *)
(* the loops that drive it, ShapedCoroWorker::run                          *)
(* (dwd-core/src/engine/coro.rs) and the UDP Worker::run                   *)
(* (dwd-core/src/engine/udp/engine.rs), which differ in the cap on a burst *)
(* only.  The rate-control loop stores a new limit at any moment, and a    *)
(* request takes any time.                                                 *)
(*                                                                         *)
(* Tokens are counted in units of 1/TicksPerSec of a request, so that the  *)
(* f64 of the code is an integer and `as u64` is a division.  Every shaper *)
(* of the program is built with burst_size 0, for which the early return   *)
(* of tick() is dead code.                                                 *)
(***************************************************************************)
EXTENDS Integers

CONSTANTS
  TicksPerSec,  \* clock ticks in a second
  Limits,       \* limits the rate-control loop may store
  Cap,          \* most requests in one burst
  MaxNow        \* bound: ticks of the clock

ASSUME TicksAssumption == TicksPerSec \in Nat \ {0}
ASSUME LimitsAssumption == Limits \subseteq Nat
ASSUME CapAssumption == Cap \in Nat \ {0}
ASSUME MaxNowAssumption == MaxNow \in Nat

VARIABLES
  now,         \* clock
  limit,       \* this worker's limit, stored by run_generator
  is_running,  \* the shared run flag
  pc,          \* position of the worker's loop
  tokens,      \* the bucket
  prev_ts,     \* instant of the last tick()
  n,           \* size of the current burst
  left,        \* requests of the burst still to be executed
  executed,    \* history: requests executed
  accrued,     \* history: all tokens ever put into the bucket
  seen,        \* history: the limit the last tick() read
  peak         \* history: the highest limit ever stored

envVars    == <<now, limit, is_running, peak>>
shaperVars == <<tokens, prev_ts, accrued, seen>>
vars == <<envVars, shaperVars, pc, n, left, executed>>

Least(a, b) == IF a < b THEN a ELSE b

Init ==
  /\ now = 0
  /\ limit = 0
  /\ is_running = TRUE
  /\ pc = "look"
  /\ tokens = 0
  /\ prev_ts = 0
  /\ n = 0
  /\ left = 0
  /\ executed = 0
  /\ accrued = 0
  /\ seen = 0
  /\ peak = 0

\* while self.is_running.load(..)
LookIgnoresFlag ==
  /\ pc = "look"
  /\ pc' = "tick"
  /\ UNCHANGED <<envVars, shaperVars, n, left, executed>>

Look ==
  /\ pc = "look"
  /\ pc' = IF is_running THEN "tick" ELSE "ended"
  /\ UNCHANGED <<envVars, shaperVars, n, left, executed>>

\* Shaper::tick(): the time since the last tick is billed at the limit in
\* force now, and the bucket holds at most one second of that limit.
TickFillsUncapped(earned) ==
  /\ tokens' = tokens + earned
  /\ prev_ts' = now
  /\ accrued' = accrued + earned
  /\ seen' = limit

TickForgetsInstant(earned) ==
  /\ tokens' = Least(tokens + earned, limit * TicksPerSec)
  /\ prev_ts' = prev_ts
  /\ accrued' = accrued + earned
  /\ seen' = limit

Fill(earned) ==
  /\ tokens' = Least(tokens + earned, limit * TicksPerSec)
  /\ prev_ts' = now
  /\ accrued' = accrued + earned
  /\ seen' = limit

\* The burst is the whole tokens, up to the cap.
Burst(available) == Least(available \div TicksPerSec, Cap)

ShaperTick ==
  /\ pc = "tick"
  /\ Fill(limit * (now - prev_ts))
  /\ n' = Burst(tokens')
  /\ left' = n'
  /\ pc' = IF n' = 0 THEN "wait" ELSE "burst"
  /\ UNCHANGED <<envVars, executed>>

\* One request of the burst, whatever becomes of it.
Execute ==
  /\ pc = "burst"
  /\ left > 0
  /\ executed' = executed + 1
  /\ left' = left - 1
  /\ UNCHANGED <<envVars, shaperVars, pc, n>>

\* Shaper::consume(n), after the burst.
ConsumeOne ==
  /\ pc = "burst"
  /\ left = 0
  /\ tokens' = tokens - TicksPerSec
  /\ pc' = "look"
  /\ UNCHANGED <<envVars, prev_ts, accrued, seen, n, left, executed>>

ConsumeTwice ==
  /\ pc = "burst"
  /\ left = 0
  /\ tokens' = tokens - 2 * n * TicksPerSec
  /\ pc' = "look"
  /\ UNCHANGED <<envVars, prev_ts, accrued, seen, n, left, executed>>

Consume ==
  /\ pc = "burst"
  /\ left = 0
  /\ tokens' = tokens - n * TicksPerSec
  /\ pc' = "look"
  /\ UNCHANGED <<envVars, prev_ts, accrued, seen, n, left, executed>>

Wait ==
  /\ pc = "wait"
  /\ pc' = "look"
  /\ UNCHANGED <<envVars, shaperVars, n, left, executed>>

Work == Look \/ ShaperTick \/ Execute \/ Consume \/ Wait

\* run_generator stores a new limit.
StoreLimit(l) ==
  /\ limit' = l
  /\ peak' = IF l > peak THEN l ELSE peak
  /\ UNCHANGED <<now, is_running, shaperVars, pc, n, left, executed>>

Stop ==
  /\ is_running' = FALSE
  /\ UNCHANGED <<now, limit, peak, shaperVars, pc, n, left, executed>>

ClockTick ==
  /\ now < MaxNow
  /\ now' = now + 1
  /\ UNCHANGED <<limit, is_running, peak, shaperVars, pc, n, left, executed>>

Next ==
  \/ Work
  \/ \E l \in Limits : StoreLimit(l)
  \/ Stop
  \/ ClockTick

Spec == Init /\ [][Next]_vars

\* The worker's thread is scheduled and each request ends (every request of an
\* HTTP worker is under a timeout, a UDP send does not wait).
FairSpec == Spec /\ WF_vars(Work)

(***************************************************************************)
(* Properties.                                                             *)
(***************************************************************************)

\* The worker is well typed; in particular the bucket is never overdrawn.
TypeOK ==
  /\ now \in Nat /\ limit \in Nat /\ is_running \in BOOLEAN
  /\ pc \in {"look", "tick", "burst", "wait", "ended"}
  /\ tokens \in Nat
  /\ prev_ts \in Nat
  /\ n \in 0..Cap
  /\ left \in 0..n
  /\ executed \in Nat /\ accrued \in Nat
  /\ seen \in Nat /\ peak \in Nat

\* Saved-up tokens never exceed one second of the limit read last, and neither
\* does a burst: a worker held up by a slow target, or sent to zero and back,
\* does not make up for the lost time with more than that.
BucketBounded ==
  /\ tokens <= seen * TicksPerSec
  /\ pc = "burst" => n <= seen

\* Every request executed is paid for by tokens, whichever way the limit
\* changes in the middle of a burst.
Ledger ==
  executed * TicksPerSec + tokens
    <= accrued + (IF pc = "burst" THEN (n - left) * TicksPerSec ELSE 0)

\* Whatever the sequence of limits and the length of the requests, the rate of
\* the worker since its start never exceeds the highest limit it was given.
RateBound == executed * TicksPerSec <= peak * now

\* A stop is obeyed, at the latest at the end of the burst.
StopEnds == ~is_running ~> pc = "ended"
==============================================================================
