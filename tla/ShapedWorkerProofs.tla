------------------------- MODULE ShapedWorkerProofs -------------------------
(***************************************************************************)
(* Proofs about the worker behind its shaper, for every limit, every cap   *)
(* on a burst, every resolution of the clock and every order in which the  *)
(* worker, the rate-control loop and the clock take their steps.           *)
(***************************************************************************)
EXTENDS ShapedWorker, TLAPS

(***************************************************************************)
(* Arithmetic.                                                             *)
(***************************************************************************)

\* Multiplication keeps the order.
LEMMA MulMono ==
  ASSUME NEW a \in Nat, NEW b \in Nat, NEW c \in Nat, a <= b
  PROVE  a * c <= b * c
OBVIOUS

\* A product is a natural number.
LEMMA MulNat ==
  ASSUME NEW a \in Nat, NEW b \in Nat
  PROVE  a * b \in Nat
OBVIOUS

\* Multiplication distributes over a sum and over a difference.
LEMMA Distribute ==
  ASSUME NEW a \in Int, NEW b \in Int, NEW c \in Int
  PROVE  /\ (a + b) * c = a * c + b * c
         /\ (a - b) * c = a * c - b * c
OBVIOUS

\* A quotient times its divisor is no more than the dividend, and a quotient
\* of at most k seconds' worth of tokens is at most k.
LEMMA DivBound ==
  ASSUME NEW a \in Nat, NEW k \in Nat
  PROVE  /\ a \div TicksPerSec \in Nat
         /\ (a \div TicksPerSec) * TicksPerSec <= a
         /\ a <= k * TicksPerSec => a \div TicksPerSec <= k
<1> DEFINE q == a \div TicksPerSec
<1>1. q \in Nat /\ a = TicksPerSec * q + (a % TicksPerSec) /\ a % TicksPerSec \in 0..(TicksPerSec - 1)
  BY TicksAssumption
<1>2. q * TicksPerSec <= a
  BY <1>1, TicksAssumption
<1>3. ASSUME a <= k * TicksPerSec, q > k PROVE FALSE
  <2>1. (k + 1) * TicksPerSec <= q * TicksPerSec
    BY <1>1, <1>3, MulMono, TicksAssumption
  <2>2. (k + 1) * TicksPerSec = k * TicksPerSec + TicksPerSec
    BY Distribute, TicksAssumption
  <2>3. k * TicksPerSec \in Nat
    BY MulNat, TicksAssumption
  <2> QED BY <1>1, <1>2, <1>3, <2>1, <2>2, <2>3, TicksAssumption
<1> QED BY <1>1, <1>2, <1>3

(***************************************************************************)
(* The inductive invariant.  A burst is covered by the tokens it will be   *)
(* charged (Covered), which keeps the bucket from being overdrawn at the   *)
(* end of it.  Time is never billed twice nor at more than the peak limit  *)
(* (Billed), which turns the ledger into a bound on the rate.              *)
(***************************************************************************)

Covered == pc = "burst" => n * TicksPerSec <= tokens

Billed ==
  /\ prev_ts <= now
  /\ limit <= peak
  /\ accrued <= peak * prev_ts

Inv == TypeOK /\ BucketBounded /\ Covered /\ Ledger /\ Billed

\* Shaper::new: an empty bucket and no time billed.
LEMMA InitInv == Init => Inv
<1> SUFFICES ASSUME Init PROVE Inv
  OBVIOUS
<1>1. TypeOK
  BY CapAssumption DEF Init, TypeOK
<1>2. 0 * TicksPerSec = 0
  BY TicksAssumption
<1> QED BY <1>1, <1>2 DEF Init, Inv, BucketBounded, Covered, Ledger, Billed

\* What one Shaper::tick() does to the bucket and the history, whenever it is
\* called and whatever the limit has become since the last call.
LEMMA TickInv == Inv /\ ShaperTick => Inv'
<1> SUFFICES ASSUME Inv, ShaperTick PROVE Inv'
  OBVIOUS
<1> DEFINE dt == now - prev_ts
           earned == limit * dt
           full == limit * TicksPerSec
<1>1. /\ dt \in Nat /\ earned \in Nat /\ full \in Nat
      /\ limit \in Nat /\ tokens \in Nat /\ accrued \in Nat /\ now \in Nat
      /\ prev_ts \in Nat /\ peak \in Nat /\ limit <= peak
  BY MulNat, TicksAssumption DEF Inv, TypeOK, Billed
<1>2. /\ tokens' = (IF tokens + earned < full THEN tokens + earned ELSE full)
      /\ prev_ts' = now
      /\ accrued' = accrued + earned
      /\ seen' = limit
      /\ UNCHANGED <<now, limit, is_running, peak, executed>>
  BY DEF ShaperTick, Fill, Least, envVars
<1>3. pc = "tick" /\ left' = n' /\ n' = Burst(tokens')
      /\ pc' = (IF n' = 0 THEN "wait" ELSE "burst")
  BY DEF ShaperTick
<1> HIDE DEF dt, earned, full
<1>4. tokens' \in Nat /\ tokens' <= tokens + earned /\ tokens' <= full
  BY <1>1, <1>2
<1>5. /\ tokens' \div TicksPerSec \in Nat
      /\ (tokens' \div TicksPerSec) * TicksPerSec <= tokens'
      /\ tokens' \div TicksPerSec <= limit
  BY <1>1, <1>4, DivBound DEF full
<1>6. n' \in Nat /\ n' \in 0..Cap /\ n' <= tokens' \div TicksPerSec
  BY <1>3, <1>5, CapAssumption DEF Burst, Least
<1>7. n' * TicksPerSec <= tokens'
  <2>1. n' * TicksPerSec <= (tokens' \div TicksPerSec) * TicksPerSec
    BY <1>5, <1>6, MulMono, CapAssumption, TicksAssumption
  <2>2. n' * TicksPerSec \in Nat
    BY <1>6, MulNat, TicksAssumption
  <2>3. (tokens' \div TicksPerSec) * TicksPerSec \in Nat
    BY <1>5, MulNat, TicksAssumption
  <2> QED BY <1>4, <1>5, <2>1, <2>2, <2>3
<1>8. TypeOK'
  BY <1>1, <1>2, <1>3, <1>4, <1>6, CapAssumption DEF Inv, TypeOK
<1>9. BucketBounded' /\ Covered'
  <2>1. tokens' <= seen' * TicksPerSec
    BY <1>2, <1>4 DEF full
  <2>2. n' <= seen'
    BY <1>1, <1>2, <1>5, <1>6, CapAssumption
  <2> QED BY <1>7, <2>1, <2>2 DEF BucketBounded, Covered
<1>10. Ledger'
  <2>1. executed * TicksPerSec \in Nat
    BY MulNat, TicksAssumption DEF Inv, TypeOK
  <2>2. executed * TicksPerSec + tokens <= accrued
    BY <1>1, <1>3, <2>1 DEF Inv, Ledger
  <2>3. (n' - left') * TicksPerSec = 0
    <3>1. n' - left' = 0
      BY <1>3, <1>6, CapAssumption
    <3> QED BY <3>1, TicksAssumption
  <2>4. executed * TicksPerSec + tokens' <= accrued + earned
    BY <1>1, <1>4, <2>1, <2>2
  <2> QED BY <1>1, <1>2, <2>3, <2>4 DEF Ledger
<1>11. Billed'
  <2>1. earned <= peak * dt
    BY <1>1, MulMono DEF earned
  <2>2. peak * now = peak * prev_ts + peak * dt
    BY <1>1 DEF dt
  <2>3. peak * dt \in Nat /\ peak * prev_ts \in Nat /\ peak * now \in Nat
    BY <1>1, MulNat
  <2>4. accrued <= peak * prev_ts
    BY DEF Inv, Billed
  <2>5. accrued + earned <= peak * now
    BY <1>1, <2>1, <2>2, <2>3, <2>4
  <2> QED BY <1>1, <1>2, <2>5 DEF Billed
<1> QED BY <1>8, <1>9, <1>10, <1>11 DEF Inv

\* One request of a burst.
LEMMA ExecuteInv == Inv /\ Execute => Inv'
<1> SUFFICES ASSUME Inv, Execute PROVE Inv'
  OBVIOUS
<1>1. /\ pc = "burst" /\ left > 0 /\ executed' = executed + 1 /\ left' = left - 1
      /\ UNCHANGED <<now, limit, is_running, peak, tokens, prev_ts, accrued, seen, pc, n>>
  BY DEF Execute, envVars, shaperVars
<1>2. n \in Nat /\ left \in Nat /\ left <= n /\ executed \in Nat /\ tokens \in Nat /\ accrued \in Nat
  BY CapAssumption DEF Inv, TypeOK
<1>3. TypeOK'
  BY <1>1, <1>2 DEF Inv, TypeOK
<1>4. BucketBounded' /\ Covered' /\ Billed'
  BY <1>1 DEF Inv, BucketBounded, Covered, Billed
<1>5. Ledger'
  <2>1. executed' * TicksPerSec = executed * TicksPerSec + TicksPerSec
    BY <1>1, <1>2, Distribute, TicksAssumption
  <2>2. (n - left') * TicksPerSec = (n - left) * TicksPerSec + TicksPerSec
    <3>1. n - left' = (n - left) + 1
      BY <1>1, <1>2
    <3> QED BY <1>2, <3>1, Distribute, TicksAssumption
  <2>3. executed * TicksPerSec \in Nat /\ (n - left) * TicksPerSec \in Nat
    BY <1>2, MulNat, TicksAssumption
  <2>4. executed * TicksPerSec + tokens <= accrued + (n - left) * TicksPerSec
    BY <1>1 DEF Inv, Ledger
  <2>5. executed' * TicksPerSec + tokens <= accrued + (n - left') * TicksPerSec
    BY <1>2, <2>1, <2>2, <2>3, <2>4, TicksAssumption
  <2> QED BY <1>1, <2>5 DEF Ledger
<1> QED BY <1>3, <1>4, <1>5 DEF Inv

\* Shaper::consume() at the end of a burst does not overdraw the bucket.
LEMMA ConsumeInv == Inv /\ Consume => Inv'
<1> SUFFICES ASSUME Inv, Consume PROVE Inv'
  OBVIOUS
<1> DEFINE cost == n * TicksPerSec
<1>1. /\ pc = "burst" /\ left = 0 /\ tokens' = tokens - cost /\ pc' = "look"
      /\ UNCHANGED <<now, limit, is_running, peak, prev_ts, accrued, seen, n, left, executed>>
  BY DEF Consume, envVars
<1>2. n \in Nat /\ executed \in Nat /\ tokens \in Nat /\ accrued \in Nat /\ seen \in Nat
  BY CapAssumption DEF Inv, TypeOK
<1>3. cost \in Nat /\ cost <= tokens
  BY <1>1, <1>2, MulNat, TicksAssumption DEF Inv, Covered
<1>4. seen * TicksPerSec \in Nat /\ executed * TicksPerSec \in Nat
  BY <1>2, MulNat, TicksAssumption
<1>5. executed * TicksPerSec + tokens <= accrued + cost
  <2>1. n - left = n
    BY <1>1, <1>2
  <2> QED BY <1>1, <2>1 DEF Inv, Ledger
<1> HIDE DEF cost
<1>6. TypeOK'
  BY <1>1, <1>2, <1>3 DEF Inv, TypeOK
<1>7. BucketBounded' /\ Covered' /\ Billed'
  BY <1>1, <1>2, <1>3, <1>4 DEF Inv, BucketBounded, Covered, Billed
<1>8. Ledger'
  BY <1>1, <1>2, <1>3, <1>4, <1>5 DEF Ledger
<1> QED BY <1>6, <1>7, <1>8 DEF Inv

\* run_generator stores a limit at any moment, in the middle of a burst too.
LEMMA StoreLimitInv == ASSUME NEW l \in Limits PROVE Inv /\ StoreLimit(l) => Inv'
<1> SUFFICES ASSUME Inv, StoreLimit(l) PROVE Inv'
  OBVIOUS
<1>1. /\ limit' = l /\ peak' = (IF l > peak THEN l ELSE peak)
      /\ UNCHANGED <<now, is_running, tokens, prev_ts, accrued, seen, pc, n, left, executed>>
  BY DEF StoreLimit, shaperVars
<1>2. l \in Nat /\ peak \in Nat /\ prev_ts \in Nat /\ accrued \in Nat
  BY LimitsAssumption DEF Inv, TypeOK
<1>3. peak' \in Nat /\ l <= peak' /\ peak <= peak'
  BY <1>1, <1>2
<1>4. TypeOK'
  BY <1>1, <1>2, <1>3 DEF Inv, TypeOK
<1>5. BucketBounded' /\ Covered' /\ Ledger'
  BY <1>1 DEF Inv, BucketBounded, Covered, Ledger
<1>6. Billed'
  <2>1. peak * prev_ts <= peak' * prev_ts
    BY <1>2, <1>3, MulMono
  <2>2. peak * prev_ts \in Nat /\ peak' * prev_ts \in Nat
    BY <1>2, <1>3, MulNat
  <2> QED BY <1>1, <1>2, <1>3, <2>1, <2>2 DEF Inv, Billed
<1> QED BY <1>4, <1>5, <1>6 DEF Inv

\* The steps that leave the bucket and its history alone.
LEMMA OtherInv ==
  Inv /\ (Look \/ Wait \/ Stop \/ ClockTick \/ UNCHANGED vars) => Inv'
<1> SUFFICES ASSUME Inv, Look \/ Wait \/ Stop \/ ClockTick \/ UNCHANGED vars PROVE Inv'
  OBVIOUS
<1>1. /\ UNCHANGED <<limit, peak, tokens, prev_ts, accrued, seen, n, left, executed>>
      /\ now' \in Nat /\ now <= now'
      /\ \/ pc' = pc
         \/ pc # "burst" /\ pc' \in {"look", "tick", "ended"}
  <2> USE DEF envVars, shaperVars, Inv, TypeOK
  <2>1. CASE Look
    <3>1. pc = "look" /\ pc' \in {"tick", "ended"}
      BY <2>1, Zenon DEF Look
    <3>2. UNCHANGED <<now, limit, is_running, peak, tokens, prev_ts, accrued, seen, n, left, executed>>
      BY <2>1, Zenon DEF Look
    <3> QED BY <3>1, <3>2
  <2>2. CASE Wait
    BY <2>2 DEF Wait
  <2>3. CASE Stop
    <3>1. UNCHANGED <<now, limit, peak, tokens, prev_ts, accrued, seen, pc, n, left, executed>>
      BY <2>3, Zenon DEF Stop
    <3> QED BY <3>1
  <2>4. CASE ClockTick
    BY <2>4 DEF ClockTick
  <2>5. CASE UNCHANGED vars
    BY <2>5 DEF vars
  <2> QED BY <2>1, <2>2, <2>3, <2>4, <2>5
<1>2. TypeOK'
  <2>1. is_running' \in BOOLEAN
    BY Zenon DEF Look, Wait, Stop, ClockTick, vars, envVars, Inv, TypeOK
  <2> QED BY <1>1, <2>1 DEF Inv, TypeOK
<1>3. BucketBounded' /\ Covered' /\ Ledger'
  BY <1>1 DEF Inv, BucketBounded, Covered, Ledger
<1>4. Billed'
  <2>1. now \in Nat /\ prev_ts \in Nat
    BY DEF Inv, TypeOK
  <2> QED BY <1>1, <2>1 DEF Inv, Billed
<1> QED BY <1>2, <1>3, <1>4 DEF Inv

\* The invariant holds of every reachable state.
LEMMA Invariance == Spec => []Inv
<1>1. Inv /\ [Next]_vars => Inv'
  BY TickInv, ExecuteInv, ConsumeInv, StoreLimitInv, OtherInv DEF Next, Work
<1> QED BY <1>1, InitInv, PTL DEF Spec

(***************************************************************************)
(* The theorems.                                                           *)
(***************************************************************************)

\* The worker is well typed: Shaper::consume never overdraws the bucket.
THEOREM WorkerTyped == Spec => []TypeOK
<1>1. Inv => TypeOK
  BY DEF Inv
<1> QED BY <1>1, Invariance, PTL

\* Shaper::tick saves up at most one second of the limit it read, and no burst
\* is larger.
THEOREM SavingsBounded == Spec => []BucketBounded
<1>1. Inv => BucketBounded
  BY DEF Inv
<1> QED BY <1>1, Invariance, PTL

\* Every request is paid for, also when the limit changes during its burst.
THEOREM RequestsPaid == Spec => []Ledger
<1>1. Inv => Ledger
  BY DEF Inv
<1> QED BY <1>1, Invariance, PTL

\* The average rate of a worker since its start is at most the highest limit
\* run_generator ever gave it, at every moment.
THEOREM RateBounded == Spec => []RateBound
<1>1. Inv => RateBound
  <2> SUFFICES ASSUME Inv PROVE RateBound
    OBVIOUS
  <2> DEFINE done == executed * TicksPerSec
             served == (n - left) * TicksPerSec
  <2>1. /\ n \in Nat /\ left \in Nat /\ left <= n /\ executed \in Nat /\ tokens \in Nat
        /\ accrued \in Nat /\ peak \in Nat /\ prev_ts \in Nat /\ now \in Nat
    BY CapAssumption DEF Inv, TypeOK
  <2>2. done \in Nat /\ served \in Nat
    BY <2>1, MulNat, TicksAssumption
  <2>3. done <= accrued
    <3>1. CASE pc = "burst"
      <4>1. served <= n * TicksPerSec
        BY <2>1, MulMono, TicksAssumption
      <4>2. n * TicksPerSec \in Nat /\ n * TicksPerSec <= tokens
        BY <2>1, <3>1, MulNat, TicksAssumption DEF Inv, Covered
      <4>3. done + tokens <= accrued + served
        BY <3>1 DEF Inv, Ledger
      <4> HIDE DEF done, served
      <4> QED BY <2>1, <2>2, <4>1, <4>2, <4>3
    <3>2. CASE pc # "burst"
      <4>1. done + tokens <= accrued
        BY <2>1, <2>2, <3>2 DEF Inv, Ledger
      <4> HIDE DEF done
      <4> QED BY <2>1, <2>2, <4>1
    <3> QED BY <3>1, <3>2
  <2>4. accrued <= peak * prev_ts /\ prev_ts <= now
    BY DEF Inv, Billed
  <2>5. prev_ts * peak <= now * peak
    BY <2>1, <2>4, MulMono
  <2>6. peak * prev_ts = prev_ts * peak /\ peak * now = now * peak
    BY <2>1
  <2>7. peak * prev_ts \in Nat /\ peak * now \in Nat
    BY <2>1, MulNat
  <2> HIDE DEF done
  <2>8. done <= peak * now
    BY <2>1, <2>2, <2>3, <2>4, <2>5, <2>6, <2>7
  <2> QED BY <2>8 DEF done, RateBound
<1> QED BY <1>1, Invariance, PTL
==============================================================================
