--------------------------- MODULE DpdkWorkerProofs ---------------------------
(***************************************************************************)
(* Proofs about DpdkWorker, for every size of the bursts, the ring, the    *)
(* capture file and the refill cycle, every layout of cores and ports, and *)
(* whatever the driver takes and returns: no buffer goes back to the pool  *)
(* while the core sends, no two cores share a queue, and a core stays      *)
(* within its tokens.                                                      *)
(*                                                                         *)
(* The driver collects what it likes of the ring, so the references of a   *)
(* buffer are counted together with its copies there: their difference     *)
(* falls by one when the buffer is sent and at no other moment.  A refill  *)
(* makes it Rounds at least, and between two refills a buffer is sent      *)
(* Rounds times at most.                                                   *)
(***************************************************************************)
EXTENDS DpdkWorker, Arithmetic, FiniteSetTheorems, TLAPS

(***************************************************************************)
(* The inductive invariant.                                                *)
(***************************************************************************)

\* How often buffer m of d has been sent when n packets have been, from the first
\* buffer on.
TimesSent(d, n, m) == n \div d + (IF m < n % d THEN 1 ELSE 0)

\* A cycle of so many rounds over d buffers began n packets ago, when a whole
\* number of cycles was over.
InCycle(d, rounds, n, t) == n <= t /\ (t - n) % (d * rounds) = 0

\* Copies of buffer m in the ring, and what it may need beyond the rounds: when a
\* cycle begins the ring may hold any buffer, but not at its end, where the last
\* buffer is.
Held(m) == Copies(m, packets_count_tx - q, packets_count_tx - 1)
Spare(m) == IF m = mbufs_count - 1 THEN 0 ELSE 1
Cycle == mbufs_count * Rounds

\* Nothing is sent before the packets are dealt.
SetupInv ==
  pc \in {"workers", "ports", "pcap"} =>
    packets_count_tx = 0 /\ q = 0 /\ since = 0 /\ mbufs_count = 0

\* The packets since the last refill make up a part of a cycle.
CycleInv ==
  mbufs_count > 0 =>
    /\ InCycle(mbufs_count, Rounds, since, packets_count_tx)
    /\ since <= Cycle
    /\ pc = "burst" => since < Cycle

\* A buffer has a reference for every copy in the ring and for every time it is
\* still to be sent before the next refill.
RefInv ==
  pc \in {"loop", "burst", "drain", "reset"} =>
    \A m \in Mbufs :
      /\ returned[m] = 0
      /\ packets_count_tx > 0 \/ pc = "burst" =>
           refcnt[m] + TimesSent(mbufs_count, since, m) >= Held(m) + Rounds + Spare(m)

\* The ports are set up only for cores that are named once.
NamesInv == pc = "ports" => NamedOnce

IInv == TypeOK /\ SetupInv /\ CycleInv /\ RefInv /\ NamesInv /\ QueueOwned

(***************************************************************************)
(* Rounds over the buffers.                                                *)
(***************************************************************************)

\* Packets sent without crossing the end of the buffers.
LEMMA TimesSentNext ==
  ASSUME NEW d \in Nat \ {0}, NEW n \in Nat, NEW t \in 0..(d - (n % d)), NEW m \in 0..(d - 1)
  PROVE  TimesSent(d, n + t, m)
           = TimesSent(d, n, m) + (IF n % d <= m /\ m < (n % d) + t THEN 1 ELSE 0)
<1> DEFINE k == n \div d
           r == n % d
<1>1. k \in Nat /\ r \in 0..(d - 1) /\ n = d * k + r
  BY DivFacts
<1>2. TimesSent(d, n, m) = k + (IF m < r THEN 1 ELSE 0)
  BY DEF TimesSent
<1>0. t \in Nat /\ r + t <= d
  BY <1>1
<1> HIDE DEF k, r
<1>3. CASE r + t < d
  <2>1. n + t = d * k + (r + t) /\ r + t \in 0..(d - 1)
    <3>1. d * k \in Nat
      BY <1>1
    <3> QED BY <1>1, <1>0, <1>3, <3>1
  <2>2. /\ (d * k + (r + t)) \div d = k
        /\ (d * k + (r + t)) % d = r + t
    BY <1>1, <2>1, DivUnique
  <2>3. TimesSent(d, n + t, m) = k + (IF m < r + t THEN 1 ELSE 0)
    BY <2>1, <2>2 DEF TimesSent
  <2>4. k + (IF m < r + t THEN 1 ELSE 0)
          = k + (IF m < r THEN 1 ELSE 0) + (IF r <= m /\ m < r + t THEN 1 ELSE 0)
    BY <1>1, <1>0
  <2> QED BY <1>2, <2>3, <2>4 DEF r
<1>4. CASE r + t = d
  <2>1. n + t = d * (k + 1) + 0
    <3>1. d * (k + 1) = d * k + d /\ d * k \in Nat
      BY <1>1
    <3> QED BY <1>1, <1>0, <1>4, <3>1
  <2>2. /\ (d * (k + 1) + 0) \div d = k + 1
        /\ (d * (k + 1) + 0) % d = 0
    BY <1>1, DivUnique
  <2>3. TimesSent(d, n + t, m) = k + 1
    BY <1>1, <2>1, <2>2 DEF TimesSent
  <2>4. k + 1 = k + (IF m < r THEN 1 ELSE 0) + (IF r <= m /\ m < r + t THEN 1 ELSE 0)
    BY <1>1, <1>0, <1>4
  <2> QED BY <1>2, <2>3, <2>4 DEF r
<1> QED BY <1>1, <1>0, <1>3, <1>4

\* In a cycle of n rounds no buffer is sent more than n times, and the last one
\* fewer while the cycle is not over.
LEMMA TimesSentBound ==
  ASSUME NEW d \in Nat \ {0}, NEW n \in Nat, NEW rounds \in Nat \ {0}, n <= d * rounds,
         NEW m \in 0..(d - 1)
  PROVE  /\ TimesSent(d, n, m) \in Nat
         /\ TimesSent(d, n, m) <= rounds
         /\ n < d * rounds /\ m = d - 1 => TimesSent(d, n, m) < rounds
<1> DEFINE k == n \div d
           r == n % d
<1>1. k \in Nat /\ r \in 0..(d - 1) /\ n = d * k + r
  BY DivFacts
<1>2. TimesSent(d, n, m) = k + (IF m < r THEN 1 ELSE 0)
  BY DEF TimesSent
<1> HIDE DEF k, r
<1>3. CASE n = d * rounds
  <2>1. n = d * rounds + 0 /\ 0 \in 0..(d - 1)
    BY <1>3
  <2>2. k = rounds /\ r = 0
    BY <2>1, DivUnique DEF k, r
  <2> QED BY <1>2, <1>3, <2>2
<1>4. CASE n < d * rounds
  <2>1. k < rounds
    <3> SUFFICES ASSUME rounds <= k PROVE FALSE
      BY <1>1
    <3>1. d * rounds <= d * k
      BY <1>1
    <3>2. d * rounds \in Nat /\ d * k \in Nat
      BY <1>1
    <3> QED BY <1>1, <1>4, <3>1, <3>2
  <2> QED BY <1>1, <1>2, <2>1
<1>5. d * rounds \in Nat
  OBVIOUS
<1> QED BY <1>3, <1>4, <1>5

\* A cycle may begin before the first packet and behind every full cycle.
LEMMA CycleStart ==
  ASSUME NEW d \in Nat \ {0}, NEW rounds \in Nat \ {0}
  PROVE  /\ d * rounds \in Nat \ {0}
         /\ InCycle(d, rounds, 0, 0)
         /\ \A t \in Nat : t % (d * rounds) = 0 => InCycle(d, rounds, 0, t)
<1> DEFINE c == d * rounds
<1>1. c \in Nat \ {0}
  OBVIOUS
<1> HIDE DEF c
<1>2. 0 % c = 0 /\ 0 - 0 = 0
  BY <1>1
<1>3. \A t \in Nat : t - 0 = t
  OBVIOUS
<1> QED BY <1>1, <1>2, <1>3 DEF c, InCycle

\* A cycle begins at the first buffer and ends behind the last.
LEMMA Aligned ==
  ASSUME NEW d \in Nat \ {0}, NEW rounds \in Nat \ {0}, NEW n \in Nat, NEW t \in Nat,
         InCycle(d, rounds, n, t)
  PROVE  /\ t % d = n % d
         /\ n = d * rounds => t % (d * rounds) = 0
         /\ n < d * rounds => n + (d - (n % d)) <= d * rounds
<1> DEFINE c == d * rounds
           k == (t - n) \div c
           a == n \div d
           r == n % d
<1>1. c \in Nat \ {0}
  OBVIOUS
<1>2. k \in Nat /\ t - n = c * k
  <2>1. t - n \in Nat /\ (t - n) % c = 0
    BY DEF InCycle
  <2> HIDE DEF c
  <2>2. k \in Nat /\ t - n = c * k + ((t - n) % c)
    BY <1>1, <2>1, DivFacts
  <2>3. c * k \in Nat
    BY <1>1, <2>2
  <2> HIDE DEF k
  <2> QED BY <2>1, <2>2, <2>3
<1>3. a \in Nat /\ r \in 0..(d - 1) /\ n = d * a + r
  BY DivFacts
<1> HIDE DEF k, a, r
<1>4. t % d = r
  <2>1. t = d * (a + rounds * k) + r
    <3>1. c * k = d * (rounds * k)
      BY <1>2
    <3>2. d * (a + rounds * k) = d * a + d * (rounds * k)
      BY <1>2, <1>3
    <3>3. d * a \in Nat /\ c * k \in Nat
      BY <1>1, <1>2, <1>3
    <3> HIDE DEF c
    <3> QED BY <1>2, <1>3, <3>1, <3>2, <3>3
  <2>2. a + rounds * k \in Nat
    BY <1>2, <1>3
  <2> QED BY <1>3, <2>1, <2>2, DivUnique
<1>5. n = c => t % c = 0
  <2> SUFFICES ASSUME n = c PROVE t % c = 0
    OBVIOUS
  <2> HIDE DEF c
  <2>1. t = c * (k + 1) + 0
    <3>1. c * (k + 1) = c * k + c
      BY <1>1, <1>2
    <3>2. c * k \in Nat
      BY <1>1, <1>2
    <3> QED BY <1>1, <1>2, <3>1, <3>2
  <2> QED BY <1>1, <1>2, <2>1, DivUnique
<1>6. n < c => n + (d - r) <= c
  <2> SUFFICES ASSUME n < c PROVE n + (d - r) <= c
    OBVIOUS
  <2>1. a < rounds
    <3> SUFFICES ASSUME rounds <= a PROVE FALSE
      BY <1>3
    <3>1. d * rounds <= d * a
      BY <1>3
    <3>2. d * rounds \in Nat /\ d * a \in Nat
      BY <1>3
    <3> QED BY <1>3, <3>1, <3>2
  <2>2. d * (a + 1) <= d * rounds
    BY <1>3, <2>1
  <2>3. d * (a + 1) = d * a + d
    BY <1>3
  <2>4. d * a \in Nat /\ c \in Nat
    BY <1>3
  <2> QED BY <1>3, <2>2, <2>3, <2>4
<1>7. r = n % d /\ c = d * rounds
  BY DEF r
<1> HIDE DEF c
<1> QED BY <1>4, <1>5, <1>6, <1>7

(***************************************************************************)
(* Copies of a buffer among the packets sent.                              *)
(***************************************************************************)

\* Where buffer m is among the packets numbered first..last.
Where(m, first, last) == {i \in first..last : i % mbufs_count = m}

\* Packets in a row hold a buffer at most as often as there are of them.
LEMMA CopiesType ==
  ASSUME NEW m, NEW first \in Int, NEW last \in Int
  PROVE  /\ IsFiniteSet(Where(m, first, last))
         /\ Copies(m, first, last) = Cardinality(Where(m, first, last))
         /\ Copies(m, first, last) \in Nat
         /\ Copies(m, first, last) <= IF first > last THEN 0 ELSE last - first + 1
<1> DEFINE S == {i \in first..last : i % mbufs_count = m}
<1>1. /\ IsFiniteSet(first..last)
      /\ Cardinality(first..last) = IF first > last THEN 0 ELSE last - first + 1
  BY FS_Interval
<1>2. S \in SUBSET (first..last)
  OBVIOUS
<1>3. IsFiniteSet(S) /\ Cardinality(S) <= Cardinality(first..last)
  BY <1>1, <1>2, FS_Subset
<1>4. Cardinality(S) \in Nat
  BY <1>3, FS_CardinalityType
<1> QED BY <1>1, <1>3, <1>4 DEF Copies, Where

\* The packets of two rows, one after the other.
LEMMA CopiesSplit ==
  ASSUME NEW m, NEW first \in Int, NEW mid \in Int, NEW last \in Int,
         first <= mid + 1, mid <= last
  PROVE  Copies(m, first, last) = Copies(m, first, mid) + Copies(m, mid + 1, last)
<1> DEFINE A == Where(m, first, mid)
           B == Where(m, mid + 1, last)
<1>1. mid + 1 \in Int
  OBVIOUS
<1>a. /\ IsFiniteSet(A) /\ Copies(m, first, mid) = Cardinality(A)
      /\ IsFiniteSet(B) /\ Copies(m, mid + 1, last) = Cardinality(B)
      /\ Copies(m, first, last) = Cardinality(Where(m, first, last))
  BY <1>1, CopiesType
<1>2. A \cap B = {}
  BY DEF Where
<1>3. Where(m, first, last) = A \cup B
  BY DEF Where
<1>4. Cardinality(A \cup B) = Cardinality(A) + Cardinality(B) - Cardinality(A \cap B)
  BY <1>a, FS_Union
<1>5. Cardinality(A) \in Nat /\ Cardinality(B) \in Nat /\ Cardinality(A \cap B) = 0
  BY <1>a, <1>2, FS_CardinalityType, FS_EmptySet
<1> HIDE DEF A, B
<1>6. Cardinality(A \cup B) = Cardinality(A) + Cardinality(B)
  BY <1>4, <1>5
<1> QED BY <1>a, <1>3, <1>6

\* A burst that stops at the last buffer holds no buffer twice.
LEMMA CopiesBurst ==
  ASSUME mbufs_count \in Nat \ {0}, NEW n \in Nat, NEW t \in 0..(mbufs_count - (n % mbufs_count)),
         NEW m \in Mbufs
  PROVE  Copies(m, n, n + t - 1)
           <= IF n % mbufs_count <= m /\ m < (n % mbufs_count) + t THEN 1 ELSE 0
<1> DEFINE d == mbufs_count
           k == n \div d
           r == n % d
           S == Where(m, n, n + t - 1)
<1>1. k \in Nat /\ r \in 0..(d - 1) /\ n = d * k + r
  BY DivFacts
<1>2. t \in Nat /\ r + t <= d
  BY <1>1
<1>3. ASSUME NEW i \in n..(n + t - 1)
      PROVE  i % d = r + (i - n)
  <2> HIDE DEF r, k, d
  <2>1. d * k \in Nat
    BY <1>1 DEF d
  <2>2. i = d * k + (r + (i - n)) /\ r + (i - n) \in 0..(d - 1)
    BY <1>1, <1>2, <2>1 DEF d
  <2>3. (d * k + (r + (i - n))) % d = r + (i - n)
    BY <1>1, <2>2, DivUnique DEF d
  <2> QED BY <2>2, <2>3
<1>4. IsFiniteSet(S) /\ Copies(m, n, n + t - 1) = Cardinality(S)
  <2>1. n + t - 1 \in Int
    BY <1>2
  <2> QED BY <2>1, CopiesType
<1>5. S \subseteq {n + (m - r)}
  <2> SUFFICES ASSUME NEW i \in S PROVE i = n + (m - r)
    OBVIOUS
  <2>1. i \in n..(n + t - 1) /\ i % d = m
    BY DEF Where
  <2>2. m = r + (i - n)
    BY <1>3, <2>1
  <2> HIDE DEF r, S, d
  <2> QED BY <1>1, <2>1, <2>2
<1>6. ~ (r <= m /\ m < r + t) => S = {}
  <2> SUFFICES ASSUME NEW i \in S PROVE r <= m /\ m < r + t
    OBVIOUS
  <2>1. i \in n..(n + t - 1) /\ i % d = m
    BY DEF Where
  <2>2. m = r + (i - n)
    BY <1>3, <2>1
  <2> HIDE DEF r, S, d
  <2> QED BY <1>1, <1>2, <2>1, <2>2
<1>7. Cardinality(S) <= 1
  <2>1. IsFiniteSet({n + (m - r)}) /\ Cardinality({n + (m - r)}) = 1
    BY FS_Singleton
  <2> HIDE DEF S
  <2> QED BY <1>5, <2>1, FS_Subset
<1>8. S = {} => Cardinality(S) = 0
  BY FS_EmptySet
<1> HIDE DEF S
<1> QED BY <1>4, <1>6, <1>7, <1>8

\* When all buffers have been sent equally often, the packet sent last is the last
\* buffer: any other one is missing at the end of the ring.
LEMMA CopiesInRing ==
  ASSUME mbufs_count \in Nat \ {0}, NEW n \in Nat, n % mbufs_count = 0,
         NEW k \in 0..Ring, k <= n, NEW m \in Mbufs
  PROVE  Copies(m, n - k, n - 1) + Spare(m) <= Slack
<1> USE RingAssumption DEF Spare
<1>1. Copies(m, n - k, n - 1) \in Nat /\ Copies(m, n - k, n - 1) <= k
  <2>1. n - k \in Int /\ n - 1 \in Int /\ (IF n - k > n - 1 THEN 0 ELSE n - 1 - (n - k) + 1) = k
    OBVIOUS
  <2> QED BY <2>1, CopiesType
<1>2. CASE m = mbufs_count - 1 \/ k = 0
  BY <1>1, <1>2
<1>3. CASE m # mbufs_count - 1 /\ k # 0
  <2> DEFINE d == mbufs_count
             a == n \div d
  <2>1. a \in Nat /\ n = d * a + 0 /\ n > 0
    <3>1. a \in Nat /\ n = d * a + (n % d)
      BY DivFacts
    <3>2. n > 0
      BY <1>3
    <3> HIDE DEF a, d
    <3> QED BY <3>1, <3>2 DEF d
  <2>2. (n - 1) % d = d - 1
    <3> HIDE DEF a, d
    <3>1. a > 0
      BY <2>1 DEF d
    <3>2. n - 1 = d * (a - 1) + (d - 1)
      <4>1. d * (a - 1) = d * a - d /\ d * a \in Int
        BY <2>1, <3>1 DEF d
      <4> QED BY <2>1, <4>1 DEF d
    <3>3. a - 1 \in Nat /\ d - 1 \in 0..(d - 1)
      BY <2>1, <3>1 DEF d
    <3>4. (d * (a - 1) + (d - 1)) % d = d - 1
      BY <3>3, DivUnique DEF d
    <3> QED BY <3>2, <3>4
  <2>3. Copies(m, n - k, n - 1) = Copies(m, n - k, n - 2) + Copies(m, n - 1, n - 1)
    <3>1. n - k \in Int /\ n - 2 \in Int /\ n - 1 \in Int /\ n - 2 + 1 = n - 1
          /\ n - k <= n - 2 + 1 /\ n - 2 <= n - 1
      BY <1>3
    <3> QED BY <3>1, CopiesSplit
  <2>4. Copies(m, n - 1, n - 1) = 0
    <3>1. Where(m, n - 1, n - 1) = {}
      BY <1>3, <2>2 DEF Where
    <3> QED BY <3>1, CopiesType, FS_EmptySet
  <2>5. Copies(m, n - k, n - 2) \in Nat /\ Copies(m, n - k, n - 2) <= k - 1
    <3>1. n - k \in Int /\ n - 2 \in Int
          /\ (IF n - k > n - 2 THEN 0 ELSE n - 2 - (n - k) + 1) = k - 1
      BY <1>3
    <3> QED BY <3>1, CopiesType
  <2> QED BY <1>3, <2>3, <2>4, <2>5
<1> QED BY <1>2, <1>3

(***************************************************************************)
(* The steps.                                                              *)
(***************************************************************************)

\* A core is dealt a number of packets (load_pcap).
LEMMA DealtNat ==
  ASSUME NEW packets \in Nat, NEW core \in Int
  PROVE  Dealt(packets, core) \in Nat
<1>1. IsFiniteSet(0..(packets - 1))
  BY FS_Interval
<1>2. IsFiniteSet({i \in 0..(packets - 1) : i % Cardinality(Places) = core})
  BY <1>1, FS_Subset
<1> QED
  BY <1>2, FS_CardinalityType DEF Dealt


\* The driver gives a buffer back on its last reference and no earlier.
LEMMA LoweredType ==
  ASSUME TypeOK, NEW m \in Mbufs, NEW n \in Nat
  PROVE  /\ Lowered(m, n) \in Nat \ {0}
         /\ GivenBack(m, n) \in Nat
         /\ refcnt[m] > n => Lowered(m, n) = refcnt[m] - n /\ GivenBack(m, n) = 0
<1>1. refcnt[m] \in Nat \ {0}
  BY DEF TypeOK
<1> QED BY <1>1 DEF Lowered, GivenBack

\* What a burst does, whatever the driver takes.
LEMMA BurstEffect ==
  ASSUME TypeOK, NEW tokens \in 1..MaxTokens, Burst(tokens)
  PROVE  /\ mbufs_count \in Nat \ {0} /\ mbufs_count' = mbufs_count
         /\ pc = "burst" /\ pc' = "loop"
         /\ UNCHANGED <<ports, queue, is_running>>
         /\ spent' \in Nat
         /\ \E done \in 0..q, taken \in 0..(mbufs_count - (packets_count_tx % mbufs_count)) :
              /\ taken <= Ring - (q - done)
              /\ TxBurst(done, taken)
              /\ packets_count_tx' = packets_count_tx + taken
              /\ since' = since + taken
<1>1. /\ mbufs_count \in Nat \ {0} /\ mbufs_count' = mbufs_count
      /\ pc = "burst" /\ pc' = "loop"
      /\ UNCHANGED <<ports, queue, is_running>>
  BY DEF Burst, TypeOK, setup
<1>2. PICK done \in 0..q, taken \in 0..BurstLen(tokens) :
        /\ taken <= Ring - (q - done)
        /\ TxBurst(done, taken)
        /\ packets_count_tx' = packets_count_tx + taken
        /\ since' = since + taken
        /\ spent' = spent + (IF taken > 0 THEN tokens ELSE 0)
  BY DEF Burst
<1>3. spent' \in Nat
  BY <1>2, DpdkBounds DEF TypeOK
<1> DEFINE rest == mbufs_count - (packets_count_tx % mbufs_count)
<1>4. rest \in Int
  BY <1>1 DEF TypeOK
<1>5. BurstLen(tokens) = Least(Least(BurstSize, rest), tokens)
  BY DEF BurstLen
<1> HIDE DEF rest
<1>6. tokens \in Int /\ BurstSize \in Int
  BY DpdkBounds
<1>7. BurstLen(tokens) \in Int /\ BurstLen(tokens) <= rest
  BY <1>4, <1>5, <1>6 DEF Least
<1>8. taken \in 0..rest
  BY <1>4, <1>7
<1> QED BY <1>1, <1>2, <1>3, <1>8 DEF rest

\* The counts of the buffers and of the ring stay in their types: a buffer of a
\* core always has a reference, in the shutdown too.
LEMMA StepType == TypeOK /\ SetupInv /\ [Next]_vars => TypeOK'
<1> SUFFICES ASSUME TypeOK, SetupInv, [Next]_vars
             PROVE  TypeOK'
  OBVIOUS
<1>1. CASE UNCHANGED vars
  BY <1>1 DEF vars, TypeOK, Mbufs, setup, driverVars
<1>2. CASE InitWorkers \/ InitPorts \/ NoTokens \/ Panic \/ StopRun \/ Drain \/ StopPorts
  <2>1. UNCHANGED <<ports, mbufs_count, packets_count_tx, refcnt, q, returned, spent, since>>
    BY <1>2 DEF InitWorkers, InitPorts, NoTokens, Panic, StopRun, Drain, StopPorts, Step,
       setup, driverVars
  <2>2. pc' \in {"ports", "refused", "pcap", "loop", "abort", "reset", "close"} \cup {pc}
    BY <1>2 DEF InitWorkers, InitPorts, NoTokens, Panic, StopRun, Drain, StopPorts, Step
  <2>3. is_running' \in BOOLEAN
    BY <1>2 DEF InitWorkers, InitPorts, NoTokens, Panic, StopRun, Drain, StopPorts, Step, TypeOK
  <2> QED BY <2>1, <2>2, <2>3 DEF TypeOK, Mbufs
<1>3. CASE LoadPcap
  <2>1. UNCHANGED <<ports, packets_count_tx, q, is_running, spent, since>>
        /\ pc' \in {"refused", "loop"}
    BY <1>3 DEF LoadPcap, setup
  <2>2. CASE UNCHANGED <<mbufs_count, refcnt, returned>>
    BY <2>1, <2>2 DEF TypeOK, Mbufs
  <2>3. CASE /\ \E packets \in 0..MaxPackets, core \in 0..(Cardinality(Places) - 1) :
                  mbufs_count' = Dealt(packets, core)
             /\ refcnt' = [m \in 0..(mbufs_count' - 1) |-> 1]
             /\ returned' = [m \in 0..(mbufs_count' - 1) |-> 0]
    <3>1. mbufs_count' \in Nat
      BY <2>3, DealtNat, DpdkBounds
    <3> QED BY <2>1, <2>3, <3>1 DEF TypeOK, Mbufs
  <2> QED BY <1>3, <2>2, <2>3 DEF LoadPcap
<1>4. CASE Look
  <2>1. /\ UNCHANGED <<ports, mbufs_count, packets_count_tx, q, returned, is_running, spent>>
        /\ pc' \in {"burst", "drain"}
    BY <1>4 DEF Look, setup, driverVars
  <2>2. since' \in Nat /\ refcnt' \in [Mbufs -> Nat \ {0}]
    BY <1>4, RoundsAssumption, RingAssumption DEF Look, TypeOK
  <2> QED BY <2>1, <2>2 DEF TypeOK, Mbufs
<1>5. ASSUME NEW tokens \in 1..MaxTokens, Burst(tokens)
      PROVE  TypeOK'
  <2>1. PICK done \in 0..q, taken \in 0..(mbufs_count - (packets_count_tx % mbufs_count)) :
          /\ taken <= Ring - (q - done)
          /\ TxBurst(done, taken)
          /\ packets_count_tx' = packets_count_tx + taken
          /\ since' = since + taken
    BY <1>5, BurstEffect
  <2>2. /\ mbufs_count' = mbufs_count /\ ports' = ports /\ is_running' = is_running
        /\ pc' = "loop" /\ spent' \in Nat
    BY <1>5, BurstEffect
  <2>3. /\ q' \in 0..Ring /\ q' <= packets_count_tx'
        /\ packets_count_tx' \in Nat /\ since' \in Nat
    BY <2>1, RingAssumption DEF TypeOK, TxBurst
  <2>4. refcnt' \in [Mbufs -> Nat \ {0}] /\ returned' \in [Mbufs -> Nat]
    <3>1. packets_count_tx - q \in Int /\ packets_count_tx - q + done - 1 \in Int
      BY <2>1 DEF TypeOK
    <3>2. \A m \in Mbufs : Copies(m, packets_count_tx - q, packets_count_tx - q + done - 1) \in Nat
      BY <3>1, CopiesType
    <3> QED BY <2>1, <3>2, LoweredType DEF TxBurst, TypeOK
  <2> QED BY <2>2, <2>3, <2>4 DEF TypeOK, Mbufs
<1>6. CASE ResetRefcnt
  BY <1>6 DEF ResetRefcnt, Step, TypeOK, Mbufs, setup, driverVars
<1>7. CASE CloseEal
  <2>1. UNCHANGED <<ports, mbufs_count, packets_count_tx, is_running, spent, since>>
        /\ pc' = "done" /\ q' = 0
    BY <1>7 DEF CloseEal, Step, setup
  <2>2. refcnt' \in [Mbufs -> Nat \ {0}] /\ returned' \in [Mbufs -> Nat]
    <3>1. packets_count_tx - q \in Int /\ packets_count_tx - 1 \in Int
      BY DEF TypeOK
    <3>2. \A m \in Mbufs : Copies(m, packets_count_tx - q, packets_count_tx - 1) \in Nat
      BY <3>1, CopiesType
    <3> QED BY <1>7, <3>2, LoweredType DEF CloseEal, TypeOK
  <2> QED BY <2>1, <2>2, RingAssumption DEF TypeOK, Mbufs
<1> QED BY <1>1, <1>2, <1>3, <1>4, <1>5, <1>6, <1>7 DEF Next

\* Nothing is sent before the packets are dealt.
LEMMA StepSetup == SetupInv /\ [Next]_vars => SetupInv'
<1> SUFFICES ASSUME SetupInv, [Next]_vars
             PROVE  SetupInv'
  OBVIOUS
<1>1. CASE InitWorkers \/ InitPorts \/ StopRun \/ UNCHANGED vars
  BY <1>1 DEF InitWorkers, InitPorts, StopRun, vars, SetupInv, driverVars
<1>2. CASE \/ LoadPcap \/ Look \/ NoTokens \/ Panic \/ Drain \/ ResetRefcnt \/ StopPorts \/ CloseEal
           \/ \E tokens \in 1..MaxTokens : Burst(tokens)
  <2>1. pc' \in {"refused", "loop", "burst", "drain", "abort", "reset", "stop", "close", "done"}
    BY <1>2 DEF LoadPcap, Look, NoTokens, Panic, Drain, ResetRefcnt, StopPorts, CloseEal, Step, Burst
  <2> QED BY <2>1 DEF SetupInv
<1> QED BY <1>1, <1>2 DEF Next

\* A cycle of refills starts at the first buffer, is never overrun, and is over
\* only where the next refill is due.
LEMMA StepCycle == TypeOK /\ SetupInv /\ CycleInv /\ [Next]_vars => CycleInv'
<1> SUFFICES ASSUME TypeOK, SetupInv, CycleInv, [Next]_vars, mbufs_count' > 0
             PROVE  /\ InCycle(mbufs_count', Rounds, since', packets_count_tx')
                    /\ since' <= Cycle'
                    /\ pc' = "burst" => since' < Cycle'
  BY DEF CycleInv
<1>1. CASE UNCHANGED <<mbufs_count, packets_count_tx, since>> /\ (pc' = "burst" => pc = "burst")
  BY <1>1 DEF CycleInv, Cycle
<1>2. CASE UNCHANGED vars
  BY <1>1, <1>2 DEF vars
<1>3. CASE InitWorkers \/ InitPorts \/ NoTokens \/ Panic \/ StopRun
  BY <1>1, <1>3 DEF InitWorkers, InitPorts, NoTokens, Panic, StopRun
<1>4. CASE Drain \/ ResetRefcnt \/ StopPorts \/ CloseEal
  BY <1>1, <1>4 DEF Drain, ResetRefcnt, StopPorts, CloseEal, Step
<1>5. CASE LoadPcap
  <2>1. packets_count_tx' = 0 /\ since' = 0 /\ pc' # "burst"
    BY <1>5 DEF LoadPcap, SetupInv
  <2>2. mbufs_count' \in Nat \ {0}
    <3>1. TypeOK'
      BY StepType
    <3> QED BY <3>1 DEF TypeOK
  <2>3. Cycle' \in Nat \ {0} /\ InCycle(mbufs_count', Rounds, 0, 0)
    BY <2>2, RoundsAssumption, CycleStart DEF Cycle
  <2> QED BY <2>1, <2>3
<1>6. CASE Look
  <2>1. /\ UNCHANGED <<mbufs_count, packets_count_tx>> /\ mbufs_count \in Nat \ {0}
        /\ packets_count_tx \in Nat /\ since \in Nat
    BY <1>6 DEF Look, TypeOK
  <2>2. Cycle' = Cycle /\ Cycle \in Nat \ {0}
    BY <2>1, RoundsAssumption DEF Cycle
  <2>3. CASE is_running /\ RefillDue
    <3>1. since' = 0
      BY <1>6, <2>3 DEF Look
    <3>2. packets_count_tx = 0 \/ packets_count_tx % (mbufs_count * Rounds) = 0
      BY <2>3 DEF RefillDue
    <3>3. InCycle(mbufs_count, Rounds, 0, packets_count_tx)
      BY <2>1, <3>2, RoundsAssumption, CycleStart
    <3> QED BY <2>1, <2>2, <3>1, <3>3
  <2>4. CASE is_running /\ ~RefillDue
    <3>1. since' = since /\ packets_count_tx % Cycle # 0
      BY <1>6, <2>1, <2>4 DEF Look, RefillDue, Cycle
    <3>2. since # Cycle
      <4>1. since = mbufs_count * Rounds => packets_count_tx % (mbufs_count * Rounds) = 0
        BY <2>1, RoundsAssumption, Aligned DEF CycleInv, Cycle
      <4> QED BY <3>1, <4>1 DEF Cycle
    <3> QED BY <2>1, <2>2, <3>1, <3>2 DEF CycleInv
  <2>5. CASE ~is_running
    <3>1. since' = since /\ pc' # "burst"
      BY <1>6, <2>5 DEF Look
    <3> QED BY <2>1, <2>2, <3>1 DEF CycleInv
  <2> QED BY <2>3, <2>4, <2>5
<1>7. ASSUME NEW tokens \in 1..MaxTokens, Burst(tokens)
      PROVE  /\ InCycle(mbufs_count', Rounds, since', packets_count_tx')
             /\ since' <= Cycle'
             /\ pc' # "burst"
  <2>1. PICK taken \in 0..(mbufs_count - (packets_count_tx % mbufs_count)) :
          packets_count_tx' = packets_count_tx + taken /\ since' = since + taken
    BY <1>7, BurstEffect
  <2>2. /\ mbufs_count \in Nat \ {0} /\ mbufs_count' = mbufs_count
        /\ pc = "burst" /\ pc' = "loop"
    BY <1>7, BurstEffect
  <2>3. packets_count_tx \in Nat /\ since \in Nat
    BY DEF TypeOK
  <2>4. Cycle' = Cycle /\ Cycle \in Nat \ {0} /\ Cycle = mbufs_count * Rounds
    BY <2>2, RoundsAssumption DEF Cycle
  <2>5. since < Cycle /\ InCycle(mbufs_count, Rounds, since, packets_count_tx)
    BY <2>2 DEF CycleInv
  <2>6. /\ packets_count_tx % mbufs_count = since % mbufs_count
        /\ since + (mbufs_count - (since % mbufs_count)) <= Cycle
    <3>1. since < mbufs_count * Rounds
      BY <2>4, <2>5
    <3>a. InCycle(mbufs_count, Rounds, since, packets_count_tx) /\ mbufs_count \in Nat \ {0}
      BY <2>2, <2>5
    <3>2. packets_count_tx % mbufs_count = since % mbufs_count
      BY <2>3, <3>a, RoundsAssumption, Aligned
    <3>3. since < mbufs_count * Rounds
            => since + (mbufs_count - (since % mbufs_count)) <= mbufs_count * Rounds
      BY <2>2, <2>3, <2>5, RoundsAssumption, Aligned
    <3> QED BY <2>4, <3>1, <3>2, <3>3
  <2> DEFINE rest == mbufs_count - (packets_count_tx % mbufs_count)
  <2>7. rest \in Int /\ taken \in 0..rest /\ since + rest <= Cycle
    BY <2>2, <2>3, <2>6
  <2> HIDE DEF rest
  <2>8. taken \in Nat /\ since + taken <= Cycle
    BY <2>3, <2>4, <2>7
  <2>9. packets_count_tx' - since' = packets_count_tx - since
    BY <2>1, <2>3, <2>8
  <2>10. since <= packets_count_tx => since' <= packets_count_tx'
    BY <2>1, <2>3, <2>8
  <2>11. InCycle(mbufs_count', Rounds, since', packets_count_tx')
    BY <2>2, <2>5, <2>9, <2>10 DEF InCycle
  <2> QED BY <2>1, <2>2, <2>4, <2>8, <2>11
<1> QED BY <1>2, <1>3, <1>4, <1>5, <1>6, <1>7 DEF Next

\* The references outlast the cycle: at every moment each buffer has one for
\* every copy in the ring, for every time it is still to be sent in this cycle,
\* and one more unless it is the last buffer.
LEMMA StepRef == TypeOK /\ SetupInv /\ CycleInv /\ RefInv /\ [Next]_vars => RefInv'
<1> SUFFICES ASSUME TypeOK, SetupInv, CycleInv, RefInv, [Next]_vars,
                    pc' \in {"loop", "burst", "drain", "reset"},
                    NEW m \in Mbufs'
             PROVE  /\ returned'[m] = 0
                    /\ packets_count_tx' > 0 \/ pc' = "burst" =>
                         refcnt'[m] + TimesSent(mbufs_count', since', m)
                           >= Held(m)' + Rounds + Spare(m)'
  BY DEF RefInv
<1>1. CASE /\ UNCHANGED <<mbufs_count, packets_count_tx, refcnt, q, returned, since>>
           /\ pc \in {"loop", "burst", "drain", "reset"}
           /\ pc' = "burst" => pc = "burst"
  <2>1. /\ m \in Mbufs /\ Spare(m)' = Spare(m)
        /\ Held(m)' = Held(m)
    BY <1>1 DEF Mbufs, Spare, Held, Copies
  <2> QED BY <1>1, <2>1 DEF RefInv
<1>2. CASE UNCHANGED vars
  BY <1>1, <1>2 DEF vars, driverVars
<1>3. CASE NoTokens \/ Panic \/ Drain \/ ResetRefcnt \/ StopPorts \/ CloseEal \/ StopRun
  BY <1>1, <1>3 DEF NoTokens, Panic, Drain, ResetRefcnt, StopPorts, CloseEal, StopRun, Step, driverVars
<1>4. CASE InitWorkers \/ InitPorts
  BY <1>4 DEF InitWorkers, InitPorts
<1>5. CASE LoadPcap
  <2>1. packets_count_tx' = 0 /\ pc' = "loop"
        /\ returned' = [i \in 0..(mbufs_count' - 1) |-> 0]
    BY <1>5 DEF LoadPcap, SetupInv
  <2>2. m \in 0..(mbufs_count' - 1)
    BY DEF Mbufs
  <2> QED BY <2>1, <2>2
<1>6. CASE Look
  <2>1. /\ pc = "loop" /\ UNCHANGED <<mbufs_count, packets_count_tx, q, returned>>
    BY <1>6 DEF Look, driverVars
  <2>2. /\ m \in Mbufs /\ Spare(m)' = Spare(m)
        /\ Held(m)' = Held(m)
    BY <2>1 DEF Mbufs, Spare, Held, Copies
  <2>3. /\ mbufs_count \in Nat \ {0} /\ packets_count_tx \in Nat /\ since \in Nat
        /\ q \in 0..Ring /\ q <= packets_count_tx
    BY <2>2 DEF TypeOK, Mbufs
  <2>4. CASE is_running /\ RefillDue
    <3>1. since' = 0 /\ refcnt'[m] = Rounds + Slack
      BY <1>6, <2>2, <2>4 DEF Look
    <3>2. packets_count_tx % mbufs_count = 0
      <4>1. CASE packets_count_tx = 0
        BY <2>3, <4>1
      <4>2. CASE packets_count_tx % (mbufs_count * Rounds) = 0
        <5>1. InCycle(mbufs_count, Rounds, 0, packets_count_tx)
          BY <2>3, <4>2, RoundsAssumption, CycleStart
        <5>2. packets_count_tx % mbufs_count = 0 % mbufs_count
          BY <2>3, <5>1, RoundsAssumption, Aligned
        <5> QED BY <2>3, <5>2
      <4> QED BY <2>4, <4>1, <4>2 DEF RefillDue
    <3>3. Held(m) + Spare(m) <= Slack
      BY <2>2, <2>3, <3>2, CopiesInRing DEF Held
    <3>4. Held(m) \in Nat /\ Spare(m) \in Nat
      <4>1. packets_count_tx - q \in Int /\ packets_count_tx - 1 \in Int
        BY <2>3
      <4> QED BY <4>1, CopiesType DEF Held, Spare
    <3>5. TimesSent(mbufs_count', since', m) = 0
      <4>1. 0 \div mbufs_count = 0 /\ 0 % mbufs_count = 0
        BY <2>3
      <4> QED BY <2>1, <2>2, <2>3, <3>1, <4>1 DEF TimesSent, Mbufs
    <3>6. returned'[m] = 0
      BY <2>1, <2>2 DEF RefInv
    <3> QED BY <2>2, <3>1, <3>3, <3>4, <3>5, <3>6, RoundsAssumption, RingAssumption
  <2>5. CASE ~(is_running /\ RefillDue)
    <3>1. since' = since /\ refcnt' = refcnt
      BY <1>6, <2>5 DEF Look
    <3>2. pc' = "burst" => packets_count_tx > 0
      BY <1>6, <2>3, <2>5 DEF Look, RefillDue
    <3> QED BY <2>1, <2>2, <3>1, <3>2 DEF RefInv
  <2> QED BY <2>4, <2>5
<1>7. ASSUME NEW tokens \in 1..MaxTokens, Burst(tokens)
      PROVE  /\ returned'[m] = 0
             /\ refcnt'[m] + TimesSent(mbufs_count', since', m) >= Held(m)' + Rounds + Spare(m)'
  <2>1. PICK done \in 0..q, taken \in 0..(mbufs_count - (packets_count_tx % mbufs_count)) :
          /\ taken <= Ring - (q - done)
          /\ TxBurst(done, taken)
          /\ packets_count_tx' = packets_count_tx + taken
          /\ since' = since + taken
    BY <1>7, BurstEffect
  <2>2. /\ mbufs_count \in Nat \ {0} /\ mbufs_count' = mbufs_count
        /\ pc = "burst" /\ pc' = "loop"
    BY <1>7, BurstEffect
  <2>3. /\ packets_count_tx \in Nat /\ since \in Nat /\ q \in Nat /\ q <= packets_count_tx
        /\ done \in Nat /\ done <= q /\ taken \in Int
    BY RingAssumption DEF TypeOK
  <2>4. m \in Mbufs /\ m \in 0..(mbufs_count - 1) /\ Spare(m)' = Spare(m) /\ Spare(m) \in Nat
    BY <2>2 DEF Mbufs, Spare
  <2>5. refcnt[m] \in Nat /\ returned[m] = 0
        /\ refcnt[m] + TimesSent(mbufs_count, since, m) >= Held(m) + Rounds + Spare(m)
    BY <2>2, <2>4 DEF RefInv, TypeOK
  <2> DEFINE old  == Copies(m, packets_count_tx - q, packets_count_tx - q + done - 1)
             kept == Copies(m, packets_count_tx - q + done, packets_count_tx - 1)
             new  == Copies(m, packets_count_tx, packets_count_tx + taken - 1)
             now  == TimesSent(mbufs_count, since, m)
             gain == IF since % mbufs_count <= m /\ m < (since % mbufs_count) + taken THEN 1 ELSE 0
  <2>6. /\ packets_count_tx % mbufs_count = since % mbufs_count
        /\ now \in Nat /\ now <= Rounds
        /\ m = mbufs_count - 1 => now < Rounds
    <3>1. /\ InCycle(mbufs_count, Rounds, since, packets_count_tx)
          /\ since < mbufs_count * Rounds /\ since <= mbufs_count * Rounds
      BY <2>2 DEF CycleInv, Cycle
    <3>2. packets_count_tx % mbufs_count = since % mbufs_count
      BY <2>2, <2>3, <3>1, RoundsAssumption, Aligned
    <3> QED BY <2>2, <2>3, <2>4, <3>1, <3>2, RoundsAssumption, TimesSentBound
  <2>7. /\ since % mbufs_count \in 0..(mbufs_count - 1)
        /\ taken \in 0..(mbufs_count - (since % mbufs_count)) /\ taken \in Nat
    BY <2>2, <2>3, <2>6, DivFacts
  <2>8. TimesSent(mbufs_count', since', m) = now + gain
    BY <2>1, <2>2, <2>3, <2>4, <2>7, TimesSentNext
  <2>9. new <= gain
    <3>1. taken \in 0..(mbufs_count - (packets_count_tx % mbufs_count))
      OBVIOUS
    <3>2. new <= IF packets_count_tx % mbufs_count <= m /\ m < (packets_count_tx % mbufs_count) + taken
                 THEN 1 ELSE 0
      BY <2>2, <2>3, <2>4, <3>1, CopiesBurst
    <3> QED BY <2>6, <3>2
  <2>10. old \in Nat /\ kept \in Nat /\ new \in Nat /\ gain \in Nat
    <3>1. /\ packets_count_tx - q \in Int /\ packets_count_tx - q + done - 1 \in Int
          /\ packets_count_tx - q + done \in Int /\ packets_count_tx - 1 \in Int
          /\ packets_count_tx \in Int /\ packets_count_tx + taken - 1 \in Int
      BY <2>3
    <3> QED BY <3>1, CopiesType
  <2>11. Held(m) = old + kept
    <3>1. /\ packets_count_tx - q \in Int /\ packets_count_tx - q + done - 1 \in Int
          /\ packets_count_tx - 1 \in Int
          /\ (packets_count_tx - q + done - 1) + 1 = packets_count_tx - q + done
          /\ packets_count_tx - q <= (packets_count_tx - q + done - 1) + 1
          /\ packets_count_tx - q + done - 1 <= packets_count_tx - 1
      BY <2>3
    <3> QED BY <3>1, CopiesSplit DEF Held
  <2>12. Held(m)' = kept + new
    <3>1. /\ packets_count_tx - q + done \in Int /\ packets_count_tx - 1 \in Int
          /\ packets_count_tx + taken - 1 \in Int
          /\ (packets_count_tx - 1) + 1 = packets_count_tx
          /\ packets_count_tx - q + done <= (packets_count_tx - 1) + 1
          /\ packets_count_tx - 1 <= packets_count_tx + taken - 1
          /\ packets_count_tx' - q' = packets_count_tx - q + done
          /\ packets_count_tx' - 1 = packets_count_tx + taken - 1
      BY <2>1, <2>3, <2>7 DEF TxBurst
    <3>2. Held(m)' = Copies(m, packets_count_tx - q + done, packets_count_tx + taken - 1)
      BY <2>2, <3>1 DEF Held, Copies
    <3> QED BY <3>1, <3>2, CopiesSplit
  <2>13. refcnt[m] > old
    <3> HIDE DEF old, kept, new, now, gain
    <3>1. Spare(m) = IF m = mbufs_count - 1 THEN 0 ELSE 1
      BY DEF Spare
    <3>2. Rounds \in Nat
      BY RoundsAssumption
    <3>3. refcnt[m] + now >= old + kept + Rounds + Spare(m)
      BY <2>5, <2>11 DEF now
    <3> QED BY <2>4, <2>5, <2>6, <2>10, <3>1, <3>2, <3>3
  <2>14. refcnt'[m] = refcnt[m] - old /\ returned'[m] = 0
    <3>1. Lowered(m, old) = refcnt[m] - old /\ GivenBack(m, old) = 0
      BY <2>4, <2>10, <2>13, LoweredType
    <3>2. refcnt'[m] = Lowered(m, old) /\ returned'[m] = returned[m] + GivenBack(m, old)
      BY <2>1, <2>4 DEF TxBurst
    <3> HIDE DEF old
    <3> QED BY <2>5, <3>1, <3>2
  <2>15. refcnt[m] - old + (now + gain) >= (kept + new) + Rounds + Spare(m)
    <3>1. refcnt[m] + now >= (old + kept) + Rounds + Spare(m)
      BY <2>5, <2>11
    <3>2. Rounds \in Nat
      BY RoundsAssumption
    <3> HIDE DEF old, kept, new, now, gain
    <3> QED BY <2>4, <2>5, <2>6, <2>9, <2>10, <3>1, <3>2
  <2> HIDE DEF old, kept, new, now, gain
  <2> QED BY <2>4, <2>8, <2>12, <2>14, <2>15
<1> QED BY <1>2, <1>3, <1>4, <1>5, <1>6, <1>7 DEF Next

(***************************************************************************)
(* The queues.                                                             *)
(***************************************************************************)

\* The place of a core in the configuration.
PlaceOf(c) == CHOOSE place \in Places : CoreAt(place) = c

\* A place is a port and a position in the list of its cores.
LEMMA PlaceShape ==
  ASSUME ports \in Layouts, NEW place \in Places
  PROVE  /\ place = <<place[1], place[2]>>
         /\ place[1] \in DOMAIN ports
         /\ place[2] \in 1..Len(ports[place[1]])
         /\ Len(ports[place[1]]) \in Nat
<1>1. PICK p \in DOMAIN ports : place \in {<<p, i>> : i \in DOMAIN ports[p]}
  BY DEF Places
<1>2. PICK i \in DOMAIN ports[p] : place = <<p, i>>
  BY <1>1
<1>3. ports \in Seq(Seq(Nat))
  BY LayoutsAssumption
<1>4. ports[p] \in Seq(Nat)
  BY <1>3
<1> QED BY <1>2, <1>4

\* The configuration names finitely many cores.
LEMMA CoresFinite ==
  ASSUME ports \in Layouts
  PROVE  IsFiniteSet(Cores)
<1> DEFINE Row(p) == {<<p, i>> : i \in DOMAIN ports[p]}
           Rows == {Row(p) : p \in DOMAIN ports}
<1>1. ports \in Seq(Seq(Nat))
  BY LayoutsAssumption
<1>2. IsFiniteSet(DOMAIN ports)
  <2>1. Len(ports) \in Nat /\ DOMAIN ports = 1..Len(ports)
    BY <1>1
  <2> QED BY <2>1, FS_Interval
<1>3. ASSUME NEW p \in DOMAIN ports
      PROVE  IsFiniteSet(Row(p))
  <2>1. ports[p] \in Seq(Nat)
    BY <1>1
  <2>2. Len(ports[p]) \in Nat /\ DOMAIN ports[p] = 1..Len(ports[p])
    BY <2>1
  <2>3. IsFiniteSet(DOMAIN ports[p])
    BY <2>2, FS_Interval
  <2> DEFINE f == [i \in DOMAIN ports[p] |-> <<p, i>>]
  <2>4. f \in Surjection(DOMAIN ports[p], Row(p))
    BY DEF Surjection
  <2> HIDE DEF f, Row
  <2> QED BY <2>3, <2>4, FS_Surjection
<1>4. IsFiniteSet(Rows)
  <2> DEFINE f == [p \in DOMAIN ports |-> Row(p)]
  <2> HIDE DEF Row
  <2>1. f \in Surjection(DOMAIN ports, Rows)
    BY DEF Surjection
  <2> HIDE DEF f, Rows
  <2> QED BY <1>2, <2>1, FS_Surjection
<1>5. Places = UNION Rows
  BY DEF Places
<1>6. IsFiniteSet(Places)
  <2> HIDE DEF Row
  <2>1. \A T \in Rows : IsFiniteSet(T)
    BY <1>3
  <2> HIDE DEF Rows
  <2> QED BY <1>4, <1>5, <2>1, FS_UNION
<1> DEFINE f == [place \in Places |-> CoreAt(place)]
<1>7. f \in Surjection(Places, Cores)
  BY DEF Surjection, Cores
<1> HIDE DEF f
<1> QED BY <1>6, <1>7, FS_Surjection

\* When every core is named once, a port has no more cores than there are.
LEMMA PortWithinCores ==
  ASSUME ports \in Layouts, NamedOnce, NEW p \in DOMAIN ports
  PROVE  /\ Cardinality(Cores) \in Nat
         /\ Len(ports[p]) <= Cardinality(Cores)
<1>1. ports[p] \in Seq(Nat)
  BY LayoutsAssumption
<1>2. Len(ports[p]) \in Nat /\ DOMAIN ports[p] = 1..Len(ports[p])
  BY <1>1
<1> DEFINE S == 1..Len(ports[p])
           f == [i \in S |-> ports[p][i]]
<1>3. ASSUME NEW i \in S
      PROVE  <<p, i>> \in Places /\ CoreAt(<<p, i>>) = ports[p][i] /\ ports[p][i] \in Cores
  <2>1. <<p, i>> \in Places
    BY <1>2 DEF Places
  <2>2. CoreAt(<<p, i>>) = ports[p][i]
    BY DEF CoreAt
  <2> QED BY <2>1, <2>2 DEF Cores
<1>4. f \in Injection(S, Cores)
  <2>1. f \in [S -> Cores]
    BY <1>3
  <2>2. ASSUME NEW i \in S, NEW j \in S, ports[p][i] = ports[p][j]
        PROVE  i = j
    BY <1>3, <2>2 DEF NamedOnce
  <2>3. IsInjective(f)
    BY <2>2 DEF IsInjective
  <2> QED BY <2>1, <2>3 DEF Injection
<1>5. Cardinality(S) = Len(ports[p])
  BY <1>2, FS_Interval
<1>6. Cardinality(S) <= Cardinality(Cores)
  <2> HIDE DEF f, S
  <2> QED BY <1>4, CoresFinite, FS_Injection
<1>7. Cardinality(Cores) \in Nat
  BY CoresFinite, FS_CardinalityType
<1> QED BY <1>5, <1>6, <1>7

\* Two cores never get the same queue, and no core gets one that init_ports did
\* not set up.
LEMMA StepQueue == TypeOK /\ NamesInv /\ QueueOwned /\ [Next]_vars => NamesInv' /\ QueueOwned'
<1> SUFFICES ASSUME TypeOK, NamesInv, QueueOwned, [Next]_vars
             PROVE  NamesInv' /\ QueueOwned'
  OBVIOUS
<1>1. UNCHANGED ports
  BY DEF Next, vars, setup, InitWorkers, InitPorts, LoadPcap, Look, NoTokens, Panic, StopRun,
     Burst, Drain, ResetRefcnt, StopPorts, CloseEal, Step
<1>2. NamedOnce' = NamedOnce /\ Cores' = Cores /\ TxQueues' = TxQueues
  BY <1>1 DEF NamedOnce, Places, CoreAt, Cores, TxQueues
<1>3. CASE InitWorkers
  <2>1. UNCHANGED queue /\ (pc' = "ports" => NamedOnce)
    BY <1>3 DEF InitWorkers, setup
  <2> QED BY <1>2, <2>1 DEF NamesInv, QueueOwned
<1>4. CASE InitPorts
  <2>1. pc = "ports" /\ pc' # "ports"
    BY <1>4 DEF InitPorts
  <2>2. CASE UNCHANGED queue
    BY <1>2, <2>1, <2>2 DEF NamesInv, QueueOwned
  <2>3. CASE queue' = [c \in Cores |->
               LET place == CHOOSE place \in Places : CoreAt(place) = c IN
                 [port |-> place[1], tx |-> place[2]]]
    <3>1. DOMAIN queue' = Cores
          /\ \A c \in Cores : queue'[c] = [port |-> PlaceOf(c)[1], tx |-> PlaceOf(c)[2]]
      BY <2>3 DEF PlaceOf
    <3>2. ASSUME NEW c \in Cores
          PROVE  PlaceOf(c) \in Places /\ CoreAt(PlaceOf(c)) = c
      <4>1. \E place \in Places : CoreAt(place) = c
        BY DEF Cores
      <4> QED BY <4>1 DEF PlaceOf
    <3>3. ports \in Layouts /\ NamedOnce
      BY <2>1 DEF TypeOK, NamesInv
    <3>4. ASSUME NEW c \in Cores, NEW d \in Cores, queue'[c] = queue'[d]
          PROVE  c = d
      <4>1. PlaceOf(c)[1] = PlaceOf(d)[1] /\ PlaceOf(c)[2] = PlaceOf(d)[2]
        <5>1. queue'[c].port = PlaceOf(c)[1] /\ queue'[c].tx = PlaceOf(c)[2]
          BY <3>1
        <5>2. queue'[d].port = PlaceOf(d)[1] /\ queue'[d].tx = PlaceOf(d)[2]
          BY <3>1
        <5> QED BY <3>4, <5>1, <5>2
      <4>2. PlaceOf(c) = PlaceOf(d)
        BY <3>2, <3>3, <4>1, PlaceShape
      <4> QED BY <3>2, <4>2
    <3>5. ASSUME NEW c \in Cores
          PROVE  queue'[c].tx \in TxQueues \ {0}
      <4>1. /\ PlaceOf(c)[1] \in DOMAIN ports
            /\ PlaceOf(c)[2] \in 1..Len(ports[PlaceOf(c)[1]])
            /\ Len(ports[PlaceOf(c)[1]]) \in Nat
        BY <3>2, <3>3, PlaceShape
      <4>2. /\ Cardinality(Cores) \in Nat
            /\ Len(ports[PlaceOf(c)[1]]) <= Cardinality(Cores)
        BY <3>3, <4>1, PortWithinCores
      <4>3. queue'[c].tx = PlaceOf(c)[2]
        BY <3>1
      <4> QED BY <4>1, <4>2, <4>3 DEF TxQueues
    <3> QED BY <1>2, <2>1, <3>1, <3>4, <3>5 DEF NamesInv, QueueOwned
  <2> QED BY <1>4, <2>2, <2>3 DEF InitPorts
<1>5. CASE StopRun \/ UNCHANGED vars
  <2>1. UNCHANGED <<pc, queue>>
    BY <1>5 DEF StopRun, vars, setup
  <2> QED BY <1>2, <2>1 DEF NamesInv, QueueOwned
<1>6. CASE \/ LoadPcap \/ Look \/ NoTokens \/ Panic \/ Drain \/ ResetRefcnt \/ StopPorts \/ CloseEal
           \/ \E tokens \in 1..MaxTokens : Burst(tokens)
  <2>1. UNCHANGED queue /\ pc' # "ports"
    BY <1>6 DEF LoadPcap, Look, NoTokens, Panic, Drain, ResetRefcnt, StopPorts, CloseEal, Step,
       Burst, setup
  <2> QED BY <1>2, <2>1 DEF NamesInv, QueueOwned
<1> QED BY <1>3, <1>4, <1>5, <1>6 DEF Next

(***************************************************************************)
(* The theorems.                                                           *)
(***************************************************************************)

\* Nothing is set up, dealt or sent at the start.
LEMMA InitInv == Init => IInv
<1> SUFFICES ASSUME Init PROVE IInv
  OBVIOUS
<1>1. TypeOK
  <2>1. Mbufs = {}
    BY DEF Init, Mbufs
  <2>2. \A T : <<>> \in [{} -> T]
    OBVIOUS
  <2> QED BY <2>1, <2>2, RingAssumption DEF Init, TypeOK
<1>2. SetupInv /\ CycleInv /\ RefInv /\ NamesInv
  BY DEF Init, SetupInv, CycleInv, RefInv, NamesInv
<1>3. QueueOwned
  <2>1. DOMAIN queue = {}
    BY DEF Init
  <2> QED BY <2>1 DEF QueueOwned
<1> QED BY <1>1, <1>2, <1>3 DEF IInv

\* The invariant of a core, of which the theorems below are consequences.
LEMMA CoreInvariant == Spec => []IInv
<1>1. IInv /\ [Next]_vars => IInv'
  BY StepType, StepSetup, StepCycle, StepRef, StepQueue DEF IInv
<1> QED BY <1>1, InitInv, PTL DEF Spec

\* The counters of a core stay in their types, its ring never holds more than it
\* has descriptors or more than was sent, and no buffer is ever without a
\* reference, in the shutdown too.
THEOREM CoreTypeCorrect == Spec => []TypeOK
<1>1. IInv => TypeOK
  BY DEF IInv
<1> QED BY <1>1, CoreInvariant, PTL

\* While a core sends, no buffer goes back to the pool, for any number of packets,
\* rounds and descriptors and whatever the driver takes and returns, and no two
\* cores share a queue (Worker::run, init_ports).
THEOREM BuffersKept == Spec => []PacketsKept
<1>1. IInv => PacketsKept
  <2> SUFFICES ASSUME IInv PROVE PacketsKept
    OBVIOUS
  <2>1. QueueOwned
    BY DEF IInv
  <2>2. pc = "burst" /\ mbufs_count > 0 => since < mbufs_count * Rounds
    BY DEF IInv, CycleInv, Cycle
  <2>3. ASSUME pc \in {"loop", "burst", "drain", "reset"}, NEW m \in Mbufs
        PROVE  /\ returned[m] = 0
               /\ packets_count_tx > 0 =>
                    refcnt[m] >= Copies(m, packets_count_tx - q, packets_count_tx - 1)
    <3>1. returned[m] = 0
      BY <2>3 DEF IInv, RefInv
    <3>2. ASSUME packets_count_tx > 0
          PROVE  refcnt[m] >= Held(m)
      <4>1. refcnt[m] + TimesSent(mbufs_count, since, m) >= Held(m) + Rounds + Spare(m)
        BY <2>3, <3>2 DEF IInv, RefInv
      <4>2. /\ mbufs_count \in Nat \ {0} /\ since \in Nat /\ m \in 0..(mbufs_count - 1)
            /\ refcnt[m] \in Nat /\ Rounds \in Nat \ {0}
            /\ packets_count_tx - q \in Int /\ packets_count_tx - 1 \in Int
        BY RoundsAssumption DEF IInv, TypeOK, Mbufs
      <4>3. since <= mbufs_count * Rounds
        BY <4>2 DEF IInv, CycleInv, Cycle
      <4>4. /\ TimesSent(mbufs_count, since, m) \in Nat
            /\ TimesSent(mbufs_count, since, m) <= Rounds
        BY <4>2, <4>3, TimesSentBound
      <4>5. Held(m) \in Nat /\ Spare(m) \in Nat
        BY <4>2, CopiesType DEF Held, Spare
      <4> QED BY <4>1, <4>2, <4>4, <4>5
    <3> QED BY <3>1, <3>2 DEF Held
  <2> QED BY <2>1, <2>2, <2>3 DEF PacketsKept
<1> QED BY <1>1, CoreInvariant, PTL

(***************************************************************************)
(* Tokens.                                                                 *)
(***************************************************************************)

Counts == packets_count_tx \in Nat /\ spent \in Nat /\ mbufs_count \in Nat

TokensInv == Counts /\ WithinTokens

\* A burst is never longer than the tokens (Worker::run, the smaller of burst
\* size, packets to the end and tokens).
LEMMA BurstWithinTokens ==
  ASSUME Counts, mbufs_count > 0, NEW tokens \in Nat
  PROVE  BurstLen(tokens) \in Int /\ BurstLen(tokens) <= tokens
<1>1. packets_count_tx % mbufs_count \in Int
  BY DEF Counts
<1> DEFINE rest == mbufs_count - (packets_count_tx % mbufs_count)
<1>2. rest \in Int
  BY <1>1 DEF Counts
<1> HIDE DEF rest
<1>3. BurstSize \in Int
  BY DpdkBounds
<1>4. BurstLen(tokens) = Least(Least(BurstSize, rest), tokens)
  BY DEF BurstLen, rest
<1> QED
  BY <1>2, <1>3, <1>4 DEF Least

\* The packets sent never exceed the tokens consumed, although the driver may
\* take a part of a burst or nothing (Worker::run, consume).
THEOREM TokensRespected == Spec => []WithinTokens
<1>1. Init => TokensInv
  BY DEF Init, TokensInv, Counts, WithinTokens
<1>2. TokensInv /\ [Next]_vars => TokensInv'
  <2> SUFFICES ASSUME TokensInv, [Next]_vars
               PROVE  TokensInv'
    OBVIOUS
  <2> USE DEF TokensInv, Counts, WithinTokens
  <2>1. CASE UNCHANGED vars
    BY <2>1 DEF vars
  <2>2. CASE LoadPcap
    <3>1. UNCHANGED <<packets_count_tx, spent>>
      BY <2>2 DEF LoadPcap
    <3>2. mbufs_count' \in Nat
      <4>1. CASE UNCHANGED mbufs_count
        BY <4>1
      <4>2. CASE \E packets \in 0..MaxPackets, core \in 0..(Cardinality(Places) - 1) :
                   mbufs_count' = Dealt(packets, core)
        BY <4>2, DealtNat, DpdkBounds
      <4> QED
        BY <2>2, <4>1, <4>2 DEF LoadPcap
    <3> QED
      BY <3>1, <3>2
  <2>3. ASSUME NEW tokens \in 1..MaxTokens, Burst(tokens)
        PROVE  TokensInv'
    <3>1. PICK taken \in 0..BurstLen(tokens) :
            /\ packets_count_tx' = packets_count_tx + taken
            /\ spent' = spent + (IF taken > 0 THEN tokens ELSE 0)
      BY <2>3 DEF Burst
    <3>2. mbufs_count' = mbufs_count /\ mbufs_count > 0
      BY <2>3 DEF Burst
    <3>3. tokens \in Nat
      BY DpdkBounds
    <3>4. BurstLen(tokens) \in Int /\ BurstLen(tokens) <= tokens
      BY <3>2, <3>3, BurstWithinTokens
    <3> HIDE DEF TokensInv
    <3> QED
      BY <3>1, <3>2, <3>3, <3>4 DEF TokensInv
  <2>4. CASE \/ InitWorkers \/ InitPorts \/ Look \/ NoTokens \/ Panic \/ StopRun
             \/ Drain \/ ResetRefcnt \/ StopPorts \/ CloseEal
    <3>1. UNCHANGED <<mbufs_count, packets_count_tx, spent>>
      BY <2>4 DEF InitWorkers, InitPorts, Look, NoTokens, Panic, StopRun, Step,
                  Drain, ResetRefcnt, StopPorts, CloseEal
    <3> QED
      BY <3>1
  <2> QED
    BY <2>1, <2>2, <2>3, <2>4 DEF Next
<1>3. TokensInv => WithinTokens
  BY DEF TokensInv
<1> QED
  BY <1>1, <1>2, <1>3, PTL DEF Spec
==============================================================================
