----------------------------- MODULE DpdkWorker -----------------------------
(***************************************************************************)
(* A core of the DPDK engine (dwd-core/src/worker/dpdk.rs): it sends the   *)
(* packets it was given from the capture file over and over, without       *)
(* copying them, so the same buffer is in the transmit ring many times.    *)
(* Its reference count, which the driver lowers once per transmission, is  *)
(* raised only when all packets have been sent Rounds times.               *)
(*                                                                         *)
(* Before that, DpdkEngine::new gives every core a memory pool, a queue    *)
(* and its share of the packets.                                           *)
(*                                                                         *)
(* The driver is external.  It transmits in order, so the ring holds the   *)
(* last q packets sent; a buffer whose count it lowers to zero goes back   *)
(* to the memory pool.  What is received is thrown away by the code and    *)
(* left out.  The cores do not interact: LoadPcap picks any one of them.   *)
(***************************************************************************)
EXTENDS Integers, FiniteSets, Sequences

CONSTANTS
  MaxPackets,   \* bound: packets in the capture file
  Layouts,      \* configurations: for every port the cores that drive it
  MainCore,     \* the main core
  Rounds,       \* rounds between two refills (16 * 1024)
  Slack,        \* references beyond those (1024)
  Ring,         \* descriptors of a transmit queue (PORT_TX_QUEUE_SIZE)
  BurstSize,    \* packets offered to the driver at once (32)
  MaxTokens,    \* bound: tokens of one tick of the shaper
  MaxTx         \* bound: packets sent

ASSUME LayoutsAssumption == \A l \in Layouts : l \in Seq(Seq(Nat)) /\ \E p \in DOMAIN l : l[p] # <<>>
ASSUME RoundsAssumption == Rounds \in Nat \ {0}
ASSUME RingAssumption == Ring \in Nat \ {0} /\ Slack \in Nat /\ Ring <= Slack
ASSUME DpdkBounds == /\ MaxPackets \in Nat /\ BurstSize \in Nat \ {0}
                     /\ MaxTokens \in Nat /\ MaxTx \in Nat

VARIABLES
  ports,            \* the configuration
  queue,            \* queue[c]: port and transmit queue of core c
  mbufs_count,      \* packets of this core
  packets_count_tx, \* packets sent so far
  refcnt,           \* reference count of each packet's buffer
  q,                \* packets in the transmit ring: the last q sent
  returned,         \* how often each buffer was given back to the pool
  pc,               \* position of the worker, then of the shutdown
  is_running,       \* the shared run flag
  spent,            \* history: tokens consumed
  since             \* history: packets sent since the last refill

driverVars == <<q, returned>>
setup == <<ports, queue>>
vars == <<setup, mbufs_count, packets_count_tx, refcnt, driverVars, pc, is_running, spent, since>>

Mbufs == 0..(mbufs_count - 1)

Least(a, b) == IF a < b THEN a ELSE b

\* Config::cores() lists the cores of all ports, one place for every mention, in
\* the order of a hash map; cores_count() counts each core once.
Places == UNION {{<<p, i>> : i \in DOMAIN ports[p]} : p \in DOMAIN ports}
CoreAt(place) == ports[place[1]][place[2]]
Cores == {CoreAt(place) : place \in Places}
NamedOnce == \A x, y \in Places : CoreAt(x) = CoreAt(y) => x = y

\* load_pcap(): packet i of the file goes to the core at place i % cores of
\* that list.
Dealt(packets, core) ==
  Cardinality({i \in 0..(packets - 1) : i % Cardinality(Places) = core})

\* How often buffer m occurs among the packets numbered first..last.
Copies(m, first, last) == Cardinality({i \in first..last : i % mbufs_count = m})

Init ==
  /\ ports \in Layouts
  /\ queue = <<>>
  /\ mbufs_count = 0
  /\ packets_count_tx = 0
  /\ refcnt = <<>>
  /\ q = 0
  /\ returned = <<>>
  /\ pc = "workers"
  /\ is_running = TRUE
  /\ spent = 0
  /\ since = 0

(***************************************************************************)
(* DpdkEngine::new.  Any call of the driver may fail, which ends the run   *)
(* before it has begun.                                                    *)
(***************************************************************************)

\* A memory pool for every core of the list, named after the core: a second
\* pool of the same name is refused.
InitWorkers ==
  /\ pc = "workers"
  /\ pc' \in {"refused"} \cup {p \in {"ports"} : NamedOnce}
  /\ UNCHANGED <<setup, mbufs_count, packets_count_tx, refcnt, driverVars, is_running, spent, since>>

\* The queues of every port: one for each core that drives it, after queue 0,
\* out of as many as there are cores in all, and one more.
TxQueues == 0..Cardinality(Cores)

InitPorts ==
  /\ pc = "ports"
  /\ \/ pc' = "refused" /\ UNCHANGED queue
     \/ /\ pc' = "pcap"
        /\ queue' = [c \in Cores |->
             LET place == CHOOSE place \in Places : CoreAt(place) = c IN
               [port |-> place[1], tx |-> place[2]]]
  /\ UNCHANGED <<ports, mbufs_count, packets_count_tx, refcnt, driverVars, is_running, spent, since>>

\* The last check of new(): as many cores as named, and the main core besides.
MainCoreApart == MainCore \notin Cores

\* The packets are dealt out.
LoadPcap ==
  /\ pc = "pcap"
  /\ \/ pc' = "refused" /\ UNCHANGED <<mbufs_count, refcnt, returned>>
     \/ /\ MainCoreApart
        /\ pc' = "loop"
        /\ \E packets \in 0..MaxPackets, core \in 0..(Cardinality(Places) - 1) :
             mbufs_count' = Dealt(packets, core)
        /\ refcnt' = [m \in 0..(mbufs_count' - 1) |-> 1]
        /\ returned' = [m \in 0..(mbufs_count' - 1) |-> 0]
  /\ UNCHANGED <<setup, packets_count_tx, q, is_running, spent, since>>

(***************************************************************************)
(* Worker::run                                                             *)
(***************************************************************************)

\* 0.is_multiple_of(0) holds, so a core without packets refills nothing.
RefillDue ==
  \/ packets_count_tx = 0
  \/ mbufs_count > 0 /\ packets_count_tx % (mbufs_count * Rounds) = 0

\* The top of the loop, up to the tick of the shaper.
LookIgnoresFlag ==
  /\ pc = "loop"
  /\ pc' = "burst"
  /\ IF RefillDue
     THEN refcnt' = [m \in Mbufs |-> Rounds + Slack] /\ since' = 0
     ELSE UNCHANGED <<refcnt, since>>
  /\ UNCHANGED <<setup, mbufs_count, packets_count_tx, driverVars, is_running, spent>>

LookRefillsExactly ==
  /\ pc = "loop"
  /\ IF is_running
     THEN /\ pc' = "burst"
          /\ IF RefillDue
             THEN refcnt' = [m \in Mbufs |-> Rounds] /\ since' = 0
             ELSE UNCHANGED <<refcnt, since>>
     ELSE pc' = "drain" /\ UNCHANGED <<refcnt, since>>
  /\ UNCHANGED <<setup, mbufs_count, packets_count_tx, driverVars, is_running, spent>>

Look ==
  /\ pc = "loop"
  /\ IF is_running
     THEN /\ pc' = "burst"
          /\ IF RefillDue
             THEN refcnt' = [m \in Mbufs |-> Rounds + Slack] /\ since' = 0
             ELSE UNCHANGED <<refcnt, since>>
     ELSE pc' = "drain" /\ UNCHANGED <<refcnt, since>>
  /\ UNCHANGED <<setup, mbufs_count, packets_count_tx, driverVars, is_running, spent>>

\* A burst stops at the end of the packets and at the tokens.
BurstLenPastTokens(tokens) == Least(BurstSize, mbufs_count - (packets_count_tx % mbufs_count))

BurstLen(tokens) ==
  Least(Least(BurstSize, mbufs_count - (packets_count_tx % mbufs_count)), tokens)

\* The driver lowers the count of a buffer n times; on the last reference the
\* buffer goes back to the pool (with a count of 1, as buffers there have).
Lowered(m, n) == IF refcnt[m] > n THEN refcnt[m] - n ELSE 1
GivenBack(m, n) == IF refcnt[m] > n THEN 0 ELSE n - refcnt[m] + 1

\* rte_eth_tx_burst(): the driver first collects the descriptors of packets
\* that have left, the oldest first, then takes as many packets as it likes.
TxBurst(done, taken) ==
  LET collected == [m \in Mbufs |->
        Copies(m, packets_count_tx - q, packets_count_tx - q + done - 1)] IN
    /\ refcnt' = [m \in Mbufs |-> Lowered(m, collected[m])]
    /\ returned' = [m \in Mbufs |-> returned[m] + GivenBack(m, collected[m])]
    /\ q' = q - done + taken

\* The rest of the loop.  All tokens are consumed, unless nothing was sent.
Burst(tokens) ==
  /\ pc = "burst"
  /\ tokens > 0
  /\ mbufs_count > 0
  /\ \E done \in 0..q, taken \in 0..BurstLen(tokens) :
       /\ taken <= Ring - (q - done)
       /\ packets_count_tx + taken <= MaxTx
       /\ TxBurst(done, taken)
       /\ packets_count_tx' = packets_count_tx + taken
       /\ since' = since + taken
       /\ spent' = spent + (IF taken > 0 THEN tokens ELSE 0)
  /\ pc' = "loop"
  /\ UNCHANGED <<setup, mbufs_count, is_running>>

NoTokens ==
  /\ pc = "burst"
  /\ pc' = "loop"
  /\ UNCHANGED <<setup, mbufs_count, packets_count_tx, refcnt, driverVars, is_running, spent, since>>

\* A core without packets divides by zero; the panic in an extern "C"
\* function aborts the process.
Panic ==
  /\ pc = "burst"
  /\ mbufs_count = 0
  /\ pc' = "abort"
  /\ UNCHANGED <<setup, mbufs_count, packets_count_tx, refcnt, driverVars, is_running, spent, since>>

(***************************************************************************)
(* DpdkEngine::run after the worker cores have been joined.                *)
(***************************************************************************)

Step(from, to) ==
  /\ pc = from
  /\ pc' = to
  /\ UNCHANGED <<setup, mbufs_count, packets_count_tx, is_running, spent, since>>

Drain == Step("drain", "reset") /\ UNCHANGED <<refcnt, driverVars>>

ResetToZero ==
  /\ Step("reset", "stop")
  /\ refcnt' = [m \in Mbufs |-> 0]
  /\ UNCHANGED driverVars

ResetRefcnt ==
  /\ Step("reset", "stop")
  /\ refcnt' = [m \in Mbufs |-> 1]
  /\ UNCHANGED driverVars

StopPorts == Step("stop", "close") /\ UNCHANGED <<refcnt, driverVars>>

\* Dropping the EAL closes the ports; the driver lets go of what is still in
\* its ring.
CloseEal ==
  /\ Step("close", "done")
  /\ LET held == [m \in Mbufs |-> Copies(m, packets_count_tx - q, packets_count_tx - 1)] IN
       /\ refcnt' = [m \in Mbufs |-> Lowered(m, held[m])]
       /\ returned' = [m \in Mbufs |-> returned[m] + GivenBack(m, held[m])]
  /\ q' = 0

\* Somebody ends the run, which has begun (external).
StopRun ==
  /\ is_running
  /\ pc \notin {"workers", "ports", "pcap", "refused"}
  /\ is_running' = FALSE
  /\ UNCHANGED <<setup, mbufs_count, packets_count_tx, refcnt, driverVars, pc, spent, since>>

Shutdown == Drain \/ ResetRefcnt \/ StopPorts \/ CloseEal

Next ==
  \/ InitWorkers \/ InitPorts \/ LoadPcap
  \/ Look \/ NoTokens \/ Panic \/ StopRun
  \/ \E tokens \in 1..MaxTokens : Burst(tokens)
  \/ Drain \/ ResetRefcnt \/ StopPorts \/ CloseEal

Spec == Init /\ [][Next]_vars

\* The polling loop of a core and the main thread keep running; a tick without
\* tokens is always possible.
FairSpec == Spec /\ WF_vars(Look) /\ WF_vars(NoTokens) /\ WF_vars(Shutdown)

------------------------------------------------------------------------------
TypeOK ==
  /\ ports \in Layouts
  /\ mbufs_count \in Nat
  /\ packets_count_tx \in Nat
  /\ refcnt \in [Mbufs -> Nat \ {0}]
  /\ q \in 0..Ring
  /\ q <= packets_count_tx
  /\ returned \in [Mbufs -> Nat]
  /\ pc \in {"workers", "ports", "pcap", "refused", "loop", "burst", "abort", "drain", "reset", "stop", "close", "done"}
  /\ is_running \in BOOLEAN
  /\ spent \in Nat
  /\ since \in Nat

\* No two cores transmit on one queue, and every core's queue was set up.
QueueOwned ==
  /\ \A c, d \in DOMAIN queue : c # d => queue[c] # queue[d]
  /\ \A c \in DOMAIN queue : queue[c].tx \in TxQueues \ {0}

\* While the worker sends, it alone uses its queue, and no packet goes back to
\* the pool, whatever the driver takes and whenever it reports a transmission:
\* the references last from one refill to the next, and no burst jumps over
\* the moment of a refill (Worker::run: the refill, and the bound of a burst at
\* the last packet; init_ports: the queues).
PacketsKept ==
  /\ QueueOwned
  /\ pc \in {"loop", "burst", "drain", "reset"} =>
       \A m \in Mbufs :
         /\ returned[m] = 0
         /\ packets_count_tx > 0 =>
              refcnt[m] >= Copies(m, packets_count_tx - q, packets_count_tx - 1)
  /\ pc = "burst" /\ mbufs_count > 0 => since < mbufs_count * Rounds

\* The packets sent never exceed the tokens consumed, although a burst is cut
\* short by the end of the packets and by the driver (Worker::run, consume).
WithinTokens == packets_count_tx <= spent

\* Once the run flag is cleared the worker stops and the shutdown goes through
\* to its end, unless a core without packets has aborted the process.
ShutdownCompletes == ~is_running ~> pc \in {"done", "abort"}
==============================================================================
