--------------------------- MODULE TelemetryProofs ---------------------------
(***************************************************************************)
(* Proofs about the telemetry, for every number of workers, histogram,     *)
(* set of page bounds and channel capacity: snapshots are bracketed by the *)
(* true totals, their latencies cover their answers, and nothing a reader  *)
(* has seen goes back.                                                     *)
(***************************************************************************)
EXTENDS Telemetry, Arithmetic, TLAPS

(***************************************************************************)
(* The inductive invariant.                                                *)
(***************************************************************************)

\* Workers whose cell of field f the snapshot has still to read, and what it
\* would find there.
UnreadAt(p, f) == {w \in W : \E k \in 1..Len(Cells) : k > p /\ Cells[k] = <<f, w>>}
Unread(f) == UnreadAt(pos, f)
Coming(f) == SumFunctionOnSet(Column(f), Unread(f))

\* What has been read and what is still to be read lie, together, between the
\* total at the beginning and the total now.
BracketInv ==
  \A f \in Fields : low[f] <= snap[f] + Coming(f) /\ snap[f] + Coming(f) <= Total(f)

\* Values are ordered as they travel: screen, last snapshot stored, channel,
\* snapshot to send, totals at the beginning of the next one.
TravelInv ==
  \A f \in Fields :
    /\ shown[f] <= remote[f]
    /\ remote[f] <= pending[f]
    /\ pending[f] <= Total(f)
    /\ reader = "stream" => pending[f] <= low[f]
    /\ \A i \in DOMAIN chan : remote[f] <= chan[i][f] /\ chan[i][f] <= pending[f]
    /\ \A i, j \in DOMAIN chan : i <= j => chan[i][f] <= chan[j][f]
    /\ f \in Counters => prom[f] <= Total(f)

\* A worker has recorded a latency for every answer it has counted, but for
\* the one it is at.
Recorded(w) == Latencies(cell[w])
RecordInv ==
  \A w \in W : cell[w]["responses"] + (IF wpc[w] = "count" THEN 1 ELSE 0)
                 = Recorded(w) + (IF wpc[w] = "record" THEN 1 ELSE 0)

\* What the histogram of worker w will still add to the snapshot: at least its
\* answers, until the reading of it begins, then the buckets not read yet.
UnreadBuckets(w) == {b \in DOMAIN Hist : w \in Unread(Hist[b])}
Promise(w) ==
  IF w \in Unread(Hist[1]) THEN cell[w]["responses"]
  ELSE SumFunctionOnSet(Buckets(cell[w]), UnreadBuckets(w))
Promises == [w \in W |-> Promise(w)]
Promised == SumFunction(Promises)

\* Answers read and to be read are covered by latencies read and promised.
CoverInv ==
  snap["responses"] + Coming("responses") <= Latencies(snap) + between + Promised

\* A worker is counted as between once at most, when its histogram is begun.
BetweenInv == between + Cardinality(Unread(Hist[1])) <= Workers

IInv == TypeOK /\ BracketInv /\ TravelInv /\ RecordInv /\ CoverInv /\ BetweenInv

(***************************************************************************)
(* The order of the reads.                                                 *)
(***************************************************************************)

H == Len(Hist)

\* The place of bucket b of worker w.
Slot(w, b) == 2 * Workers + ((w - 1) * H + b)

\* The buckets of the histogram, and the fields.
LEMMA HistShape ==
  /\ H \in Nat \ {0} /\ DOMAIN Hist = 1..H /\ 1 \in DOMAIN Hist
  /\ Workers \in Nat \ {0}
  /\ \A b \in 1..H : Hist[b] \in Fields /\ Hist[b] \notin Counters
  /\ \A a, b \in 1..H : Hist[a] = Hist[b] => a = b
  /\ "requests" \in Fields /\ "responses" \in Fields
<1>1. H \in Nat \ {0} /\ DOMAIN Hist = 1..H
  BY HistAssumption DEF H
<1> QED BY <1>1, HistAssumption, WorkersAssumption DEF Fields, Counters

\* The cells by their places.
LEMMA CellAt ==
  /\ Cells \in Seq(Fields \X W)
  /\ Len(Cells) = 2 * Workers + Workers * H
  /\ \A n \in 1..Workers : Cells[n] = <<"requests", n>> /\ Cells[Workers + n] = <<"responses", n>>
  /\ \A n \in 1..(Workers * H) : Cells[2 * Workers + n] = HistCells[n]
<1> DEFINE P == PerWorker("requests")
           Q == PerWorker("responses")
           R == HistCells
           S == Fields \X W
<1>1. P \in Seq(S) /\ Len(P) = Workers /\ Q \in Seq(S) /\ Len(Q) = Workers
  BY HistShape DEF PerWorker, W
<1>2. R \in Seq(S) /\ Len(R) = Workers * H
  <2>0. Workers * H \in Nat
    BY HistShape
  <2>1. ASSUME NEW n \in 1..(Workers * H)
        PROVE  <<Hist[((n - 1) % H) + 1], ((n - 1) \div H) + 1>> \in S
    <3> DEFINE x == (n - 1) \div H
               y == (n - 1) % H
    <3>1. n - 1 \in Nat /\ n - 1 < Workers * H
      BY <2>0
    <3>2. x \in Nat /\ y \in 0..(H - 1) /\ n - 1 = H * x + y
      BY <3>1, HistShape, DivFacts
    <3> HIDE DEF x, y
    <3>3. x < Workers
      <4> SUFFICES ASSUME Workers <= x PROVE FALSE
        BY <3>2, HistShape
      <4>1. H * Workers <= H * x
        BY <3>2, HistShape
      <4>2. H * Workers = Workers * H /\ H * x \in Nat
        BY <3>2, HistShape
      <4> QED BY <2>0, <3>1, <3>2, <4>1, <4>2
    <3>4. y + 1 \in 1..H /\ x + 1 \in W
      BY <3>2, <3>3, HistShape DEF W
    <3> QED BY <3>4, HistShape DEF x, y
  <2> QED BY <2>0, <2>1 DEF HistCells, H
<1>3. Cells = (P \o Q) \o R
  BY DEF Cells
<1> HIDE DEF P, Q, R, S
<1>4. P \o Q \in Seq(S) /\ Len(P \o Q) = 2 * Workers
  BY <1>1, HistShape
<1>5. Cells \in Seq(S) /\ Len(Cells) = 2 * Workers + Workers * H
  <2> DEFINE T == P \o Q
  <2>1. T \in Seq(S) /\ Cells = T \o R /\ R \in Seq(S)
    BY <1>2, <1>3, <1>4
  <2> HIDE DEF T
  <2>3. T \o R \in Seq(S) /\ Len(T \o R) = Len(T) + Len(R)
    BY <2>1
  <2>2. Cells \in Seq(S) /\ Len(Cells) = Len(T) + Len(R)
    BY <2>1, <2>3, Zenon
  <2> QED BY <1>2, <1>4, <2>2 DEF T
<1>6. ASSUME NEW n \in 1..Workers PROVE Cells[n] = <<"requests", n>> /\ Cells[Workers + n] = <<"responses", n>>
  <2>1. n \in Nat /\ n \in 1..(2 * Workers) /\ Workers + n \in 1..(2 * Workers)
    BY HistShape
  <2>2. Cells[n] = (P \o Q)[n] /\ Cells[Workers + n] = (P \o Q)[Workers + n]
    BY <1>2, <1>3, <1>4, <2>1
  <2>3. (P \o Q)[n] = P[n] /\ (P \o Q)[Workers + n] = Q[n]
    BY <1>1, <2>1, HistShape
  <2> QED BY <2>2, <2>3 DEF P, Q, PerWorker, W
<1>7. ASSUME NEW n \in 1..(Workers * H) PROVE Cells[2 * Workers + n] = HistCells[n]
  <2>1. Cells[2 * Workers + n] = R[n]
    BY <1>2, <1>3, <1>4, HistShape
  <2> QED BY <2>1 DEF R
<1> QED BY <1>5, <1>6, <1>7 DEF S

\* Every bucket has its slot, after the counters, and the first bucket of a
\* worker comes before its others.
LEMMA SlotOf ==
  ASSUME NEW w \in W, NEW b \in 1..H
  PROVE  /\ Slot(w, b) \in 1..Len(Cells)
         /\ Slot(w, b) > 2 * Workers
         /\ Cells[Slot(w, b)] = <<Hist[b], w>>
         /\ Slot(w, 1) <= Slot(w, b)
<1> DEFINE n == (w - 1) * H + b
<1>1. w \in Nat \ {0} /\ w <= Workers /\ w - 1 \in Nat /\ b - 1 \in 0..(H - 1) /\ H \in Nat \ {0} /\ Workers \in Nat
  BY HistShape DEF W
<1>2. (w - 1) * H = H * (w - 1) /\ (w - 1) * H \in Nat /\ w * H \in Nat /\ Workers * H \in Nat
  BY <1>1
<1>3. w * H <= Workers * H
  BY <1>1
<1>4. (w - 1) * H = w * H - H
  BY <1>1
<1>5. n \in 1..(Workers * H)
  BY <1>1, <1>2, <1>3, <1>4
<1>6. n - 1 = H * (w - 1) + (b - 1)
  BY <1>1, <1>2
<1>7. (n - 1) \div H = w - 1 /\ (n - 1) % H = b - 1
  <2>1. (H * (w - 1) + (b - 1)) \div H = w - 1 /\ (H * (w - 1) + (b - 1)) % H = b - 1
    BY <1>1, DivUnique
  <2> QED BY <1>6, <2>1
<1>8. HistCells[n] = <<Hist[b], w>>
  <2>1. HistCells[n] = <<Hist[((n - 1) % H) + 1], ((n - 1) \div H) + 1>>
    BY <1>5 DEF HistCells, H
  <2> QED BY <1>1, <1>7, <2>1
<1>9. (w - 1) * H + 1 <= n
  BY <1>1, <1>2
<1> HIDE DEF n
<1>10. Cells[2 * Workers + n] = <<Hist[b], w>> /\ 2 * Workers + n \in 1..Len(Cells) /\ 2 * Workers + n > 2 * Workers
  BY <1>1, <1>2, <1>5, <1>8, CellAt
<1>11. Slot(w, b) = 2 * Workers + n
  BY DEF Slot, n
<1>12. Slot(w, 1) <= Slot(w, b)
  BY <1>1, <1>2, <1>5, <1>9, <1>11 DEF Slot
<1> QED BY <1>10, <1>11, <1>12

\* There are no other cells.
LEMMA CellKind ==
  ASSUME NEW k \in 1..Len(Cells)
  PROVE  \/ k \in W /\ Cells[k] = <<"requests", k>>
         \/ k - Workers \in W /\ Cells[k] = <<"responses", k - Workers>>
         \/ \E w \in W, b \in 1..H : k = Slot(w, b) /\ Cells[k] = <<Hist[b], w>>
<1>1. Workers \in Nat \ {0} /\ H \in Nat \ {0} /\ Workers * H \in Nat /\ k \in Nat \ {0} /\ k <= 2 * Workers + Workers * H
  BY HistShape, CellAt
<1>2. CASE k <= Workers
  BY <1>1, <1>2, CellAt DEF W
<1>3. CASE Workers < k /\ k <= 2 * Workers
  <2>1. k - Workers \in 1..Workers /\ Workers + (k - Workers) = k
    BY <1>1, <1>3
  <2> QED BY <2>1, CellAt DEF W
<1>4. CASE 2 * Workers < k
  <2> DEFINE n == k - 2 * Workers
             x == (n - 1) \div H
             y == (n - 1) % H
  <2>1. n \in 1..(Workers * H) /\ n - 1 \in Nat /\ n - 1 < Workers * H /\ k = 2 * Workers + n
    BY <1>1, <1>4
  <2>2. x \in Nat /\ y \in 0..(H - 1) /\ n - 1 = H * x + y
    BY <1>1, <2>1, DivFacts
  <2> HIDE DEF x, y, n
  <2>3. x < Workers
    <3> SUFFICES ASSUME Workers <= x PROVE FALSE
      BY <1>1, <2>2
    <3>1. H * Workers <= H * x
      BY <1>1, <2>2
    <3>2. H * Workers = Workers * H /\ H * x \in Nat
      BY <1>1, <2>2
    <3> QED BY <1>1, <2>1, <2>2, <3>1, <3>2
  <2>4. y + 1 \in 1..H /\ x + 1 \in W
    BY <1>1, <2>2, <2>3 DEF W
  <2>5. k = Slot(x + 1, y + 1)
    <3>1. (x + 1) - 1 = x
      BY <2>2
    <3>2. x * H = H * x /\ x * H \in Nat
      BY <1>1, <2>2
    <3> QED BY <1>1, <2>1, <2>2, <3>1, <3>2 DEF Slot
  <2>6. Cells[k] = <<Hist[y + 1], x + 1>>
    BY <2>4, <2>5, SlotOf
  <2> QED BY <2>4, <2>5, <2>6
<1> QED BY <1>1, <1>2, <1>3, <1>4

\* Every cell is read once.
LEMMA CellOnce ==
  ASSUME NEW k \in 1..Len(Cells), NEW m \in 1..Len(Cells), Cells[k] = Cells[m]
  PROVE  k = m
<1>1. k \in Nat /\ m \in Nat /\ Workers \in Nat
  BY HistShape, CellAt
<1>2. \A b \in 1..H : Hist[b] # "requests" /\ Hist[b] # "responses"
  BY HistShape DEF Counters
<1>m. \/ m \in W /\ Cells[m] = <<"requests", m>>
      \/ m - Workers \in W /\ Cells[m] = <<"responses", m - Workers>>
      \/ \E w \in W, b \in 1..H : m = Slot(w, b) /\ Cells[m] = <<Hist[b], w>>
  BY CellKind
<1>3. CASE k \in W /\ Cells[k] = <<"requests", k>>
  <2>1. Cells[m][1] = "requests" /\ Cells[m][2] = k
    BY <1>3
  <2>2. m \in W /\ Cells[m] = <<"requests", m>>
    BY <1>2, <1>m, <2>1
  <2> QED BY <2>1, <2>2
<1>4. CASE k - Workers \in W /\ Cells[k] = <<"responses", k - Workers>>
  <2>1. Cells[m][1] = "responses" /\ Cells[m][2] = k - Workers
    BY <1>4
  <2>2. Cells[m] = <<"responses", m - Workers>>
    BY <1>2, <1>m, <2>1
  <2>3. k - Workers = m - Workers
    BY <2>1, <2>2
  <2> QED BY <1>1, <2>3
<1>5. CASE \E w \in W, b \in 1..H : k = Slot(w, b) /\ Cells[k] = <<Hist[b], w>>
  <2>1. PICK w \in W, b \in 1..H : k = Slot(w, b) /\ Cells[k] = <<Hist[b], w>>
    BY <1>5
  <2>2. PICK u \in W, c \in 1..H : m = Slot(u, c) /\ Cells[m] = <<Hist[c], u>>
    BY <1>2, <2>1, CellKind
  <2>3. w = u /\ b = c
    BY <2>1, <2>2, HistShape
  <2> QED BY <2>1, <2>2, <2>3
<1> QED BY <1>3, <1>4, <1>5, CellKind

\* Every field of every worker has a cell.
LEMMA CellOf ==
  ASSUME NEW f \in Fields, NEW w \in W
  PROVE  \E k \in 1..Len(Cells) : Cells[k] = <<f, w>>
<1>1. Workers \in Nat /\ w \in 1..Workers /\ Len(Cells) = 2 * Workers + Workers * H /\ Workers * H \in Nat
  BY HistShape, CellAt DEF W
<1>2. CASE f = "requests"
  <2>1. w \in 1..Len(Cells)
    BY <1>1
  <2> QED BY <1>1, <1>2, <2>1, CellAt
<1>3. CASE f = "responses"
  <2>1. Workers + w \in 1..Len(Cells)
    BY <1>1
  <2> QED BY <1>1, <1>3, <2>1, CellAt
<1>4. CASE \E b \in 1..H : f = Hist[b]
  BY <1>4, SlotOf
<1> QED BY <1>2, <1>3, <1>4, HistShape DEF Fields, Counters

\* Nothing has been read when a snapshot begins, everything when it is taken.
LEMMA UnreadEnds ==
  ASSUME NEW f \in Fields
  PROVE  UnreadAt(0, f) = W /\ UnreadAt(Len(Cells), f) = {}
<1>1. Len(Cells) \in Nat
  BY CellAt
<1>2. UnreadAt(0, f) = W
  <2> SUFFICES ASSUME NEW w \in W PROVE w \in UnreadAt(0, f)
    BY DEF UnreadAt
  <2>1. PICK k \in 1..Len(Cells) : Cells[k] = <<f, w>>
    BY CellOf
  <2>2. k > 0
    BY <1>1
  <2> QED BY <2>1, <2>2 DEF UnreadAt
<1>3. UnreadAt(Len(Cells), f) = {}
  BY <1>1 DEF UnreadAt
<1> QED BY <1>2, <1>3

\* Reading a cell takes its worker, and nobody else, off the list of its field.
LEMMA UnreadStep ==
  ASSUME NEW p \in 0..Len(Cells), p < Len(Cells), NEW g, NEW v, Cells[p + 1] = <<g, v>>
  PROVE  /\ g \in Fields /\ v \in W /\ v \in UnreadAt(p, g)
         /\ UnreadAt(p + 1, g) = UnreadAt(p, g) \ {v}
         /\ \A f \in Fields : f # g => UnreadAt(p + 1, f) = UnreadAt(p, f)
<1>1. Len(Cells) \in Nat /\ p \in Nat /\ p + 1 \in 1..Len(Cells) /\ p + 1 > p
  BY CellAt
<1>2. <<g, v>> \in Fields \X W
  BY <1>1, CellAt
<1>3. g \in Fields /\ v \in W
  BY <1>2
<1>4. v \in UnreadAt(p, g)
  BY <1>1, <1>3 DEF UnreadAt
<1>5. \A k \in 1..Len(Cells) : k > p <=> k > p + 1 \/ k = p + 1
  BY <1>1
<1>6. v \notin UnreadAt(p + 1, g)
  <2> SUFFICES ASSUME NEW k \in 1..Len(Cells), k > p + 1, Cells[k] = <<g, v>> PROVE FALSE
    BY DEF UnreadAt
  <2>1. k = p + 1
    BY <1>1, CellOnce
  <2> QED BY <1>1, <2>1
<1>7. ASSUME NEW f, NEW w \in W, <<f, w>> # <<g, v>>
      PROVE  w \in UnreadAt(p + 1, f) <=> w \in UnreadAt(p, f)
  <2>1. \A k \in 1..Len(Cells) : Cells[k] = <<f, w>> => k # p + 1
    BY <1>7
  <2> QED BY <1>5, <2>1 DEF UnreadAt
<1>8. UnreadAt(p + 1, g) = UnreadAt(p, g) \ {v}
  <2>1. \A w \in W : w # v => (w \in UnreadAt(p + 1, g) <=> w \in UnreadAt(p, g))
    BY <1>7
  <2>2. UnreadAt(p + 1, g) \subseteq W /\ UnreadAt(p, g) \subseteq W
    BY DEF UnreadAt
  <2> HIDE DEF UnreadAt
  <2> QED BY <1>6, <2>1, <2>2
<1>9. ASSUME NEW f \in Fields, f # g PROVE UnreadAt(p + 1, f) = UnreadAt(p, f)
  <2>1. \A w \in W : w \in UnreadAt(p + 1, f) <=> w \in UnreadAt(p, f)
    BY <1>7, <1>9
  <2>2. UnreadAt(p + 1, f) \subseteq W /\ UnreadAt(p, f) \subseteq W
    BY DEF UnreadAt
  <2> QED BY <2>1, <2>2
<1> QED BY <1>3, <1>4, <1>8, <1>9

\* Once the histogram of some worker is begun, all answers have been read; and
\* a histogram is begun with its first bucket.
LEMMA ReadOrder ==
  ASSUME NEW p \in 0..Len(Cells), NEW w \in W
  PROVE  /\ w \notin UnreadAt(p, Hist[1]) => UnreadAt(p, "responses") = {}
         /\ w \in UnreadAt(p, Hist[1]) => \A b \in 1..H : w \in UnreadAt(p, Hist[b])
<1>1. Len(Cells) \in Nat /\ p \in Nat /\ Workers \in Nat /\ H \in Nat \ {0} /\ 1 \in 1..H
  BY CellAt, HistShape
<1>2. Slot(w, 1) \in 1..Len(Cells) /\ Slot(w, 1) > 2 * Workers /\ Cells[Slot(w, 1)] = <<Hist[1], w>>
  BY <1>1, SlotOf
<1>3. ASSUME w \notin UnreadAt(p, Hist[1]) PROVE UnreadAt(p, "responses") = {}
  <2>1. Slot(w, 1) <= p
    BY <1>1, <1>2, <1>3 DEF UnreadAt
  <2> SUFFICES ASSUME NEW u \in W, NEW k \in 1..Len(Cells), k > p, Cells[k] = <<"responses", u>>
               PROVE  FALSE
    BY DEF UnreadAt
  <2>2. Workers + u \in 1..Len(Cells) /\ Cells[Workers + u] = <<"responses", u>> /\ Workers + u <= 2 * Workers
    <3>1. u \in 1..Workers /\ Len(Cells) = 2 * Workers + Workers * H /\ Workers * H \in Nat
      BY <1>1, CellAt DEF W
    <3>2. Workers + u \in 1..Len(Cells) /\ Workers + u <= 2 * Workers
      BY <1>1, <3>1
    <3>3. Cells[Workers + u] = <<"responses", u>>
      BY <3>1, CellAt
    <3> QED BY <3>2, <3>3
  <2>3. k = Workers + u
    BY <2>2, CellOnce
  <2> QED BY <1>1, <1>2, <2>1, <2>2, <2>3
<1>4. ASSUME w \in UnreadAt(p, Hist[1]), NEW b \in 1..H PROVE w \in UnreadAt(p, Hist[b])
  <2>1. PICK k \in 1..Len(Cells) : k > p /\ Cells[k] = <<Hist[1], w>>
    BY <1>4 DEF UnreadAt
  <2>2. k = Slot(w, 1)
    BY <1>2, <2>1, CellOnce
  <2>3. Slot(w, b) \in 1..Len(Cells) /\ Cells[Slot(w, b)] = <<Hist[b], w>> /\ Slot(w, 1) <= Slot(w, b)
    BY SlotOf
  <2>4. Slot(w, b) > p
    BY <1>1, <2>1, <2>2, <2>3
  <2> QED BY <2>3, <2>4 DEF UnreadAt
<1> QED BY <1>3, <1>4

\* When a bucket other than the first is read, the first has been.
LEMMA LaterBucket ==
  ASSUME NEW p \in 0..Len(Cells), p < Len(Cells), NEW b \in 1..H, b # 1, NEW v,
         Cells[p + 1] = <<Hist[b], v>>
  PROVE  v \notin UnreadAt(p, Hist[1])
<1>1. Len(Cells) \in Nat /\ p \in Nat /\ 1 \in 1..H /\ Hist[b] # Hist[1] /\ p + 1 \in 1..Len(Cells)
  BY CellAt, HistShape
<1>2. v \in W
  BY UnreadStep
<1>3. /\ Slot(v, 1) \in 1..Len(Cells) /\ Cells[Slot(v, 1)] = <<Hist[1], v>>
      /\ Slot(v, b) \in 1..Len(Cells) /\ Cells[Slot(v, b)] = <<Hist[b], v>>
      /\ Slot(v, 1) <= Slot(v, b)
  BY <1>1, <1>2, SlotOf
<1>4. p + 1 = Slot(v, b)
  BY <1>1, <1>3, CellOnce
<1>5. Slot(v, 1) # Slot(v, b)
  BY <1>1, <1>3
<1>6. Slot(v, 1) <= p
  BY <1>1, <1>3, <1>4, <1>5
<1> SUFFICES ASSUME NEW k \in 1..Len(Cells), k > p, Cells[k] = <<Hist[1], v>> PROVE FALSE
  BY DEF UnreadAt
<1>7. k = Slot(v, 1)
  BY <1>3, CellOnce
<1> QED BY <1>1, <1>6, <1>7

(***************************************************************************)
(* Snapshots lie between the totals.                                       *)
(***************************************************************************)

\* Sums over workers are sums of natural numbers over a finite set.
LEMMA ColumnType ==
  ASSUME TypeOK, NEW f \in Fields, NEW S \in SUBSET W
  PROVE  /\ IsFiniteSet(S)
         /\ \A w \in W : Column(f)[w] = cell[w][f] /\ cell[w][f] \in Nat
         /\ Ints(Column(f), S)
         /\ SumFunctionOnSet(Column(f), S) \in Nat
         /\ Total(f) = SumFunctionOnSet(Column(f), W)
         /\ Total(f) \in Nat
<1>1. IsFiniteSet(W)
  BY WorkersAssumption, FS_Interval DEF W
<1>2. IsFiniteSet(S)
  BY <1>1, FS_Subset
<1>3. \A w \in W : Column(f)[w] = cell[w][f] /\ cell[w][f] \in Nat
  BY DEF TypeOK, Column, Snapshots
<1>4. Ints(Column(f), S)
  BY <1>3 DEF Ints
<1>5. SumFunctionOnSet(Column(f), S) \in Nat /\ SumFunctionOnSet(Column(f), W) \in Nat
  BY <1>1, <1>2, <1>3, SumNat
<1>6. Total(f) = SumFunctionOnSet(Column(f), W)
  BY DEF Total, SumFunction, Column
<1> QED BY <1>2, <1>3, <1>4, <1>5, <1>6

\* What a worker's count does to its cells.
LEMMA AddCell ==
  ASSUME TypeOK, NEW w \in W, NEW g \in Fields, Add(w, g)
  PROVE  /\ cell' \in [W -> Snapshots]
         /\ \A u \in W, f \in Fields :
              cell'[u][f] = cell[u][f] + (IF u = w /\ f = g THEN 1 ELSE 0)
<1>1. cell \in [W -> [Fields -> Nat]]
  BY DEF TypeOK, Snapshots
<1>2. cell' = [cell EXCEPT ![w] = [cell[w] EXCEPT ![g] = cell[w][g] + 1]]
  BY DEF Add
<1>3. [cell[w] EXCEPT ![g] = cell[w][g] + 1] \in [Fields -> Nat]
  BY <1>1
<1>4. cell' \in [W -> [Fields -> Nat]]
  BY <1>1, <1>2, <1>3
<1>5. ASSUME NEW u \in W, NEW f \in Fields
      PROVE  cell'[u][f] = cell[u][f] + (IF u = w /\ f = g THEN 1 ELSE 0)
  <2>1. cell[u][f] \in Nat
    BY <1>1
  <2>2. CASE u = w
    BY <1>1, <1>2, <2>1, <2>2
  <2>3. CASE u # w
    BY <1>1, <1>2, <2>1, <2>3
  <2> QED BY <2>2, <2>3
<1> QED BY <1>4, <1>5 DEF Snapshots

\* ... and to the sums of a field.
LEMMA AddColumn ==
  ASSUME TypeOK, NEW w \in W, NEW g \in Fields, Add(w, g),
         NEW f \in Fields, NEW S \in SUBSET W
  PROVE  /\ SumFunctionOnSet(Column(f)', S)
              = SumFunctionOnSet(Column(f), S) + (IF f = g /\ w \in S THEN 1 ELSE 0)
         /\ Total(f)' = Total(f) + (IF f = g THEN 1 ELSE 0)
<1> DEFINE d == Column(f)'
           c == Column(f)
<1>1. \A u \in W : d[u] = cell'[u][f]
  BY DEF Column
<1>2. \A u \in W : c[u] = cell[u][f] /\ c[u] \in Int
  BY ColumnType
<1>3. \A u \in W : d[u] = c[u] + (IF u = w /\ f = g THEN 1 ELSE 0)
  BY <1>1, <1>2, AddCell
<1>4. Total(f)' = SumFunctionOnSet(d, W)
  BY DEF Total, SumFunction, Column
<1>5. Total(f) = SumFunctionOnSet(c, W)
  BY ColumnType
<1> HIDE DEF c, d
<1>6. ASSUME NEW T \in SUBSET W
      PROVE  SumFunctionOnSet(d, T) = SumFunctionOnSet(c, T) + (IF f = g /\ w \in T THEN 1 ELSE 0)
  <2>1. IsFiniteSet(T) /\ Ints(c, T) /\ SumFunctionOnSet(c, T) \in Nat
    BY ColumnType DEF c
  <2>2. CASE f = g
    <3>1. Bumped(c, d, T, w, 1)
      BY <1>3, <2>2 DEF Bumped
    <3>2. SumFunctionOnSet(d, T) = SumFunctionOnSet(c, T) + (IF w \in T THEN 1 ELSE 0)
      BY <2>1, <3>1, SumBump
    <3> QED BY <2>2, <3>2
  <2>3. CASE f # g
    <3>1. \A u \in T : c[u] = d[u]
      BY <1>2, <1>3, <2>3
    <3>2. SumFunctionOnSet(c, T) = SumFunctionOnSet(d, T)
      BY <2>1, <3>1, SumSame
    <3> QED BY <2>1, <2>3, <3>2
  <2> QED BY <2>2, <2>3
<1>7. W \in SUBSET W
  OBVIOUS
<1>8. SumFunctionOnSet(d, W) = SumFunctionOnSet(c, W) + (IF f = g THEN 1 ELSE 0)
  BY <1>6, <1>7
<1>9. SumFunctionOnSet(d, S) = SumFunctionOnSet(c, S) + (IF f = g /\ w \in S THEN 1 ELSE 0)
  BY <1>6
<1> QED BY <1>4, <1>5, <1>8, <1>9 DEF c, d

\* Values of the right kind, without the page.
LEMMA Kinds ==
  ASSUME TypeOK, NEW f \in Fields
  PROVE  /\ snap[f] \in Nat /\ low[f] \in Nat /\ pending[f] \in Nat
         /\ remote[f] \in Nat /\ shown[f] \in Nat
         /\ f \in Counters => prom[f] \in Nat
         /\ Coming(f) \in Nat /\ Total(f) \in Nat
         /\ Unread(f) \in SUBSET W
<1>1. {snap, low, pending, remote, shown} \subseteq [Fields -> Nat] /\ prom \in [Counters -> Nat]
  BY DEF TypeOK, Snapshots
<1>2. Unread(f) \in SUBSET W
  BY DEF Unread, UnreadAt
<1>3. Coming(f) \in Nat /\ Total(f) \in Nat
  BY <1>2, ColumnType DEF Coming
<1> QED BY <1>1, <1>2, <1>3

\* A count may fall into the total alone, or into what is still to be read too.
LEMMA BracketAdd ==
  ASSUME TypeOK, BracketInv, NEW w \in W, NEW g \in Fields, Add(w, g),
         UNCHANGED readerVars
  PROVE  BracketInv'
<1> SUFFICES ASSUME NEW f \in Fields
             PROVE  low'[f] <= snap'[f] + Coming(f)' /\ snap'[f] + Coming(f)' <= Total(f)'
  BY DEF BracketInv
<1>1. snap' = snap /\ low' = low /\ Unread(f)' = Unread(f)
  BY DEF readerVars, Unread
<1>2. Unread(f) \in SUBSET W /\ snap[f] \in Nat /\ low[f] \in Nat /\ Coming(f) \in Nat /\ Total(f) \in Nat
  BY Kinds
<1>3. Coming(f)' = SumFunctionOnSet(Column(f)', Unread(f))
  BY <1>1 DEF Coming
<1>4. Coming(f)' = Coming(f) + (IF f = g /\ w \in Unread(f) THEN 1 ELSE 0)
  BY <1>2, <1>3, AddColumn DEF Coming
<1>5. Total(f)' = Total(f) + (IF f = g THEN 1 ELSE 0)
  BY <1>2, AddColumn
<1>6. low[f] <= snap[f] + Coming(f) /\ snap[f] + Coming(f) <= Total(f)
  BY DEF BracketInv
<1> QED BY <1>1, <1>2, <1>4, <1>5, <1>6

\* A cell read moves from what is to come into the snapshot.
LEMMA ReadMoves ==
  ASSUME TypeOK, ReadCell
  PROVE  \E g \in Fields, v \in W :
           /\ Cells[pos + 1] = <<g, v>>
           /\ snap' = [snap EXCEPT ![g] = @ + cell[v][g]]
           /\ between' = between + (IF g = Hist[1] /\ wpc[v] = "record" THEN 1 ELSE 0)
           /\ v \in Unread(g)
           /\ Unread(g)' = Unread(g) \ {v}
           /\ \A f \in Fields : f # g => Unread(f)' = Unread(f)
           /\ Coming(g) = cell[v][g] + Coming(g)'
           /\ \A f \in Fields : f # g => Coming(f)' = Coming(f)
<1>1. pos \in 0..Len(Cells) /\ pos < Len(Cells) /\ Len(Cells) \in Nat /\ pos' = pos + 1
  BY CellAt DEF TypeOK, ReadCell
<1>2. Cells[pos + 1] \in Fields \X W
  BY <1>1, CellAt
<1>3. PICK g \in Fields, v \in W : Cells[pos + 1] = <<g, v>>
  BY <1>2
<1>4. /\ snap' = [snap EXCEPT ![g] = @ + cell[v][g]]
      /\ between' = between + (IF g = Hist[1] /\ wpc[v] = "record" THEN 1 ELSE 0)
      /\ cell' = cell
  BY <1>3 DEF ReadCell, workerVars
<1>5. /\ v \in Unread(g)
      /\ Unread(g)' = Unread(g) \ {v}
      /\ \A f \in Fields : f # g => Unread(f)' = Unread(f)
  BY <1>1, <1>3, UnreadStep DEF Unread
<1>6. \A f \in Fields : Column(f)' = Column(f)
  BY <1>4 DEF Column
<1>7. \A f \in Fields : f # g => Coming(f)' = Coming(f)
  BY <1>5, <1>6 DEF Coming
<1>8. Coming(g) = cell[v][g] + Coming(g)'
  <2>1. Unread(g) \in SUBSET W
    BY <1>3, Kinds
  <2>2. IsFiniteSet(Unread(g)) /\ Ints(Column(g), Unread(g)) /\ Column(g)[v] = cell[v][g]
    BY <1>3, <2>1, ColumnType
  <2>3. SumFunctionOnSet(Column(g), Unread(g)) = Column(g)[v] + SumFunctionOnSet(Column(g), Unread(g) \ {v})
    BY <1>5, <2>2, SumSplit
  <2>4. Coming(g)' = SumFunctionOnSet(Column(g), Unread(g) \ {v})
    BY <1>3, <1>5, <1>6 DEF Coming
  <2> QED BY <2>2, <2>3, <2>4 DEF Coming
<1> QED BY <1>3, <1>4, <1>5, <1>7, <1>8

\* Reading keeps the sum of what is read and what is to come.
LEMMA BracketRead ==
  ASSUME TypeOK, BracketInv, ReadCell
  PROVE  BracketInv'
<1>1. PICK g \in Fields, v \in W :
           /\ snap' = [snap EXCEPT ![g] = @ + cell[v][g]]
           /\ Coming(g) = cell[v][g] + Coming(g)'
           /\ \A f \in Fields : f # g => Coming(f)' = Coming(f)
  BY ReadMoves
<1>2. cell' = cell /\ low' = low
  BY DEF ReadCell, workerVars
<1> SUFFICES ASSUME NEW f \in Fields
             PROVE  low'[f] <= snap'[f] + Coming(f)' /\ snap'[f] + Coming(f)' <= Total(f)'
  BY DEF BracketInv
<1>3. Total(f)' = Total(f)
  BY <1>2 DEF Total, Column
<1>4. low[f] <= snap[f] + Coming(f) /\ snap[f] + Coming(f) <= Total(f)
  BY DEF BracketInv
<1>5. snap \in [Fields -> Nat] /\ snap[f] \in Nat /\ cell[v][g] \in Nat /\ Coming(f) \in Nat /\ Total(f) \in Nat /\ low[f] \in Nat
  BY Kinds, ColumnType DEF TypeOK, Snapshots
<1>6. CASE f = g
  <2>1. snap'[f] = snap[f] + cell[v][g] /\ Coming(f) = cell[v][g] + Coming(f)'
    BY <1>1, <1>5, <1>6
  <2>2. Coming(f)' \in Nat
    <3>1. cell[v][g] \in Nat
      BY <1>5
    <3>2. Coming(f)' = SumFunctionOnSet(Column(f), Unread(f)')
      BY <1>2 DEF Coming, Column
    <3>3. Unread(f)' \in SUBSET W
      BY DEF Unread, UnreadAt
    <3> QED BY <3>2, <3>3, ColumnType
  <2> QED BY <1>2, <1>3, <1>4, <1>5, <2>1, <2>2
<1>7. CASE f # g
  <2>1. snap'[f] = snap[f] /\ Coming(f)' = Coming(f)
    BY <1>1, <1>5, <1>7
  <2> QED BY <1>2, <1>3, <1>4, <2>1
<1> QED BY <1>6, <1>7

\* At the start of a snapshot, and when none is read, all is still to come.
LEMMA BracketReset ==
  ASSUME TypeOK, pos' = 0, snap' = Zero, cell' = cell,
         low' = Zero \/ low' = [f \in Fields |-> Total(f)]
  PROVE  BracketInv' /\ \A f \in Fields : Coming(f)' = Total(f) /\ Unread(f)' = W
<1>1. ASSUME NEW f \in Fields
      PROVE  /\ Unread(f)' = W /\ Coming(f)' = Total(f)
             /\ low'[f] <= snap'[f] + Coming(f)' /\ snap'[f] + Coming(f)' <= Total(f)'
  <2>1. Unread(f)' = W
    BY UnreadEnds DEF Unread
  <2>2. Column(f)' = Column(f) /\ Total(f)' = Total(f)
    BY DEF Column, Total
  <2>3. Total(f) \in Nat /\ Total(f) = SumFunctionOnSet(Column(f), W)
    BY ColumnType
  <2>4. Coming(f)' = Total(f)
    BY <2>1, <2>2, <2>3 DEF Coming
  <2>5. snap'[f] = 0 /\ (low'[f] = 0 \/ low'[f] = Total(f))
    BY DEF Zero
  <2> QED BY <2>1, <2>2, <2>3, <2>4, <2>5
<1> QED BY <1>1 DEF BracketInv

(***************************************************************************)
(* Latencies cover answers.                                                *)
(***************************************************************************)

\* Sums over the buckets of a histogram.
LEMMA BucketsType ==
  ASSUME NEW s \in Snapshots, NEW S \in SUBSET (1..H)
  PROVE  /\ IsFiniteSet(S)
         /\ \A b \in 1..H : Buckets(s)[b] = s[Hist[b]] /\ s[Hist[b]] \in Nat
         /\ Ints(Buckets(s), S)
         /\ SumFunctionOnSet(Buckets(s), S) \in Nat
         /\ Latencies(s) = SumFunctionOnSet(Buckets(s), 1..H)
         /\ Latencies(s) \in Nat
<1>1. IsFiniteSet(1..H)
  BY HistShape, FS_Interval
<1>2. IsFiniteSet(S)
  BY <1>1, FS_Subset
<1>3. \A b \in 1..H : Buckets(s)[b] = s[Hist[b]] /\ s[Hist[b]] \in Nat
  BY HistShape DEF Buckets, Snapshots
<1>4. Ints(Buckets(s), S)
  BY <1>3 DEF Ints
<1>5. SumFunctionOnSet(Buckets(s), S) \in Nat /\ SumFunctionOnSet(Buckets(s), 1..H) \in Nat
  BY <1>1, <1>2, <1>3, SumNat
<1>6. Latencies(s) = SumFunctionOnSet(Buckets(s), 1..H)
  BY HistShape DEF Latencies, SumFunction, Buckets
<1> QED BY <1>2, <1>3, <1>4, <1>5, <1>6

Grown(s, g, n) == [s EXCEPT ![g] = s[g] + n]

\* One field grows: the sums of the buckets do when it is one of them.
LEMMA BucketsGrow ==
  ASSUME NEW s \in Snapshots, NEW g \in Fields, NEW n \in Nat, NEW t,
         t = Grown(s, g, n), NEW S \in SUBSET (1..H)
  PROVE  /\ t \in Snapshots
         /\ g \in Counters => SumFunctionOnSet(Buckets(t), S) = SumFunctionOnSet(Buckets(s), S)
         /\ \A b \in 1..H : g = Hist[b] =>
              SumFunctionOnSet(Buckets(t), S) = SumFunctionOnSet(Buckets(s), S) + (IF b \in S THEN n ELSE 0)
<1>1. t \in Snapshots
  BY DEF Snapshots, Grown
<1>2. \A f \in Fields : f # g => t[f] = s[f]
  BY DEF Snapshots, Grown
<1>3. t[g] = s[g] + n /\ s[g] \in Nat
  BY DEF Snapshots, Grown
<1>4. /\ IsFiniteSet(S)
      /\ \A b \in 1..H : Buckets(s)[b] = s[Hist[b]] /\ Buckets(t)[b] = t[Hist[b]]
      /\ Ints(Buckets(s), S) /\ Ints(Buckets(t), S)
      /\ SumFunctionOnSet(Buckets(s), S) \in Nat
  BY <1>1, BucketsType
<1>5. ASSUME g \in Counters PROVE SumFunctionOnSet(Buckets(t), S) = SumFunctionOnSet(Buckets(s), S)
  <2>1. ASSUME NEW b \in S PROVE Buckets(s)[b] = Buckets(t)[b]
    <3>1. b \in 1..H
      OBVIOUS
    <3>2. Hist[b] \in Fields /\ Hist[b] # g
      BY <1>5, <3>1, HistShape
    <3>3. t[Hist[b]] = s[Hist[b]]
      BY <1>2, <3>2
    <3> QED BY <1>4, <3>1, <3>3
  <2> QED BY <1>4, <2>1, SumSame
<1>6. ASSUME NEW b \in 1..H, g = Hist[b]
      PROVE  SumFunctionOnSet(Buckets(t), S) = SumFunctionOnSet(Buckets(s), S) + (IF b \in S THEN n ELSE 0)
  <2>1. ASSUME NEW a \in S, a # b PROVE Buckets(s)[a] = Buckets(t)[a]
    <3>1. a \in 1..H
      OBVIOUS
    <3>2. Hist[a] \in Fields /\ Hist[a] # g
      BY <1>6, <2>1, <3>1, HistShape
    <3>3. t[Hist[a]] = s[Hist[a]]
      BY <1>2, <3>2
    <3> QED BY <1>4, <3>1, <3>3
  <2>2. ASSUME NEW a \in S PROVE Buckets(t)[a] = Buckets(s)[a] + (IF a = b THEN n ELSE 0)
    <3>1. Buckets(s)[a] \in Int
      BY <1>4 DEF Ints
    <3>2. CASE a = b
      BY <1>3, <1>4, <1>6, <3>2
    <3>3. CASE a # b
      BY <2>1, <3>1, <3>3
    <3> QED BY <3>2, <3>3
  <2>3. PICK c, d : c = Buckets(s) /\ d = Buckets(t)
    OBVIOUS
  <2>4. n \in Int /\ IsFiniteSet(S) /\ Ints(c, S) /\ Bumped(c, d, S, b, n)
    BY <1>4, <2>2, <2>3 DEF Bumped
  <2>5. SumFunctionOnSet(d, S) = SumFunctionOnSet(c, S) + (IF b \in S THEN n ELSE 0)
    BY <2>4, SumBump
  <2> QED BY <2>3, <2>5
<1> QED BY <1>1, <1>5, <1>6

\* A worker's count changes its own row of cells.
LEMMA AddRow ==
  ASSUME TypeOK, NEW w \in W, NEW g \in Fields, Add(w, g)
  PROVE  /\ cell[w] \in Snapshots
         /\ cell'[w] = Grown(cell[w], g, 1)
         /\ \A u \in W : u # w => cell'[u] = cell[u]
BY DEF TypeOK, Add, Grown

\* ... and the sums over its buckets.
LEMMA AddBuckets ==
  ASSUME TypeOK, NEW w \in W, NEW g \in Fields, Add(w, g), NEW S \in SUBSET (1..H)
  PROVE  /\ g \in Counters =>
              SumFunctionOnSet(Buckets(cell'[w]), S) = SumFunctionOnSet(Buckets(cell[w]), S)
         /\ \A b \in 1..H : g = Hist[b] =>
              SumFunctionOnSet(Buckets(cell'[w]), S)
                = SumFunctionOnSet(Buckets(cell[w]), S) + (IF b \in S THEN 1 ELSE 0)
         /\ Recorded(w) = SumFunctionOnSet(Buckets(cell[w]), 1..H)
         /\ Recorded(w)' = SumFunctionOnSet(Buckets(cell'[w]), 1..H)
<1>1. PICK s \in Snapshots : s = cell[w]
  BY AddRow
<1>2. PICK t : t = cell'[w]
  OBVIOUS
<1>3. t = Grown(s, g, 1) /\ 1 \in Nat
  BY <1>1, <1>2, AddRow
<1>4. t \in Snapshots
  BY <1>3, BucketsGrow
<1>5. /\ g \in Counters => SumFunctionOnSet(Buckets(t), S) = SumFunctionOnSet(Buckets(s), S)
      /\ \A b \in 1..H : g = Hist[b] =>
           SumFunctionOnSet(Buckets(t), S) = SumFunctionOnSet(Buckets(s), S) + (IF b \in S THEN 1 ELSE 0)
  BY <1>3, BucketsGrow
<1>6. Latencies(s) = SumFunctionOnSet(Buckets(s), 1..H) /\ Latencies(t) = SumFunctionOnSet(Buckets(t), 1..H)
  BY <1>4, BucketsType
<1>7. Recorded(w) = Latencies(s) /\ Recorded(w)' = Latencies(t)
  BY <1>1, <1>2 DEF Recorded, Latencies, Buckets
<1> QED BY <1>1, <1>2, <1>5, <1>6, <1>7

\* Counting and recording, in either order, keep each other's balance.
LEMMA RecordAdd ==
  ASSUME TypeOK, RecordInv, NEW w \in W,
         \/ OnRequest(w) \/ OnResponse(w)
         \/ \E b \in DOMAIN Hist : Record(w, b)
  PROVE  RecordInv'
<1> DEFINE Count(u) == IF wpc[u] = "count" THEN 1 ELSE 0
           Rec(u) == IF wpc[u] = "record" THEN 1 ELSE 0
<1>1. \A u \in W : cell[u]["responses"] + Count(u) = Recorded(u) + Rec(u)
  BY DEF RecordInv
<1>2. \A u \in W : cell[u] \in Snapshots /\ cell[u]["responses"] \in Nat /\ Recorded(u) \in Nat
  <2>1. \A u \in W : cell[u] \in Snapshots
    BY DEF TypeOK
  <2> QED BY <2>1, HistShape, BucketsType DEF Recorded, Snapshots
<1>3. wpc \in [W -> {"idle", "sent", "record", "count"}]
  BY DEF TypeOK
<1>4. \A u \in W : u # w => wpc'[u] = wpc[u]
  BY <1>3 DEF OnRequest, OnResponse, Record, WorkerStep
<1>5. PICK g \in Fields : Add(w, g)
  BY HistShape DEF OnRequest, OnResponse, Record
<1>6. \A u \in W : u # w => cell'[u] = cell[u]
  BY <1>5, AddRow
<1>7. \A u \in W : u # w => Recorded(u)' = Recorded(u)
  BY <1>6 DEF Recorded, Latencies, Buckets
<1>8. cell'[w]["responses"] + Count(w)' = Recorded(w)' + Rec(w)'
  <2>1. ASSUME NEW h \in Fields, Add(w, h)
        PROVE  /\ h \in Counters => Recorded(w)' = Recorded(w)
               /\ (\E b \in 1..H : h = Hist[b]) => Recorded(w)' = Recorded(w) + 1
               /\ cell'[w]["responses"] = cell[w]["responses"] + (IF h = "responses" THEN 1 ELSE 0)
    <3>4. 1..H \in SUBSET (1..H)
      OBVIOUS
    <3>5. h \in Counters => Recorded(w)' = Recorded(w)
      BY <2>1, <3>4, AddBuckets
    <3>6. (\E b \in 1..H : h = Hist[b]) => Recorded(w)' = Recorded(w) + 1
      BY <2>1, <3>4, AddBuckets
    <3>7. cell'[w]["responses"] = cell[w]["responses"] + (IF h = "responses" THEN 1 ELSE 0)
      BY <2>1, AddCell, HistShape
    <3> QED BY <3>5, <3>6, <3>7
  <2>2. CASE OnRequest(w)
    <3>1. Add(w, "requests") /\ wpc[w] = "idle" /\ wpc'[w] = "sent"
      BY <1>3, <2>2 DEF OnRequest, WorkerStep
    <3>2. Recorded(w)' = Recorded(w) /\ cell'[w]["responses"] = cell[w]["responses"] + 0
      BY <2>1, <3>1, HistShape DEF Counters
    <3> QED BY <1>1, <1>2, <3>1, <3>2
  <2>3. CASE OnResponse(w)
    <3>1. /\ Add(w, "responses")
          /\ (wpc[w] = "sent" /\ wpc'[w] = "record") \/ (wpc[w] = "count" /\ wpc'[w] = "idle")
      BY <1>3, <2>3 DEF OnResponse, WorkerStep
    <3>2. Recorded(w)' = Recorded(w) /\ cell'[w]["responses"] = cell[w]["responses"] + 1
      BY <2>1, <3>1, HistShape DEF Counters
    <3> QED BY <1>1, <1>2, <3>1, <3>2
  <2>4. CASE \E b \in DOMAIN Hist : Record(w, b)
    <3>1. PICK b \in 1..H : Record(w, b)
      BY <2>4, HistShape
    <3>2. /\ Add(w, Hist[b])
          /\ (wpc[w] = "record" /\ wpc'[w] = "idle") \/ (wpc[w] = "sent" /\ wpc'[w] = "count")
      BY <1>3, <3>1 DEF Record, WorkerStep
    <3>3. Recorded(w)' = Recorded(w) + 1 /\ cell'[w]["responses"] = cell[w]["responses"] + 0
      BY <2>1, <3>2, HistShape DEF Counters
    <3> QED BY <1>1, <1>2, <3>2, <3>3
  <2> QED BY <2>2, <2>3, <2>4
<1> SUFFICES ASSUME NEW u \in W
             PROVE  cell'[u]["responses"] + Count(u)' = Recorded(u)' + Rec(u)'
  BY DEF RecordInv
<1>9. CASE u = w
  BY <1>8, <1>9
<1>10. CASE u # w
  BY <1>1, <1>4, <1>6, <1>7, <1>10
<1> QED BY <1>9, <1>10

(***************************************************************************)
(* Types.                                                                  *)
(***************************************************************************)

\* Reading the first bucket of a worker takes it off the list of those that
\* may still be counted as between.
LEMMA BetweenRead ==
  ASSUME TypeOK, BetweenInv, ReadCell
  PROVE  BetweenInv' /\ between' \in 0..Workers
<1>1. PICK g \in Fields, v \in W :
           /\ between' = between + (IF g = Hist[1] /\ wpc[v] = "record" THEN 1 ELSE 0)
           /\ v \in Unread(g)
           /\ Unread(g)' = Unread(g) \ {v}
           /\ \A f \in Fields : f # g => Unread(f)' = Unread(f)
  BY ReadMoves
<1>2. Hist[1] \in Fields /\ Hist' = Hist /\ Workers \in Nat /\ between \in Nat
  BY HistShape DEF TypeOK
<1> DEFINE U == Unread(Hist[1])
<1>3. IsFiniteSet(U) /\ Cardinality(U) \in Nat
  BY <1>2, Kinds, ColumnType, FS_CardinalityType
<1>4. between + Cardinality(U) <= Workers
  BY DEF BetweenInv
<1>5. CASE g = Hist[1]
  <2>1. IsFiniteSet(U \ {v}) /\ Cardinality(U \ {v}) = Cardinality(U) - 1
    BY <1>1, <1>3, <1>5, FS_RemoveElement
  <2>2. Cardinality(U \ {v}) \in Nat
    BY <2>1, FS_CardinalityType
  <2>3. Unread(Hist[1])' = U \ {v}
    BY <1>1, <1>5
  <2>4. between' + Cardinality(U \ {v}) <= Workers /\ between' \in Nat
    BY <1>1, <1>2, <1>3, <1>4, <2>1
  <2> QED BY <1>2, <2>2, <2>3, <2>4 DEF BetweenInv
<1>6. CASE g # Hist[1]
  <2>1. Unread(Hist[1])' = U /\ between' = between
    BY <1>1, <1>2, <1>6
  <2> QED BY <1>2, <1>3, <1>4, <2>1 DEF BetweenInv
<1> QED BY <1>5, <1>6

\* No worker is counted when a snapshot begins or ends.
LEMMA BetweenReset ==
  ASSUME pos' = 0, between' = 0
  PROVE  BetweenInv' /\ between' \in 0..Workers
<1>1. Hist[1] \in Fields /\ Workers \in Nat \ {0}
  BY HistShape
<1>2. Unread(Hist[1])' = W
  BY <1>1, UnreadEnds DEF Unread
<1>3. Cardinality(W) = Workers
  BY <1>1, FS_Interval DEF W
<1> QED BY <1>1, <1>2, <1>3 DEF BetweenInv

\* The numbers of the page.
LEMMA PageType ==
  ASSUME TypeOK
  PROVE  /\ \A j \in DOMAIN Bounds : EncodedLe(j) \in Nat
         /\ Latencies(snap) \in Nat
<1>1. snap \in Snapshots
  BY DEF TypeOK
<1>2. \A j : Within(j) \in Nat
  <2> SUFFICES ASSUME NEW j PROVE Within(j) \in Nat
    OBVIOUS
  <2> DEFINE S == {b \in DOMAIN Hist : b <= Bounds[j]}
  <2>1. S \in SUBSET (1..H)
    BY HistShape
  <2> HIDE DEF S
  <2>2. SumFunctionOnSet(Buckets(snap), S) \in Nat
    BY <1>1, <2>1, BucketsType
  <2> QED BY <2>2 DEF Within, S
<1>3. ASSUME NEW j \in DOMAIN Bounds PROVE EncodedLe(j) \in Nat
  <2> DEFINE f == [i \in 1..j |-> Within(i)]
  <2>1. j \in Nat
    BY BoundsAssumption
  <2>2. IsFiniteSet(1..j)
    BY <2>1, FS_Interval
  <2>3. \A i \in 1..j : f[i] \in Nat
    BY <1>2
  <2>4. EncodedLe(j) = SumFunctionOnSet(f, 1..j)
    BY DEF EncodedLe, SumFunction
  <2> HIDE DEF f
  <2> QED BY <2>2, <2>3, <2>4, SumNat
<1>4. 1..H \in SUBSET (1..H)
  OBVIOUS
<1>5. Latencies(snap) \in Nat
  BY <1>1, <1>4, BucketsType
<1> QED BY <1>3, <1>5

\* Zero and totals are snapshots.
LEMMA ResetType ==
  ASSUME TypeOK
  PROVE  Zero \in Snapshots /\ [f \in Fields |-> Total(f)] \in Snapshots
<1>1. \A f \in Fields : Total(f) \in Nat
  BY Kinds
<1> QED BY <1>1 DEF Zero, Snapshots

\* Every step keeps the types.
LEMMA StepType ==
  ASSUME TypeOK, BetweenInv, [Next]_vars
  PROVE  TypeOK' /\ BetweenInv'
<1> USE HistShape, CellAt
<1>0. Len(Cells) \in Nat /\ 0 \in 0..Len(Cells)
  OBVIOUS
<1>1. ASSUME NEW w \in W,
             \/ OnRequest(w) \/ OnResponse(w)
             \/ \E b \in DOMAIN Hist : Record(w, b)
      PROVE  TypeOK' /\ BetweenInv'
  <2>1. PICK g \in Fields : Add(w, g)
    BY <1>1 DEF OnRequest, OnResponse, Record
  <2>2. cell' \in [W -> Snapshots]
    BY <2>1, AddCell
  <2>3. wpc' \in [W -> {"idle", "sent", "record", "count"}]
    BY <1>1 DEF TypeOK, OnRequest, OnResponse, Record, WorkerStep
  <2>4. work' \in 0..MaxWork
    BY <1>1, TelemetryBounds DEF TypeOK, OnRequest, OnResponse, Record
  <2>5. UNCHANGED <<readerVars, streamVars, flags, shown, prom, page>>
    BY <1>1 DEF OnRequest, OnResponse, Record, WorkerStep
  <2>6. BetweenInv'
    BY <2>5 DEF BetweenInv, Unread, readerVars
  <2> QED BY <2>2, <2>3, <2>4, <2>5, <2>6 DEF TypeOK, readerVars, streamVars, flags
<1>2. CASE ReadCell
  <2>1. PICK g \in Fields, v \in W : snap' = [snap EXCEPT ![g] = @ + cell[v][g]]
    BY <1>2, ReadMoves
  <2>2. cell[v][g] \in Nat /\ snap \in [Fields -> Nat]
    BY ColumnType DEF TypeOK, Snapshots
  <2>3. snap' \in Snapshots
    BY <2>1, <2>2 DEF Snapshots
  <2>4. pos' \in 0..Len(Cells)
    BY <1>2 DEF TypeOK, ReadCell
  <2>5. BetweenInv' /\ between' \in 0..Workers
    BY <1>2, BetweenRead
  <2>6. UNCHANGED <<workerVars, reader, low, reads, streamVars, flags, shown, prom, page>>
    BY <1>2 DEF ReadCell
  <2> QED BY <2>3, <2>4, <2>5, <2>6 DEF TypeOK, workerVars, streamVars, flags
<1>3. ASSUME NEW who \in {"stream", "scrape"}, Begin(who)
      PROVE  /\ pos' \in 0..Len(Cells) /\ snap' \in Snapshots /\ low' \in Snapshots
             /\ between' \in 0..Workers /\ reader' = who /\ reader = "none"
             /\ reads' \in 0..MaxReads /\ BetweenInv'
  <2>1. pos' = 0 /\ between' = 0 /\ snap' = Zero /\ low' = [f \in Fields |-> Total(f)]
    BY <1>3 DEF Begin
  <2>2. reads' \in 0..MaxReads /\ reader' = who /\ reader = "none"
    BY <1>3, TelemetryBounds DEF Begin, TypeOK, Free
  <2> QED BY <1>0, <2>1, <2>2, ResetType, BetweenReset
<1>4. ASSUME End
      PROVE  /\ pos' \in 0..Len(Cells) /\ snap' \in Snapshots /\ low' \in Snapshots
             /\ between' \in 0..Workers /\ reader' = "none" /\ reads' = reads /\ BetweenInv'
  BY <1>0, <1>4, ResetType, BetweenReset DEF End
<1>5. CASE UNCHANGED readerVars
  <2>1. BetweenInv'
    BY <1>5 DEF readerVars, BetweenInv, Unread
  <2> SUFFICES TypeOK'
    BY <2>1
  <2>2. CASE StreamTick
    BY <1>5, <2>2 DEF StreamTick, Free, TypeOK, readerVars, workerVars, streamVars, flags, Begin
  <2>3. CASE StreamSend
    <3>1. chan' \in Seq(Snapshots) /\ Len(chan') <= Capacity
      <4>1. pending \in Snapshots /\ chan \in Seq(Snapshots) /\ Len(chan) <= Capacity /\ Capacity \in Nat
        BY TelemetryBounds DEF TypeOK
      <4>2. chan' = chan \/ (chan' = Append(chan, pending) /\ Len(chan) < Capacity)
        BY <2>3 DEF StreamSend
      <4> QED BY <4>1, <4>2
    <3>2. stream # "send" /\ stream' # "send" /\ stream' \in {"tick", "send", "waiting", "ended"}
      BY <2>3 DEF StreamSend
    <3>3. UNCHANGED <<workerVars, readerVars, pending, remote, client, flags, shown, prom, page>>
      BY <2>3 DEF StreamSend
    <3> QED BY <3>1, <3>2, <3>3 DEF TypeOK, readerVars, workerVars, flags
  <2>4. CASE Consume
    <3>1. chan' \in Seq(Snapshots) /\ Len(chan') <= Capacity /\ remote' \in Snapshots
      <4>1. CASE chan # <<>>
        <5>1. chan' = Tail(chan) /\ remote' = Head(chan)
          BY <2>4, <4>1 DEF Consume
        <5>2. chan \in Seq(Snapshots) /\ Len(chan) <= Capacity /\ Capacity \in Nat
          BY TelemetryBounds DEF TypeOK
        <5> QED BY <4>1, <5>1, <5>2
      <4>2. CASE chan = <<>>
        BY <2>4, <4>2 DEF Consume, TypeOK
      <4> QED BY <4>1, <4>2
    <3>2. client' \in {"reading", "gone", "ended"}
      BY <2>4 DEF Consume, TypeOK
    <3>3. UNCHANGED <<workerVars, readerVars, stream, pending, flags, shown, prom, page>>
      BY <2>4 DEF Consume
    <3> QED BY <3>1, <3>2, <3>3 DEF TypeOK, readerVars, workerVars, flags
  <2>5. CASE ClientLeaves
    <3>1. chan' \in Seq(Snapshots) /\ Len(chan') <= Capacity
      BY <2>5, TelemetryBounds DEF ClientLeaves
    <3> QED BY <2>5, <3>1 DEF ClientLeaves, TypeOK, readerVars, workerVars, flags
  <2>6. CASE OnTick
    <3>1. shown' \in Snapshots
      BY <2>6 DEF OnTick, RemoteStat, TypeOK, Snapshots
    <3> QED BY <2>6, <3>1 DEF OnTick, TypeOK, readerVars, workerVars, streamVars, flags
  <2>7. CASE StopRun
    BY <2>7 DEF StopRun, TypeOK, readerVars, workerVars, streamVars, flags
  <2>8. CASE LoopEnds
    BY <2>8 DEF LoopEnds, TypeOK, readerVars, workerVars, streamVars, flags
  <2>9. CASE UNCHANGED vars
    BY <2>9 DEF vars, TypeOK, readerVars, workerVars, streamVars, flags
  <2>10. CASE \E w \in W : \/ OnRequest(w) \/ OnResponse(w)
                           \/ \E b \in DOMAIN Hist : Record(w, b)
    BY <1>1, <2>10
  <2>11. CASE ReadCell
    BY <1>2, <2>11
  <2>12. ASSUME SnapshotTaken \/ StartScrape \/ Scrape PROVE FALSE
    BY <1>5, <2>12 DEF SnapshotTaken, StartScrape, Scrape, readerVars, Taken, End, Begin, TypeOK
  <2> QED BY <2>2, <2>3, <2>4, <2>5, <2>6, <2>7, <2>8, <2>9, <2>10, <2>11, <2>12 DEF Next
<1>6. CASE StreamTick
  <2>1. CASE is_running
    <3>1. Begin("stream") /\ stream' = "send"
      BY <1>6, <2>1 DEF StreamTick
    <3>2. UNCHANGED <<workerVars, pending, chan, remote, client, flags, shown, prom, page>>
      BY <1>6 DEF StreamTick
    <3>3. /\ pos' \in 0..Len(Cells) /\ snap' \in Snapshots /\ low' \in Snapshots
          /\ between' \in 0..Workers /\ reader' = "stream"
          /\ reads' \in 0..MaxReads /\ BetweenInv'
      BY <1>3, <3>1
    <3> QED BY <3>1, <3>2, <3>3 DEF TypeOK, workerVars, flags
  <2>2. CASE ~is_running
    BY <1>5, <1>6, <2>2 DEF StreamTick
  <2> QED BY <2>1, <2>2
<1>7. CASE SnapshotTaken
  <2>1. /\ pos' \in 0..Len(Cells) /\ snap' \in Snapshots /\ low' \in Snapshots
        /\ between' \in 0..Workers /\ reader' = "none" /\ reads' = reads /\ BetweenInv'
    BY <1>4, <1>7 DEF SnapshotTaken
  <2>2. pending' = snap /\ stream' = "waiting"
    BY <1>7 DEF SnapshotTaken
  <2>3. UNCHANGED <<workerVars, chan, remote, client, flags, shown, prom, page>>
    BY <1>7 DEF SnapshotTaken
  <2> QED BY <2>1, <2>2, <2>3 DEF TypeOK, workerVars, flags
<1>8. CASE StartScrape
  <2>1. /\ pos' \in 0..Len(Cells) /\ snap' \in Snapshots /\ low' \in Snapshots
        /\ between' \in 0..Workers /\ reader' = "scrape" /\ reader = "none"
        /\ reads' \in 0..MaxReads /\ BetweenInv'
    BY <1>3, <1>8 DEF StartScrape
  <2>2. UNCHANGED <<workerVars, streamVars, flags, shown, prom, page>>
    BY <1>8 DEF StartScrape
  <2> QED BY <2>1, <2>2 DEF TypeOK, workerVars, streamVars, flags
<1>9. CASE Scrape
  <2>1. /\ pos' \in 0..Len(Cells) /\ snap' \in Snapshots /\ low' \in Snapshots
        /\ between' \in 0..Workers /\ reader' = "none" /\ reads' = reads /\ BetweenInv'
    BY <1>4, <1>9 DEF Scrape
  <2>2. reader = "scrape" /\ UNCHANGED <<workerVars, streamVars, flags, shown>>
    BY <1>9 DEF Scrape, Taken
  <2>3. prom' \in [Counters -> Nat]
    <3>1. \A c \in Counters : Raised(c) \in Nat
      BY Kinds DEF Raised, Fields
    <3> QED BY <1>9, <3>1 DEF Scrape
  <2>4. page' \in [le : [DOMAIN Bounds -> Nat], inf : Nat]
    BY <1>9, PageType DEF Scrape
  <2> QED BY <2>1, <2>2, <2>3, <2>4 DEF TypeOK, workerVars, streamVars, flags
<1> QED
  <2>1. ASSUME StreamSend \/ Consume \/ ClientLeaves \/ OnTick \/ StopRun \/ LoopEnds \/ UNCHANGED vars
        PROVE  UNCHANGED readerVars
    BY <2>1 DEF StreamSend, Consume, ClientLeaves, OnTick, StopRun, LoopEnds, vars
  <2> QED BY <1>1, <1>2, <1>5, <1>6, <1>7, <1>8, <1>9, <2>1 DEF Next

(***************************************************************************)
(* Values on their way.                                                    *)
(***************************************************************************)

\* A counter never falls.
LEMMA TotalGrows ==
  ASSUME TypeOK, [Next]_vars, NEW f \in Fields
  PROVE  Total(f) \in Nat /\ Total(f)' \in Nat /\ Total(f) <= Total(f)'
<1>1. Total(f) \in Nat
  BY Kinds
<1>2. CASE \E w \in W : \/ OnRequest(w) \/ OnResponse(w)
                        \/ \E b \in DOMAIN Hist : Record(w, b)
  <2>1. PICK w \in W, g \in Fields : Add(w, g)
    BY <1>2, HistShape DEF OnRequest, OnResponse, Record
  <2>2. W \in SUBSET W
    OBVIOUS
  <2>3. Total(f)' = Total(f) + (IF f = g THEN 1 ELSE 0)
    BY <2>1, <2>2, AddColumn
  <2> QED BY <1>1, <2>3
<1>3. CASE UNCHANGED cell
  <2>1. Total(f)' = Total(f)
    BY <1>3 DEF Total, Column
  <2> QED BY <1>1, <2>1
<1>4. \/ \E w \in W : \/ OnRequest(w) \/ OnResponse(w)
                      \/ \E b \in DOMAIN Hist : Record(w, b)
      \/ UNCHANGED cell
  BY DEF Next, vars, ReadCell, StreamTick, SnapshotTaken, StreamSend, Consume, ClientLeaves,
         OnTick, StartScrape, Scrape, StopRun, LoopEnds, workerVars
<1> QED BY <1>2, <1>3, <1>4

\* A snapshot that has been read lies between the totals at its beginning and
\* at its end.
LEMMA TakenBracketed ==
  ASSUME TypeOK, BracketInv, pos = Len(Cells), NEW f \in Fields
  PROVE  low[f] <= snap[f] /\ snap[f] <= Total(f)
<1>1. Unread(f) = {}
  BY UnreadEnds DEF Unread
<1>2. Coming(f) = 0
  BY <1>1, SumEmpty DEF Coming
<1> QED BY <1>2, Kinds DEF BracketInv

\* Every step keeps the order of the values.
LEMMA StepTravel ==
  ASSUME TypeOK, TypeOK', BracketInv, TravelInv, [Next]_vars
  PROVE  TravelInv'
<1> SUFFICES ASSUME NEW f \in Fields
             PROVE  /\ shown'[f] <= remote'[f]
                    /\ remote'[f] <= pending'[f]
                    /\ pending'[f] <= Total(f)'
                    /\ reader' = "stream" => pending'[f] <= low'[f]
                    /\ \A i \in DOMAIN chan' : remote'[f] <= chan'[i][f] /\ chan'[i][f] <= pending'[f]
                    /\ \A i, j \in DOMAIN chan' : i <= j => chan'[i][f] <= chan'[j][f]
                    /\ f \in Counters => prom'[f] <= Total(f)'
  BY DEF TravelInv
<1>1. /\ shown[f] <= remote[f]
      /\ remote[f] <= pending[f]
      /\ pending[f] <= Total(f)
      /\ reader = "stream" => pending[f] <= low[f]
      /\ \A i \in DOMAIN chan : remote[f] <= chan[i][f] /\ chan[i][f] <= pending[f]
      /\ \A i, j \in DOMAIN chan : i <= j => chan[i][f] <= chan[j][f]
      /\ f \in Counters => prom[f] <= Total(f)
  BY DEF TravelInv
<1>2. Total(f) \in Nat /\ Total(f)' \in Nat /\ Total(f) <= Total(f)'
  BY TotalGrows
<1>3. /\ snap[f] \in Nat /\ low[f] \in Nat /\ pending[f] \in Nat /\ remote[f] \in Nat /\ shown[f] \in Nat
      /\ f \in Counters => prom[f] \in Nat
  BY Kinds
<1>4. chan \in Seq(Snapshots) /\ Len(chan) \in Nat /\ DOMAIN chan = 1..Len(chan)
      /\ \A i \in DOMAIN chan : chan[i][f] \in Nat
  <2>1. chan \in Seq(Snapshots)
    BY DEF TypeOK
  <2>2. Len(chan) \in Nat /\ DOMAIN chan = 1..Len(chan) /\ \A i \in DOMAIN chan : chan[i] \in Snapshots
    BY <2>1
  <2>3. \A i \in DOMAIN chan : chan[i][f] \in Nat
    BY <2>2 DEF Snapshots
  <2> QED BY <2>1, <2>2, <2>3
<1>5. CASE UNCHANGED <<shown, remote, pending, chan, prom>> /\ (reader' = "stream" => reader = "stream" /\ low' = low)
  BY <1>1, <1>2, <1>3, <1>5
<1>6. CASE StreamTick
  <2>1. CASE is_running
    <3>1. low'[f] = Total(f)
      BY <1>6, <2>1 DEF StreamTick, Begin
    <3>2. UNCHANGED <<shown, remote, pending, chan, prom>>
      BY <1>6 DEF StreamTick
    <3> QED BY <1>1, <1>2, <1>3, <3>1, <3>2
  <2>2. CASE ~is_running
    BY <1>5, <1>6, <2>2 DEF StreamTick, readerVars
  <2> QED BY <2>1, <2>2
<1>7. CASE SnapshotTaken
  <2>1. reader = "stream" /\ pos = Len(Cells) /\ pending' = snap /\ reader' = "none"
    BY <1>7 DEF SnapshotTaken, Taken, End
  <2>2. low[f] <= snap[f] /\ snap[f] <= Total(f)
    BY <2>1, TakenBracketed
  <2>3. pending[f] <= pending'[f] /\ pending'[f] <= Total(f)' /\ pending'[f] \in Nat
    BY <1>1, <1>2, <1>3, <2>1, <2>2
  <2>4. UNCHANGED <<shown, remote, chan, prom>>
    BY <1>7 DEF SnapshotTaken
  <2>5. \A i \in DOMAIN chan : chan[i][f] <= pending'[f]
    BY <1>1, <1>3, <1>4, <2>3
  <2> QED BY <1>1, <1>2, <1>3, <2>1, <2>3, <2>4, <2>5
<1>8. CASE StreamSend
  <2>1. UNCHANGED <<shown, remote, pending, prom, reader, low>>
    BY <1>8 DEF StreamSend, readerVars
  <2>2. CASE chan' = chan
    BY <1>5, <2>1, <2>2
  <2>3. CASE chan' = Append(chan, pending)
    <3>1. DOMAIN chan' = 1..(Len(chan) + 1)
      BY <1>4, <2>3 DEF TypeOK
    <3>2. \A i \in DOMAIN chan' : chan'[i] = (IF i \in DOMAIN chan THEN chan[i] ELSE pending)
      BY <1>4, <2>3, <3>1 DEF TypeOK
    <3>3. \A i, j \in DOMAIN chan' : i <= j /\ j \in DOMAIN chan => i \in DOMAIN chan
      BY <1>4, <3>1
    <3>4. \A i \in DOMAIN chan' : remote[f] <= chan'[i][f] /\ chan'[i][f] <= pending[f]
      BY <1>1, <1>3, <3>2
    <3>5. \A i, j \in DOMAIN chan' : i <= j => chan'[i][f] <= chan'[j][f]
      BY <1>1, <1>3, <3>2, <3>3, <3>4
    <3> QED BY <1>1, <1>2, <1>3, <2>1, <3>4, <3>5
  <2> QED BY <1>8, <2>2, <2>3 DEF StreamSend
<1>9. CASE Consume
  <2>1. UNCHANGED <<shown, pending, prom, reader, low>>
    BY <1>9 DEF Consume, readerVars
  <2>2. CASE chan' = chan /\ remote' = remote
    BY <1>5, <2>1, <2>2
  <2>3. CASE chan # <<>> /\ chan' = Tail(chan) /\ remote' = Head(chan)
    <3>1. Len(chan) > 0 /\ DOMAIN chan' = 1..(Len(chan) - 1) /\ remote' = chan[1] /\ 1 \in DOMAIN chan
      BY <1>4, <2>3
    <3>2. \A i \in DOMAIN chan' : chan'[i] = chan[i + 1] /\ i + 1 \in DOMAIN chan /\ 1 <= i + 1
      BY <1>4, <2>3, <3>1
    <3>3. \A i, j \in DOMAIN chan' : i <= j => i + 1 <= j + 1
      BY <1>4, <3>1
    <3>4. remote'[f] \in Nat /\ remote[f] <= remote'[f] /\ remote'[f] <= pending[f]
      BY <1>1, <1>4, <3>1
    <3>5. \A i \in DOMAIN chan' : remote'[f] <= chan'[i][f] /\ chan'[i][f] <= pending[f]
      BY <1>1, <3>1, <3>2
    <3>6. \A i, j \in DOMAIN chan' : i <= j => chan'[i][f] <= chan'[j][f]
      BY <1>1, <3>2, <3>3
    <3> QED BY <1>1, <1>2, <1>3, <2>1, <3>4, <3>5, <3>6
  <2> QED BY <1>9, <2>2, <2>3 DEF Consume
<1>10. CASE ClientLeaves
  <2>1. UNCHANGED <<shown, remote, pending, prom, reader, low>> /\ chan' = <<>>
    BY <1>10 DEF ClientLeaves, readerVars
  <2> QED BY <1>1, <1>2, <1>3, <2>1
<1>11. CASE OnTick
  <2>1. UNCHANGED <<remote, pending, prom, reader, low, chan>> /\ shown'[f] = remote[f]
    BY <1>11 DEF OnTick, readerVars, streamVars, RemoteStat
  <2> QED BY <1>1, <1>2, <1>3, <2>1
<1>12. CASE Scrape
  <2>1. UNCHANGED <<shown, remote, pending, chan>> /\ reader' = "none" /\ pos = Len(Cells)
    BY <1>12 DEF Scrape, streamVars, End, Taken
  <2>2. ASSUME f \in Counters PROVE prom'[f] <= Total(f)'
    <3>1. prom'[f] = Raised(f)
      BY <1>12, <2>2 DEF Scrape
    <3>2. snap[f] <= Total(f)
      BY <2>1, TakenBracketed
    <3> QED BY <1>1, <1>2, <1>3, <2>2, <3>1, <3>2 DEF Raised
  <2> QED BY <1>1, <1>2, <1>3, <2>1, <2>2
<1>13. ASSUME \/ \E w \in W : \/ OnRequest(w) \/ OnResponse(w)
                              \/ \E b \in DOMAIN Hist : Record(w, b)
              \/ ReadCell \/ StartScrape \/ StopRun \/ LoopEnds \/ UNCHANGED vars
       PROVE  UNCHANGED <<shown, remote, pending, chan, prom>> /\ (reader' = "stream" => reader = "stream" /\ low' = low)
  BY <1>13 DEF OnRequest, OnResponse, Record, WorkerStep, ReadCell, StartScrape, Begin, StopRun,
               LoopEnds, vars, readerVars, streamVars
<1> QED BY <1>5, <1>6, <1>7, <1>8, <1>9, <1>10, <1>11, <1>12, <1>13 DEF Next

(***************************************************************************)
(* Promises.                                                               *)
(***************************************************************************)

\* Promises are sums of natural numbers over finite sets.
LEMMA PromiseType ==
  TypeOK => /\ \A u \in W : Promise(u) \in Nat
            /\ Ints(Promises, W)
            /\ Promised = SumFunctionOnSet(Promises, W)
            /\ Promised \in Nat
<1> SUFFICES ASSUME TypeOK
             PROVE  /\ \A u \in W : Promise(u) \in Nat
                    /\ Ints(Promises, W)
                    /\ Promised = SumFunctionOnSet(Promises, W)
                    /\ Promised \in Nat
  OBVIOUS
<1>1. ASSUME NEW u \in W PROVE Promise(u) \in Nat
  <2>1. cell[u] \in Snapshots
    BY DEF TypeOK
  <2>2. cell[u]["responses"] \in Nat
    BY <2>1, HistShape DEF Snapshots
  <2>3. UnreadBuckets(u) \in SUBSET (1..H)
    BY HistShape DEF UnreadBuckets
  <2>4. SumFunctionOnSet(Buckets(cell[u]), UnreadBuckets(u)) \in Nat
    BY <2>1, <2>3, BucketsType
  <2> QED BY <2>2, <2>4 DEF Promise
<1>2. \A u \in W : Promises[u] \in Nat
  BY <1>1 DEF Promises
<1>3. Promised = SumFunctionOnSet(Promises, W)
  BY DEF Promised, SumFunction, Promises
<1>4. IsFiniteSet(W)
  BY WorkersAssumption, FS_Interval DEF W
<1>5. SumFunctionOnSet(Promises, W) \in Nat
  BY <1>2, <1>4, SumNat
<1>6. Ints(Promises, W)
  BY <1>2 DEF Ints
<1> QED BY <1>1, <1>3, <1>5, <1>6

\* One worker's promise changes.
LEMMA PromisedChange ==
  ASSUME TypeOK, TypeOK', NEW v \in W,
         \A u \in W : u # v => Promise(u)' = Promise(u)
  PROVE  /\ Promised \in Nat /\ Promise(v) \in Nat /\ Promise(v)' \in Nat
         /\ Promised' = Promised + (Promise(v)' - Promise(v))
<1>1. /\ Promised \in Nat /\ Promise(v) \in Nat /\ Ints(Promises, W)
      /\ Promised = SumFunctionOnSet(Promises, W)
  BY PromiseType
<1>2. (/\ \A u \in W : Promise(u) \in Nat
       /\ Ints(Promises, W)
       /\ Promised = SumFunctionOnSet(Promises, W))'
  BY PromiseType, PTL
<1>3. PICK c, d : c = Promises /\ d = Promises'
  OBVIOUS
<1>4. W' = W
  OBVIOUS
<1>5. Promise(v)' \in Nat
  BY <1>2
<1>6. Ints(d, W) /\ Promised' = SumFunctionOnSet(d, W)
  BY <1>2, <1>3 DEF Ints
<1>7. IsFiniteSet(W)
  BY WorkersAssumption, FS_Interval DEF W
<1>8. c[v] = Promise(v) /\ d[v] = Promise(v)'
  BY <1>3 DEF Promises
<1>9. \A u \in W \ {v} : c[u] = d[u]
  BY <1>3 DEF Promises
<1>10. Ints(c, W)
  BY <1>1, <1>3
<1>11. SumFunctionOnSet(d, W) = SumFunctionOnSet(c, W) + (d[v] - c[v])
  BY <1>6, <1>7, <1>9, <1>10, SumChange
<1> QED BY <1>1, <1>3, <1>5, <1>6, <1>8, <1>11

\* An answer counted before it is read is promised by the histogram of its
\* worker, which is read later.
LEMMA CoverAdd ==
  ASSUME TypeOK, TypeOK', CoverInv, NEW w \in W, NEW g \in Fields, Add(w, g),
         UNCHANGED readerVars
  PROVE  CoverInv'
<1> DEFINE R == "responses"
<1>1. snap' = snap /\ between' = between /\ pos' = pos
  BY DEF readerVars
<1>2. \A f : Unread(f)' = Unread(f)
  BY <1>1 DEF Unread
<1>3. \A u : UnreadBuckets(u)' = UnreadBuckets(u)
  BY <1>2 DEF UnreadBuckets
<1>4. \A u \in W : u # w => Promise(u)' = Promise(u)
  BY <1>2, <1>3, AddRow DEF Promise, Buckets
<1>5. /\ Promised \in Nat /\ Promise(w) \in Nat /\ Promise(w)' \in Nat
      /\ Promised' = Promised + (Promise(w)' - Promise(w))
  BY <1>4, PromisedChange
<1>6. R \in Fields /\ Coming(R) \in Nat /\ snap[R] \in Nat /\ Unread(R) \in SUBSET W
  BY HistShape, Kinds
<1>7. Coming(R)' = Coming(R) + (IF R = g /\ w \in Unread(R) THEN 1 ELSE 0)
  BY <1>2, <1>6, AddColumn DEF Coming
<1>8. Promise(w)' >= Promise(w) + (IF R = g /\ w \in Unread(R) THEN 1 ELSE 0)
  <2>1. CASE w \in Unread(Hist[1])
    <3>1. Promise(w) = cell[w][R] /\ Promise(w)' = cell'[w][R]
      BY <1>2, <2>1 DEF Promise
    <3>2. cell'[w][R] = cell[w][R] + (IF R = g THEN 1 ELSE 0) /\ cell[w][R] \in Nat
      BY <1>6, AddCell, ColumnType
    <3> QED BY <3>1, <3>2
  <2>2. CASE w \notin Unread(Hist[1])
    <3> DEFINE B == UnreadBuckets(w)
    <3>1. Promise(w) = SumFunctionOnSet(Buckets(cell[w]), B)
      BY <2>2 DEF Promise
    <3>2. Promise(w)' = SumFunctionOnSet(Buckets(cell'[w]), B)
      <4>1. w \notin Unread(Hist[1])' /\ UnreadBuckets(w)' = B
        BY <1>2, <1>3, <2>2
      <4>2. Promise(w)' = SumFunctionOnSet(Buckets(cell[w])', UnreadBuckets(w)')
        BY <1>2, <2>2 DEF Promise
      <4>3. Buckets(cell[w])' = Buckets(cell'[w])
        BY DEF Buckets
      <4> QED BY <4>1, <4>2, <4>3
    <3>3. B \in SUBSET (1..H)
      BY HistShape DEF UnreadBuckets
    <3>4. Unread(R) = {}
      BY <2>2, ReadOrder DEF Unread, TypeOK
    <3>5. g \in Counters \/ \E b \in 1..H : g = Hist[b]
      BY HistShape DEF Fields
    <3>6. SumFunctionOnSet(Buckets(cell'[w]), B) >= SumFunctionOnSet(Buckets(cell[w]), B)
      <4>1. SumFunctionOnSet(Buckets(cell[w]), B) \in Nat
        BY <1>5, <3>1
      <4> HIDE DEF B
      <4>2. CASE g \in Counters
        <5>1. SumFunctionOnSet(Buckets(cell'[w]), B) = SumFunctionOnSet(Buckets(cell[w]), B)
          BY <3>3, <4>2, AddBuckets
        <5> QED BY <4>1, <5>1
      <4>3. ASSUME NEW b \in 1..H, g = Hist[b]
            PROVE  SumFunctionOnSet(Buckets(cell'[w]), B) >= SumFunctionOnSet(Buckets(cell[w]), B)
        <5>1. SumFunctionOnSet(Buckets(cell'[w]), B)
                = SumFunctionOnSet(Buckets(cell[w]), B) + (IF b \in B THEN 1 ELSE 0)
          BY <3>3, <4>3, AddBuckets
        <5> QED BY <4>1, <5>1
      <4> QED BY <3>5, <4>2, <4>3
    <3> QED BY <1>5, <3>1, <3>2, <3>4, <3>6
  <2> QED BY <2>1, <2>2
<1>9. snap[R] + Coming(R) <= Latencies(snap) + between + Promised
  BY DEF CoverInv
<1>10. Latencies(snap) \in Nat /\ between \in Nat /\ Latencies(snap)' = Latencies(snap)
  BY <1>1, PageType DEF TypeOK, Latencies, Buckets
<1>11. snap[R] + Coming(R)' <= Latencies(snap) + between + Promised'
  BY <1>5, <1>6, <1>7, <1>8, <1>9, <1>10
<1> QED BY <1>1, <1>10, <1>11 DEF CoverInv

\* The numbers on both sides of the covering.
LEMMA CoverKinds ==
  TypeOK => Coming("responses") \in Nat /\ Latencies(snap) \in Nat /\ between \in Nat
<1> SUFFICES ASSUME TypeOK
             PROVE  Coming("responses") \in Nat /\ Latencies(snap) \in Nat /\ between \in Nat
  OBVIOUS
<1>1. Coming("responses") \in Nat
  BY HistShape, Kinds
<1>2. between \in Nat
  BY HistShape DEF TypeOK
<1> QED BY <1>1, <1>2, PageType

\* Reading a cell turns a promise into latencies read: at the first bucket the
\* histogram covers the answers of its worker, but for the one it is at.
LEMMA CoverRead ==
  ASSUME TypeOK, TypeOK', RecordInv, CoverInv, ReadCell
  PROVE  CoverInv'
<1> DEFINE R == "responses"
<1>1. PICK g \in Fields, v \in W :
           /\ Cells[pos + 1] = <<g, v>>
           /\ snap' = [snap EXCEPT ![g] = @ + cell[v][g]]
           /\ between' = between + (IF g = Hist[1] /\ wpc[v] = "record" THEN 1 ELSE 0)
           /\ v \in Unread(g)
           /\ Unread(g)' = Unread(g) \ {v}
           /\ \A f \in Fields : f # g => Unread(f)' = Unread(f)
           /\ Coming(g) = cell[v][g] + Coming(g)'
           /\ \A f \in Fields : f # g => Coming(f)' = Coming(f)
  BY ReadMoves
<1>2. cell' = cell /\ wpc' = wpc /\ pos \in 0..Len(Cells) /\ pos < Len(Cells)
  BY DEF ReadCell, workerVars, TypeOK
<1>3. PICK c : c = cell[v][g]
  OBVIOUS
<1>4. /\ c \in Nat /\ snap \in Snapshots /\ R \in Fields /\ snap[R] \in Nat /\ Coming(R) \in Nat
      /\ between \in Nat /\ Latencies(snap) \in Nat /\ snap \in [Fields -> Nat]
  <2>1. W \in SUBSET W /\ R \in Fields
    BY HistShape
  <2>2. cell[v][g] \in Nat
    BY <2>1, ColumnType
  <2>3. snap[R] \in Nat /\ Coming(R) \in Nat
    BY <2>1, Kinds
  <2>4. snap \in Snapshots /\ snap \in [Fields -> Nat]
    BY DEF TypeOK, Snapshots
  <2> QED BY <1>3, <2>1, <2>2, <2>3, <2>4, CoverKinds
<1>5. snap' = Grown(snap, g, c)
  BY <1>1, <1>3 DEF Grown
<1>6. snap'[R] + Coming(R)' = snap[R] + Coming(R)
  <2>1. CASE g = R
    <3>1. snap'[R] = snap[R] + c /\ Coming(R) = c + Coming(R)'
      BY <1>1, <1>3, <1>4, <2>1
    <3>2. Coming(R)' \in Nat
      <4>1. (Coming("responses") \in Nat)'
        BY CoverKinds, PTL
      <4> QED BY <4>1
    <3> QED BY <1>4, <3>1, <3>2
  <2>2. CASE g # R
    BY <1>1, <1>4, <2>2
  <2> QED BY <2>1, <2>2
<1>7. \A u \in W, f \in Fields : u # v => (u \in Unread(f)' <=> u \in Unread(f))
  BY <1>1
<1>8. \A u \in W : u # v => Promise(u)' = Promise(u)
  <2> SUFFICES ASSUME NEW u \in W, u # v PROVE Promise(u)' = Promise(u)
    OBVIOUS
  <2>1. \A b \in DOMAIN Hist : u \in Unread(Hist[b])' <=> u \in Unread(Hist[b])
    BY <1>7, HistShape
  <2>2. UnreadBuckets(u)' = UnreadBuckets(u)
    BY <2>1 DEF UnreadBuckets
  <2>3. u \in Unread(Hist[1])' <=> u \in Unread(Hist[1])
    BY <2>1, HistShape
  <2> QED BY <1>2, <2>2, <2>3 DEF Promise, Buckets
<1>9. /\ Promised \in Nat /\ Promise(v) \in Nat /\ Promise(v)' \in Nat
      /\ Promised' = Promised + (Promise(v)' - Promise(v))
  BY <1>8, PromisedChange
<1>10. snap[R] + Coming(R) <= Latencies(snap) + between + Promised
  BY DEF CoverInv
<1>11. Latencies(snap)' = Latencies(snap')
  BY DEF Latencies, Buckets
<1>12. /\ g \in Counters => Latencies(snap') = Latencies(snap)
       /\ (\E b \in 1..H : g = Hist[b]) => Latencies(snap') = Latencies(snap) + c
  <2>1. PICK s, t : s = snap /\ t = snap'
    OBVIOUS
  <2>2. 1..H \in SUBSET (1..H)
    OBVIOUS
  <2>3. t = Grown(s, g, c) /\ s \in Snapshots
    BY <1>4, <1>5, <2>1
  <2>4. t \in Snapshots
    BY <1>4, <2>2, <2>3, BucketsGrow
  <2>s. PICK S \in SUBSET (1..H) : S = 1..H
    BY <2>2
  <2>c. /\ g \in Counters => SumFunctionOnSet(Buckets(t), S) = SumFunctionOnSet(Buckets(s), S)
        /\ \A b \in 1..H : g = Hist[b] =>
             SumFunctionOnSet(Buckets(t), S) = SumFunctionOnSet(Buckets(s), S) + (IF b \in S THEN c ELSE 0)
    BY <1>4, <2>3, BucketsGrow
  <2>5. g \in Counters => SumFunctionOnSet(Buckets(t), 1..H) = SumFunctionOnSet(Buckets(s), 1..H)
    BY <2>c, <2>s
  <2>6. \A b \in 1..H : g = Hist[b] =>
          SumFunctionOnSet(Buckets(t), 1..H) = SumFunctionOnSet(Buckets(s), 1..H) + c
    BY <2>c, <2>s
  <2>7. Latencies(t) = SumFunctionOnSet(Buckets(t), 1..H) /\ Latencies(s) = SumFunctionOnSet(Buckets(s), 1..H)
    BY <2>2, <2>3, <2>4, BucketsType
  <2>8. /\ g \in Counters => Latencies(t) = Latencies(s)
        /\ (\E b \in 1..H : g = Hist[b]) => Latencies(t) = Latencies(s) + c
    BY <2>5, <2>6, <2>7
  <2> QED BY <2>1, <2>8
<1>13. Latencies(snap) + between + Promise(v) <= Latencies(snap') + between' + Promise(v)'
  <2>0. cell[v] \in Snapshots
    BY DEF TypeOK
  <2>1. CASE g \in Counters
    <3>1. \A b \in DOMAIN Hist : Unread(Hist[b])' = Unread(Hist[b])
      BY <1>1, <2>1, HistShape
    <3>2. UnreadBuckets(v)' = UnreadBuckets(v) /\ Unread(Hist[1])' = Unread(Hist[1])
      BY <3>1, HistShape DEF UnreadBuckets
    <3>3. Promise(v)' = Promise(v)
      BY <1>2, <3>2 DEF Promise, Buckets
    <3>4. between' = between
      BY <1>1, <1>4, <2>1, HistShape
    <3> QED BY <1>4, <1>9, <1>12, <2>1, <3>3, <3>4
  <2>2. CASE g = Hist[1]
    <3>1. v \in Unread(Hist[1]) /\ v \notin Unread(Hist[1])'
      BY <1>1, <2>2
    <3>2. \A b \in 1..H : v \in Unread(Hist[b])
      BY <1>2, <3>1, ReadOrder DEF Unread
    <3>3. \A b \in 1..H : b # 1 => Unread(Hist[b])' = Unread(Hist[b])
      BY <1>1, <2>2, HistShape
    <3>4. UnreadBuckets(v)' = (1..H) \ {1}
      BY <3>1, <3>2, <3>3, HistShape DEF UnreadBuckets
    <3>5. Promise(v) = cell[v][R]
      BY <3>1 DEF Promise
    <3>6. Promise(v)' = SumFunctionOnSet(Buckets(cell[v]), (1..H) \ {1})
      <4>1. Promise(v)' = SumFunctionOnSet(Buckets(cell[v])', UnreadBuckets(v)')
        BY <3>1 DEF Promise
      <4>2. Buckets(cell[v])' = Buckets(cell[v])
        BY <1>2 DEF Buckets
      <4> QED BY <3>4, <4>1, <4>2
    <3>7. Recorded(v) = c + Promise(v)'
      <4>1. 1..H \in SUBSET (1..H) /\ 1 \in 1..H
        BY HistShape
      <4>2. /\ IsFiniteSet(1..H) /\ Ints(Buckets(cell[v]), 1..H) /\ Buckets(cell[v])[1] = c
            /\ Latencies(cell[v]) = SumFunctionOnSet(Buckets(cell[v]), 1..H)
        BY <1>3, <2>0, <2>2, <4>1, BucketsType
      <4>3. SumFunctionOnSet(Buckets(cell[v]), 1..H)
              = Buckets(cell[v])[1] + SumFunctionOnSet(Buckets(cell[v]), (1..H) \ {1})
        BY <4>1, <4>2, SumSplit
      <4> QED BY <3>6, <4>2, <4>3 DEF Recorded
    <3>8. cell[v][R] + (IF wpc[v] = "count" THEN 1 ELSE 0) = Recorded(v) + (IF wpc[v] = "record" THEN 1 ELSE 0)
      BY DEF RecordInv
    <3>9. between' = between + (IF wpc[v] = "record" THEN 1 ELSE 0)
      BY <1>1, <2>2
    <3>10. Latencies(snap') = Latencies(snap) + c
      BY <1>12, <2>2, HistShape
    <3>11. cell[v][R] \in Nat
      BY <1>9, <3>5
    <3> QED BY <1>4, <1>9, <3>5, <3>7, <3>8, <3>9, <3>10, <3>11
  <2>3. ASSUME NEW b \in 1..H, g = Hist[b], b # 1
        PROVE  Latencies(snap) + between + Promise(v) <= Latencies(snap') + between' + Promise(v)'
    <3>1. v \notin Unread(Hist[1])
      BY <1>1, <1>2, <2>3, LaterBucket DEF Unread
    <3>2. Hist[1] # g /\ Hist[1] \in Fields
      BY <2>3, HistShape
    <3>3. v \notin Unread(Hist[1])' /\ between' = between
      BY <1>1, <1>4, <3>1, <3>2
    <3> DEFINE B == UnreadBuckets(v)
    <3>4. b \in B /\ B \in SUBSET (1..H)
      BY <1>1, <2>3, HistShape DEF UnreadBuckets
    <3>5. UnreadBuckets(v)' = B \ {b}
      <4>1. \A a \in 1..H : a # b => Unread(Hist[a])' = Unread(Hist[a])
        BY <1>1, <2>3, HistShape
      <4>2. v \notin Unread(Hist[b])'
        BY <1>1, <2>3
      <4> QED BY <4>1, <4>2, HistShape DEF UnreadBuckets
    <3>6. Promise(v) = SumFunctionOnSet(Buckets(cell[v]), B)
      BY <3>1 DEF Promise
    <3>7. Promise(v)' = SumFunctionOnSet(Buckets(cell[v]), B \ {b})
      <4>1. Promise(v)' = SumFunctionOnSet(Buckets(cell[v])', UnreadBuckets(v)')
        BY <3>3 DEF Promise
      <4>2. Buckets(cell[v])' = Buckets(cell[v])
        BY <1>2 DEF Buckets
      <4> QED BY <3>5, <4>1, <4>2
    <3> HIDE DEF B
    <3>8. IsFiniteSet(B) /\ Ints(Buckets(cell[v]), B) /\ Buckets(cell[v])[b] = c
      BY <1>3, <2>0, <2>3, <3>4, BucketsType
    <3>9. Promise(v) = c + Promise(v)'
      BY <3>4, <3>6, <3>7, <3>8, SumSplit
    <3>10. Latencies(snap') = Latencies(snap) + c
      BY <1>12, <2>3
    <3> QED BY <1>4, <1>9, <3>3, <3>9, <3>10
  <2>4. g \in Counters \/ \E b \in 1..H : g = Hist[b]
    BY HistShape DEF Fields
  <2> QED BY <2>1, <2>2, <2>3, <2>4
<1>14. Latencies(snap') \in Nat /\ between' \in Nat
  <2>2. (Latencies(snap) \in Nat /\ between \in Nat)'
    BY CoverKinds, PTL
  <2> QED BY <1>11, <2>2
<1>15. snap'[R] + Coming(R)' <= Latencies(snap') + between' + Promised'
  BY <1>4, <1>6, <1>9, <1>10, <1>13, <1>14
<1> QED BY <1>11, <1>15 DEF CoverInv

\* Before anything is read every worker promises its answers.
LEMMA CoverStart ==
  TypeOK /\ pos = 0 /\ snap = Zero => CoverInv
<1> SUFFICES ASSUME TypeOK, pos = 0, snap = Zero PROVE CoverInv
  OBVIOUS
<1> DEFINE R == "responses"
<1>1. R \in Fields /\ Hist[1] \in Fields /\ snap[R] = 0
  BY HistShape DEF Zero
<1>2. Unread(R) = W /\ Unread(Hist[1]) = W
  BY <1>1, UnreadEnds DEF Unread
<1>3. Coming(R) = Total(R)
  <2>1. Total(R) = SumFunctionOnSet(Column(R), W)
    BY <1>1, ColumnType
  <2> QED BY <1>2, <2>1 DEF Coming
<1>4. Promises = Column(R)
  BY <1>2 DEF Promises, Promise, Column
<1>5. Promised = Total(R)
  BY <1>4 DEF Promised, Total
<1>6. Total(R) \in Nat
  BY <1>1, Kinds
<1>7. Latencies(snap) \in Nat /\ between \in Nat
  BY CoverKinds
<1> QED BY <1>1, <1>3, <1>5, <1>6, <1>7 DEF CoverInv

\* The invariant holds at the start of the program.
LEMMA InitInv == Init => IInv
<1> SUFFICES ASSUME Init PROVE IInv
  OBVIOUS
<1>1. Zero \in Snapshots /\ Len(Cells) \in Nat /\ Workers \in Nat \ {0}
  BY CellAt, HistShape DEF Zero, Snapshots
<1>2. TypeOK
  <2>1. /\ cell \in [W -> Snapshots] /\ {snap, low, pending, remote, shown} \subseteq Snapshots
        /\ pos \in 0..Len(Cells) /\ between \in 0..Workers
    BY <1>1 DEF Init
  <2>2. chan \in Seq(Snapshots) /\ Len(chan) <= Capacity
    BY TelemetryBounds DEF Init
  <2>3. page \in [le : [DOMAIN Bounds -> Nat], inf : Nat]
    BY DEF Init
  <2>4. work \in 0..MaxWork /\ reads \in 0..MaxReads
    BY TelemetryBounds DEF Init
  <2> QED BY <2>1, <2>2, <2>3, <2>4 DEF Init, TypeOK
<1>3. BracketInv
  <2> SUFFICES ASSUME NEW f \in Fields
               PROVE  low[f] <= snap[f] + Coming(f) /\ snap[f] + Coming(f) <= Total(f)
    BY DEF BracketInv
  <2>1. Unread(f) = W
    BY UnreadEnds DEF Unread, Init
  <2>2. W \in SUBSET W
    OBVIOUS
  <2>3. Total(f) = SumFunctionOnSet(Column(f), W) /\ Total(f) \in Nat
    BY <1>2, <2>2, ColumnType
  <2>4. Coming(f) = Total(f)
    BY <2>1, <2>3 DEF Coming
  <2>5. low[f] = 0 /\ snap[f] = 0
    BY DEF Init, Zero
  <2> QED BY <2>3, <2>4, <2>5
<1>4. TravelInv
  <2> SUFFICES ASSUME NEW f \in Fields
               PROVE  /\ shown[f] <= remote[f]
                      /\ remote[f] <= pending[f]
                      /\ pending[f] <= Total(f)
                      /\ reader = "stream" => pending[f] <= low[f]
                      /\ \A i \in DOMAIN chan : remote[f] <= chan[i][f] /\ chan[i][f] <= pending[f]
                      /\ \A i, j \in DOMAIN chan : i <= j => chan[i][f] <= chan[j][f]
                      /\ f \in Counters => prom[f] <= Total(f)
    BY DEF TravelInv
  <2>1. Total(f) \in Nat
    BY <1>2, Kinds
  <2>2. shown[f] = 0 /\ remote[f] = 0 /\ pending[f] = 0 /\ reader = "none" /\ chan = <<>>
    BY DEF Init, Zero
  <2>3. f \in Counters => prom[f] = 0
    BY DEF Init
  <2> QED BY <2>1, <2>2, <2>3
<1>5. RecordInv
  <2> SUFFICES ASSUME NEW w \in W
               PROVE  cell[w]["responses"] + (IF wpc[w] = "count" THEN 1 ELSE 0)
                        = Recorded(w) + (IF wpc[w] = "record" THEN 1 ELSE 0)
    BY DEF RecordInv
  <2>1. cell[w] = Zero /\ wpc[w] = "idle" /\ cell[w]["responses"] = 0
    BY HistShape DEF Init, Zero
  <2>2. 1..H \in SUBSET (1..H)
    OBVIOUS
  <2>3. /\ Latencies(Zero) = SumFunctionOnSet(Buckets(Zero), 1..H)
        /\ \A b \in 1..H : Buckets(Zero)[b] = Zero[Hist[b]]
    BY <1>1, <2>2, BucketsType
  <2>4. \A b \in 1..H : Buckets(Zero)[b] = 0
    BY <2>3, HistShape DEF Zero
  <2>5. IsFiniteSet(1..H)
    BY HistShape, FS_Interval
  <2>6. Latencies(Zero) = 0
    BY <2>3, <2>4, <2>5, SumZero
  <2> QED BY <2>1, <2>6 DEF Recorded
<1>6. CoverInv
  BY <1>2, CoverStart DEF Init
<1>7. BetweenInv
  <2>1. Unread(Hist[1]) = W
    BY UnreadEnds, HistShape DEF Unread, Init
  <2>2. Cardinality(W) = Workers
    BY <1>1, FS_Interval DEF W
  <2> QED BY <1>1, <2>1, <2>2 DEF BetweenInv, Init
<1> QED BY <1>2, <1>3, <1>4, <1>5, <1>6, <1>7 DEF IInv

\* Every step keeps it.
LEMMA StepInv == IInv /\ [Next]_vars => IInv'
<1> SUFFICES ASSUME IInv, [Next]_vars PROVE IInv'
  OBVIOUS
<1>1. TypeOK /\ BracketInv /\ TravelInv /\ RecordInv /\ CoverInv /\ BetweenInv
  BY DEF IInv
<1>2. TypeOK' /\ BetweenInv'
  BY <1>1, StepType
<1>3. TravelInv'
  BY <1>1, <1>2, StepTravel
<1>4. CASE \E w \in W : \/ OnRequest(w) \/ OnResponse(w)
                        \/ \E b \in DOMAIN Hist : Record(w, b)
  <2>1. PICK w \in W : \/ OnRequest(w) \/ OnResponse(w)
                       \/ \E b \in DOMAIN Hist : Record(w, b)
    BY <1>4
  <2>2. PICK g \in Fields : Add(w, g)
    BY <2>1, HistShape DEF OnRequest, OnResponse, Record
  <2>3. UNCHANGED readerVars
    BY <2>1 DEF OnRequest, OnResponse, Record, WorkerStep
  <2>4. BracketInv'
    BY <1>1, <2>2, <2>3, BracketAdd
  <2>5. RecordInv'
    BY <1>1, <2>1, RecordAdd
  <2>6. CoverInv'
    BY <1>1, <1>2, <2>2, <2>3, CoverAdd
  <2> QED BY <1>2, <1>3, <2>4, <2>5, <2>6 DEF IInv
<1>5. CASE cell' = cell /\ wpc' = wpc
  <2>1. RecordInv'
    BY <1>1, <1>5 DEF RecordInv, Recorded, Latencies, Buckets
  <2>2. CASE ReadCell
    <3>1. BracketInv' /\ CoverInv'
      BY <1>1, <1>2, <2>2, BracketRead, CoverRead
    <3> QED BY <1>2, <1>3, <2>1, <3>1 DEF IInv
  <2>3. CASE pos' = 0 /\ snap' = Zero /\ (low' = Zero \/ low' = [f \in Fields |-> Total(f)])
    <3>1. BracketInv'
      BY <1>1, <1>5, <2>3, BracketReset
    <3>2. (pos = 0)' /\ (snap = Zero)'
      BY <2>3 DEF Zero
    <3>3. CoverInv'
      BY <1>2, <3>2, CoverStart, PTL
    <3> QED BY <1>2, <1>3, <2>1, <3>1, <3>3 DEF IInv
  <2>4. CASE UNCHANGED readerVars
    <3>1. pos' = pos /\ snap' = snap /\ low' = low /\ between' = between
      BY <2>4 DEF readerVars
    <3>2. \A f : Column(f)' = Column(f) /\ Unread(f)' = Unread(f)
      BY <1>5, <3>1 DEF Column, Unread
    <3>3. \A f : Coming(f)' = Coming(f) /\ Total(f)' = Total(f)
      BY <3>2 DEF Coming, Total
    <3>4. BracketInv'
      BY <1>1, <3>1, <3>3 DEF BracketInv
    <3>5. \A u : UnreadBuckets(u)' = UnreadBuckets(u)
      BY <3>2 DEF UnreadBuckets
    <3>6. Promises' = Promises
      BY <1>5, <3>2, <3>5 DEF Promises, Promise, Buckets
    <3>7. Promised' = Promised /\ Latencies(snap)' = Latencies(snap)
      BY <3>1, <3>6 DEF Promised, Latencies, Buckets
    <3>8. CoverInv'
      BY <1>1, <3>1, <3>3, <3>7 DEF CoverInv
    <3> QED BY <1>2, <1>3, <2>1, <3>4, <3>8 DEF IInv
  <2>5. \/ ReadCell
        \/ pos' = 0 /\ snap' = Zero /\ (low' = Zero \/ low' = [f \in Fields |-> Total(f)])
        \/ UNCHANGED readerVars
    BY DEF Next, OnRequest, OnResponse, Record, WorkerStep, StreamTick, SnapshotTaken, StreamSend,
           Consume, ClientLeaves, OnTick, StartScrape, Scrape, StopRun, LoopEnds, vars, Begin, End
  <2> QED BY <2>2, <2>3, <2>4, <2>5
<1>6. \/ \E w \in W : \/ OnRequest(w) \/ OnResponse(w)
                      \/ \E b \in DOMAIN Hist : Record(w, b)
      \/ cell' = cell /\ wpc' = wpc
  BY DEF Next, ReadCell, StreamTick, SnapshotTaken, StreamSend, Consume, ClientLeaves, OnTick,
         StartScrape, Scrape, StopRun, LoopEnds, vars, workerVars
<1> QED BY <1>4, <1>5, <1>6

\* The invariant always holds.
LEMMA Invariant == Spec => []IInv
BY InitInv, StepInv, PTL DEF Spec

(***************************************************************************)
(* The theorems.                                                           *)
(***************************************************************************)

\* The types of every process, the channel within its capacity and the
\* snapshot of the stream owned by the stream task alone, for every number of
\* workers, histogram, bounds of the page and capacity.
THEOREM TelemetryTypeCorrect == Spec => []TypeOK
<1>1. IInv => TypeOK
  BY DEF IInv
<1> QED BY <1>1, Invariant, PTL

\* Every value of every snapshot is one its counter had while the snapshot was
\* read, however the workers count between the reads (percpu.rs, snapshot()).
THEOREM SnapshotsBracketed == Spec => []SnapshotBracketed
<1>1. IInv => SnapshotBracketed
  BY TakenBracketed DEF IInv, SnapshotBracketed
<1> QED BY <1>1, Invariant, PTL

\* The latencies of a snapshot cover its answers but for one of each worker
\* caught between its two writes, because the histogram is read last (rx_stats
\* and metrics_handler).
THEOREM LatenciesCovered == Spec => []LatenciesCover
<1>1. IInv => LatenciesCover
  <2> SUFFICES ASSUME IInv, pos = Len(Cells)
               PROVE  Latencies(snap) + between >= snap["responses"]
    BY DEF LatenciesCover
  <2>1. TypeOK /\ CoverInv
    BY DEF IInv
  <2>2. "responses" \in Fields /\ Hist[1] \in Fields
    BY HistShape
  <2>3. \A f \in Fields : Unread(f) = {}
    BY UnreadEnds DEF Unread
  <2>4. Coming("responses") = 0
    BY <2>2, <2>3, SumEmpty DEF Coming
  <2>5. \A u \in W : UnreadBuckets(u) = {}
    BY <2>3, HistShape DEF UnreadBuckets
  <2>6. \A u \in W : Promise(u) = 0
    BY <2>2, <2>3, <2>5, SumEmpty DEF Promise
  <2>7. \A u \in W : Promises[u] = 0
    BY <2>6 DEF Promises
  <2>8. IsFiniteSet(W)
    BY WorkersAssumption, FS_Interval DEF W
  <2>9. Promised = 0
    BY <2>1, <2>7, <2>8, PromiseType, SumZero
  <2>10. snap["responses"] \in Nat /\ Latencies(snap) \in Nat /\ between \in Nat
    BY <2>1, <2>2, Kinds, CoverKinds
  <2> QED BY <2>1, <2>4, <2>9, <2>10 DEF CoverInv
<1> QED BY <1>1, Invariant, PTL

\* No step takes back what a reader has seen: the last snapshot stored, the
\* screen and the Prometheus counters never fall, and those counters stay
\* within the true totals (the stream, update_tx, update_rx).
THEOREM NeverBack == Spec => NothingGoesBack
<1> DEFINE Ahead == \A f \in Fields :
                      /\ remote'[f] >= remote[f]
                      /\ shown'[f] >= shown[f]
                      /\ f \in Counters => prom'[f] >= prom[f] /\ prom'[f] <= Total(f)'
<1>1. IInv /\ IInv' /\ [Next]_vars => [Ahead]_vars
  <2> SUFFICES ASSUME IInv, IInv', Next, NEW f \in Fields
               PROVE  /\ remote'[f] >= remote[f]
                      /\ shown'[f] >= shown[f]
                      /\ f \in Counters => prom'[f] >= prom[f] /\ prom'[f] <= Total(f)'
    OBVIOUS
  <2>1. TypeOK /\ TravelInv /\ TravelInv'
    BY DEF IInv
  <2>2. /\ snap[f] \in Nat /\ remote[f] \in Nat /\ shown[f] \in Nat
        /\ f \in Counters => prom[f] \in Nat
    BY <2>1, Kinds
  <2>3. shown[f] <= remote[f] /\ \A i \in DOMAIN chan : remote[f] <= chan[i][f]
    BY <2>1 DEF TravelInv
  <2>4. f \in Counters => prom'[f] <= Total(f)'
    BY <2>1 DEF TravelInv
  <2>5. CASE Consume
    <3>1. shown' = shown /\ prom' = prom
      BY <2>5 DEF Consume
    <3>2. CASE chan # <<>>
      <4>1. chan \in Seq(Snapshots)
        BY <2>1 DEF TypeOK
      <4>2. 1 \in DOMAIN chan /\ Head(chan) = chan[1]
        BY <3>2, <4>1
      <4>3. remote'[f] = chan[1][f]
        BY <2>5, <3>2, <4>2 DEF Consume
      <4>4. chan[1][f] \in Nat
        <5>1. chan[1] \in Snapshots
          BY <4>1, <4>2
        <5> QED BY <5>1 DEF Snapshots
      <4> QED BY <2>2, <2>3, <2>4, <3>1, <4>2, <4>3, <4>4
    <3>3. CASE chan = <<>>
      BY <2>2, <2>4, <2>5, <3>1, <3>3 DEF Consume
    <3> QED BY <3>2, <3>3
  <2>6. CASE OnTick
    <3>1. remote' = remote /\ prom' = prom /\ shown'[f] = remote[f]
      BY <2>6 DEF OnTick, RemoteStat, streamVars
    <3> QED BY <2>2, <2>3, <2>4, <3>1
  <2>7. CASE Scrape
    <3>1. remote' = remote /\ shown' = shown
      BY <2>7 DEF Scrape, streamVars
    <3>2. f \in Counters => prom'[f] = Raised(f)
      BY <2>7 DEF Scrape
    <3>3. f \in Counters => prom'[f] >= prom[f]
      BY <2>2, <3>2 DEF Raised
    <3> QED BY <2>2, <2>4, <3>1, <3>3
  <2>8. CASE UNCHANGED <<remote, shown, prom>>
    BY <2>2, <2>4, <2>8
  <2>9. Consume \/ OnTick \/ Scrape \/ UNCHANGED <<remote, shown, prom>>
    BY DEF Next, OnRequest, OnResponse, Record, WorkerStep, ReadCell, StreamTick, SnapshotTaken,
           StreamSend, ClientLeaves, StartScrape, StopRun, LoopEnds, streamVars
  <2> QED BY <2>5, <2>6, <2>7, <2>8, <2>9
<1>2. Spec => [][IInv /\ IInv' /\ [Next]_vars]_vars
  BY Invariant, PTL DEF Spec
<1> QED BY <1>1, <1>2, PTL DEF NothingGoesBack
==============================================================================
