---------------------------- MODULE ProfilesProofs ----------------------------
(***************************************************************************)
(* Proofs about Profiles: for every profile, however many tracks and parts *)
(* it has, and every interval of polling, parts start in order, never      *)
(* early, and late by at most one interval for each part before them; the  *)
(* rate of a line is faithful to the exact line; and the profile ends with *)
(* its longest track, after the whole duration announced.                  *)
(***************************************************************************)
EXTENDS Profiles, Arithmetic, TLAPS

Inv == TypeOK /\ Schedule

\* The length of a part that plays is a natural number (Duration::from_secs).
LEMMA LengthNat ==
  ASSUME TypeOK, NEW i \in Tracks, ~Over(i)
  PROVE  Length(prof[i][idx[i]]) \in Nat
<1>1. prof \in Seq(Seq(Parts))
  BY ProfsAssumption DEF TypeOK
<1>2. prof[i] \in Seq(Parts)
  BY <1>1 DEF Tracks
<1>3. idx[i] \in 1..Len(prof[i])
  BY <1>2 DEF TypeOK, Over
<1>4. prof[i][idx[i]] \in Parts
  BY <1>2, <1>3
<1> QED
  BY <1>4, ClockAssumption DEF Parts, Length

\* The first part starts on time (activate_at).
LEMMA InitInv == Init => Inv
<1> SUFFICES ASSUME Init PROVE Inv
  OBVIOUS
<1>1. prof \in Seq(Seq(Parts))
  BY ProfsAssumption DEF Init
<1>2. \A i \in Tracks : Len(prof[i]) \in Nat
  BY <1>1 DEF Tracks
<1>3. TypeOK
  BY <1>2 DEF Init, TypeOK
<1>5. \A i \in Tracks : ~Over(i) => Length(prof[i][idx[i]]) \in Nat
  BY <1>3, LengthNat
<1>6. Schedule
  BY <1>5, ClockAssumption DEF Init, Schedule
<1> QED
  BY <1>3, <1>6 DEF Inv

\* What one poll does to one track (SeqGenerator::current_at).
LEMMA PollTrack ==
  ASSUME Inv, NEW gap \in 0..MaxGap, CurrentAt(gap), NEW i \in Tracks
  PROVE  /\ idx'[i] \in Nat \ {0}
         /\ idx'[i] <= Len(prof[i]) + 1
         /\ t0'[i] \in 0..now'
         /\ due'[i] \in Nat
         /\ idx'[i] - 1 <= t0'[i] - due'[i]
         /\ t0'[i] - due'[i] <= (idx'[i] - 1) * MaxGap
         /\ idx'[i] <= Len(prof[i]) => now' - t0'[i] <= Length(prof[i][idx'[i]])
<1>1. /\ idx[i] \in Nat \ {0} /\ t0[i] \in 0..now /\ due[i] \in Nat /\ now \in Nat
      /\ idx[i] <= Len(prof[i]) + 1
      /\ idx[i] - 1 <= t0[i] - due[i]
      /\ t0[i] - due[i] <= (idx[i] - 1) * MaxGap
      /\ ~Over(i) => now - t0[i] <= Length(prof[i][idx[i]])
  BY DEF Inv, TypeOK, Schedule
<1>2. now' = now + gap /\ gap \in Nat /\ gap <= MaxGap /\ MaxGap \in Nat
  BY ClockAssumption DEF CurrentAt
<1>3. Len(prof[i]) \in Nat
  BY ProfsAssumption DEF Inv, TypeOK, Tracks
<1>4. /\ idx'[i] = NextPart(i, now')
      /\ t0'[i] = Activated(i, now')
      /\ due'[i] = IF idx'[i] # idx[i] THEN due[i] + Length(prof[i][idx[i]]) ELSE due[i]
  BY DEF CurrentAt
<1>5. CASE ~Over(i) /\ now' - t0[i] > Length(prof[i][idx[i]])
  <2> DEFINE len == Length(prof[i][idx[i]])
  <2>1. len \in Nat
    BY <1>5, LengthNat DEF Inv
  <2>2. idx'[i] = idx[i] + 1
    BY <1>4, <1>5 DEF NextPart
  <2>3. t0'[i] = now' /\ due'[i] = due[i] + len
    BY <1>1, <1>4, <2>2 DEF Activated
  <2>4. idx[i] <= Len(prof[i])
    BY <1>1, <1>3, <1>5 DEF Over
  <2> DEFINE late == t0'[i] - due'[i]
  <2>5. idx[i] <= late
    BY <1>1, <1>2, <1>5, <2>1, <2>3
  <2>6. late <= (idx[i] - 1) * MaxGap + MaxGap
    <3> DEFINE before == (idx[i] - 1) * MaxGap
    <3>1. before \in Int
      BY <1>1, <1>2
    <3>2. t0[i] - due[i] <= before
      BY <1>1
    <3>3. now' - t0[i] - len <= MaxGap
      BY <1>1, <1>2, <1>5, <2>1
    <3>4. late = (t0[i] - due[i]) + (now' - t0[i] - len)
      BY <1>1, <1>2, <2>1, <2>3
    <3> HIDE DEF before, len, late
    <3>5. late <= before + MaxGap
      BY <1>1, <1>2, <2>1, <3>1, <3>2, <3>3, <3>4
    <3> QED
      BY <3>5 DEF before
  <2>7. (idx[i] - 1) * MaxGap + MaxGap = (idx'[i] - 1) * MaxGap
    BY <1>1, <1>2, <2>2
  <2>8. idx'[i] <= Len(prof[i]) => Length(prof[i][idx'[i]]) \in Nat
    <3> SUFFICES ASSUME idx'[i] <= Len(prof[i]) PROVE Length(prof[i][idx'[i]]) \in Nat
      OBVIOUS
    <3>1. prof[i] \in Seq(Parts)
      BY ProfsAssumption DEF Inv, TypeOK, Tracks
    <3>2. idx'[i] \in 1..Len(prof[i])
      BY <1>1, <1>3, <2>2
    <3>3. prof[i][idx'[i]] \in Parts
      BY <3>1, <3>2
    <3> QED
      BY <3>3, ClockAssumption DEF Parts, Length
  <2>9. now' - t0'[i] = 0 /\ now' \in Nat
    BY <1>1, <1>2, <2>3
  <2> HIDE DEF len
  <2>10. idx'[i] \in Nat \ {0} /\ idx'[i] <= Len(prof[i]) + 1
    BY <1>1, <1>3, <2>2, <2>4
  <2>11. t0'[i] \in 0..now' /\ due'[i] \in Nat
    BY <1>1, <1>2, <2>1, <2>3
  <2>12. idx'[i] - 1 <= t0'[i] - due'[i]
    BY <1>1, <2>2, <2>5
  <2>13. t0'[i] - due'[i] <= (idx'[i] - 1) * MaxGap
    BY <2>6, <2>7
  <2>14. idx'[i] <= Len(prof[i]) => now' - t0'[i] <= Length(prof[i][idx'[i]])
    BY <2>8, <2>9
  <2> QED
    BY <2>10, <2>11, <2>12, <2>13, <2>14
<1>6. CASE ~(~Over(i) /\ now' - t0[i] > Length(prof[i][idx[i]]))
  <2>1. idx'[i] = idx[i] /\ t0'[i] = t0[i] /\ due'[i] = due[i]
    BY <1>4, <1>6 DEF NextPart, Activated
  <2>2. idx[i] <= Len(prof[i]) => now' - t0[i] <= Length(prof[i][idx[i]])
    <3> SUFFICES ASSUME idx[i] <= Len(prof[i])
                 PROVE  now' - t0[i] <= Length(prof[i][idx[i]])
      OBVIOUS
    <3>1. ~Over(i)
      BY <1>1, <1>3 DEF Over
    <3>2. Length(prof[i][idx[i]]) \in Nat
      BY <3>1, LengthNat DEF Inv
    <3> QED
      BY <1>1, <1>2, <1>6, <3>1, <3>2
  <2> QED
    BY <1>1, <1>2, <2>1, <2>2
<1> QED
  BY <1>5, <1>6

\* Every poll keeps types and schedule (SeqGenerator::current_at).
LEMMA NextInv == Inv /\ [Next]_vars => Inv'
<1> SUFFICES ASSUME Inv, [Next]_vars PROVE Inv'
  OBVIOUS
<1>1. CASE Create
  BY <1>1 DEF Create, Inv, TypeOK, Schedule, Tracks, Over, Length, Panics
<1>2. ASSUME NEW gap \in 0..MaxGap, CurrentAt(gap) PROVE Inv'
  <2>1. prof' = prof /\ Tracks' = Tracks /\ prof \in Profs
    BY <1>2 DEF CurrentAt, Tracks, Inv, TypeOK
  <2>2. pc' \in {"playing", "over"} /\ now' \in Nat
    BY <1>2, ClockAssumption DEF CurrentAt, Inv, TypeOK
  <2>4. idx' = [i \in Tracks |-> idx'[i]] /\ t0' = [i \in Tracks |-> t0'[i]] /\ due' = [i \in Tracks |-> due'[i]]
    BY <1>2 DEF CurrentAt
  <2>5. TypeOK'
    BY <1>2, <2>1, <2>2, <2>4, PollTrack DEF TypeOK
  <2>6. \A i \in Tracks : Over(i)' <=> idx'[i] > Len(prof[i])
    BY <2>1 DEF Over
  <2>7. \A i \in Tracks : Len(prof[i]) \in Nat
    BY <2>1, ProfsAssumption DEF Tracks
  <2>8. Schedule'
    <3> SUFFICES ASSUME NEW i \in Tracks
                 PROVE  /\ idx'[i] - 1 <= t0'[i] - due'[i]
                        /\ t0'[i] - due'[i] <= (idx'[i] - 1) * MaxGap
                        /\ ~Over(i)' => now' - t0'[i] <= Length(prof[i][idx'[i]])
      BY <2>1 DEF Schedule, Length
    <3> QED
      BY <1>2, <2>6, <2>7, PollTrack
  <2> QED
    BY <2>5, <2>8 DEF Inv
<1>3. CASE UNCHANGED vars
  BY <1>3 DEF vars, Inv, TypeOK, Schedule, Tracks, Over, Length
<1> QED
  BY <1>1, <1>2, <1>3 DEF Next

\* Parts start in order and never early, and lateness is at most one interval
\* of polling per part (SeqGenerator::current_at), for every profile.
THEOREM ScheduleKept == Spec => [](TypeOK /\ Schedule)
<1> QED
  BY InitInv, NextInv, PTL DEF Spec, Inv

(***************************************************************************)
(* The rate of a line.                                                     *)
(***************************************************************************)

\* The two divisions of a line of height d over k seconds of s units each,
\* when e units have passed.
LEMMA LineNat ==
  ASSUME NEW d \in Nat, NEW k \in Nat \ {0}, NEW s \in Nat \ {0}, NEW e \in 0..(k * s),
         NEW a, a = (d * s) \div (k * s), NEW r, r = (a * e) \div s
  PROVE  /\ a \in Nat /\ r \in Nat
         /\ a * e <= d * s
         /\ r <= d
         /\ r * (k * s) <= d * e
         /\ d * e < r * (k * s) + (e + s) * k
<1>1. k * s \in Nat \ {0} /\ d * s \in Nat /\ e \in Nat
  OBVIOUS
<1>2. a \in Nat /\ (k * s) * a <= d * s /\ d * s < (k * s) * a + k * s
  BY <1>1, DivBounds
<1>3. a * e \in Nat
  BY <1>1, <1>2
<1>4. r \in Nat /\ s * r <= a * e /\ a * e < s * r + s
  BY <1>3, DivBounds
<1>5. a * e <= a * (k * s)
  BY <1>1, <1>2, TimesMono
<1>6. a * (k * s) = (k * s) * a
  BY <1>1, <1>2
<1>7. a * e <= d * s
  <2> QED BY <1>1, <1>2, <1>3, <1>5, <1>6
<1>8. r <= d
  <2>1. s * r <= s * d
    BY <1>1, <1>3, <1>4, <1>7
  <2> QED BY <1>4, <2>1, TimesCancel
<1>9. k * a <= d
  <2>1. s * (k * a) = (k * s) * a /\ s * d = d * s /\ k * a \in Nat
    BY <1>2
  <2>2. s * (k * a) <= s * d
    BY <1>2, <2>1
  <2> QED BY <2>1, <2>2, TimesCancel
<1>10. d < k * a + k
  <2>1. s * (k * a + k) = (k * s) * a + k * s /\ s * d = d * s /\ k * a + k \in Nat
    BY <1>2
  <2>2. s * d < s * (k * a + k)
    BY <1>2, <2>1
  <2> QED BY <2>1, <2>2, TimesCancelStrict
<1>11. r * (k * s) <= d * e
  <2>1. k * (s * r) <= k * (a * e)
    BY <1>3, <1>4, TimesMono
  <2>2. (k * a) * e <= d * e
    BY <1>1, <1>2, <1>9, TimesMono
  <2>3. k * (s * r) = r * (k * s)
    BY <1>4
  <2>4. k * (a * e) = (k * a) * e
    BY <1>1, <1>2
  <2>5. k * (s * r) \in Nat /\ k * (a * e) \in Nat /\ d * e \in Nat
    BY <1>1, <1>3, <1>4
  <2> QED BY <2>1, <2>2, <2>3, <2>4, <2>5
<1>12. d * e < r * (k * s) + (e + s) * k
  <2>1. d * e <= (k * a + k) * e
    <3>1. k * a + k \in Nat /\ d <= k * a + k
      BY <1>2, <1>10
    <3> QED BY <1>1, <3>1, TimesMono
  <2>2. (k * a + k) * e = k * (a * e) + k * e
    BY <1>1, <1>2
  <2>3. k * (a * e) <= k * (s * r + s) - k
    <3>1. a * e + 1 <= s * r + s /\ a * e + 1 \in Nat /\ s * r + s \in Nat
      BY <1>3, <1>4
    <3>2. k * (a * e + 1) <= k * (s * r + s)
      BY <3>1, TimesMono
    <3>3. k * (a * e + 1) = k * (a * e) + k
      BY <1>3
    <3>4. k * (a * e) \in Nat /\ k * (s * r + s) \in Nat
      BY <1>3, <3>1
    <3> QED BY <3>2, <3>3, <3>4
  <2>4. k * (s * r + s) = r * (k * s) + s * k
    BY <1>4
  <2>5. (e + s) * k = k * e + s * k
    BY <1>1
  <2>6. d * e \in Nat /\ k * (a * e) \in Nat /\ k * e \in Nat /\ s * k \in Nat /\ r * (k * s) \in Nat
    BY <1>1, <1>3, <1>4
  <2> QED BY <2>1, <2>2, <2>3, <2>4, <2>5, <2>6
<1> QED BY <1>2, <1>4, <1>7, <1>8, <1>11, <1>12

\* Division towards zero: the sign stays outside (Quot).
LEMMA QuotSigns ==
  ASSUME NEW n \in Nat, NEW d \in Nat \ {0}
  PROVE  Quot(n, d) = n \div d /\ Quot(-n, d) = -(n \div d)
<1>1. Quot(n, d) = n \div d
  BY DEF Quot
<1>2. CASE n = 0
  BY <1>2 DEF Quot
<1>3. CASE n > 0
  <2>1. -n < 0 /\ -(-n) = n
    BY <1>3
  <2> QED BY <1>1, <2>1 DEF Quot
<1> QED BY <1>1, <1>2, <1>3

\* What LineFaithful asks of a rate r, when a part of k seconds has played for
\* e clock units.
FaithfulRate(part, e, r) ==
  /\ \/ part.rps0 <= r /\ r <= part.rps1
     \/ part.rps1 <= r /\ r <= part.rps0
  /\ Abs((r - part.rps0) * Length(part) - (part.rps1 - part.rps0) * e) < (e + SEC) * part.secs
  /\ Abs(Slope(part) * e) <= Abs(part.rps1 - part.rps0) * SEC

\* A line or a constant answers with a natural number, faithful to the exact
\* line, as long as it plays (LineGenerator::current_at).
LEMMA LineRate ==
  ASSUME NEW part \in Parts, part.secs # 0, NEW e \in 0..Length(part)
  PROVE  LineAt(part, e) \in Nat /\ FaithfulRate(part, e, LineAt(part, e))
<1> DEFINE x == part.rps0
           y == part.rps1
           k == part.secs
           r == LineAt(part, e)
<1>1. x \in Nat /\ y \in Nat /\ k \in Nat \ {0} /\ SEC \in Nat \ {0} /\ e \in 0..(k * SEC)
  BY ClockAssumption DEF Parts, Length
<1>2. /\ Length(part) = k * SEC
      /\ Slope(part) = Quot((y - x) * SEC, k * SEC)
      /\ r = Quot(Slope(part) * e, SEC) + x
  BY DEF Length, Slope, LineAt
<1> HIDE DEF x, y, k, r
<1>3. k * SEC \in Nat \ {0} /\ e \in Nat
  BY <1>1
<1>4. CASE x <= y
  <2> DEFINE d == y - x
             a == (d * SEC) \div (k * SEC)
             n == (a * e) \div SEC
  <2>1. d \in Nat /\ d * SEC \in Nat
    BY <1>1, <1>4
  <2>2. /\ a \in Nat /\ n \in Nat
        /\ a * e <= d * SEC
        /\ n <= d
        /\ n * (k * SEC) <= d * e
        /\ d * e < n * (k * SEC) + (e + SEC) * k
    BY <1>1, <2>1, LineNat
  <2>3. Slope(part) = a
    BY <1>2, <1>3, <2>1, QuotSigns
  <2>4. a * e \in Nat
    BY <1>3, <2>2
  <2>5. r = n + x
    BY <1>1, <1>2, <2>3, <2>4, QuotSigns
  <2> HIDE DEF a, n
  <2>6. r \in Nat /\ x <= r /\ r <= y
    BY <1>1, <2>1, <2>2, <2>5
  <2>7. Abs(Slope(part) * e) <= Abs(y - x) * SEC
    BY <1>1, <1>4, <2>1, <2>2, <2>3, <2>4 DEF Abs
  <2>8. Abs((r - x) * (k * SEC) - (y - x) * e) < (e + SEC) * k
    <3>1. r - x = n
      BY <1>1, <2>2, <2>5
    <3> DEFINE u == n * (k * SEC)
               w == d * e
               b == (e + SEC) * k
    <3>2. u \in Nat /\ w \in Nat /\ b \in Nat
      BY <1>1, <1>3, <2>1, <2>2
    <3>3. u <= w /\ w < u + b
      BY <2>2
    <3> HIDE DEF u, w, b
    <3>4. Abs(u - w) < b
      BY <3>2, <3>3 DEF Abs
    <3> QED BY <3>1, <3>4 DEF u, w, b
  <2> QED BY <1>2, <2>6, <2>7, <2>8 DEF FaithfulRate, x, y, k, r
<1>5. CASE y < x
  <2> DEFINE d == x - y
             a == (d * SEC) \div (k * SEC)
             n == (a * e) \div SEC
  <2>1. d \in Nat /\ d * SEC \in Nat /\ (y - x) * SEC = -(d * SEC)
    BY <1>1, <1>5
  <2>2. /\ a \in Nat /\ n \in Nat
        /\ a * e <= d * SEC
        /\ n <= d
        /\ n * (k * SEC) <= d * e
        /\ d * e < n * (k * SEC) + (e + SEC) * k
    BY <1>1, <2>1, LineNat
  <2>3. Slope(part) = -a
    BY <1>2, <1>3, <2>1, QuotSigns
  <2>4. a * e \in Nat /\ (-a) * e = -(a * e)
    BY <1>3, <2>2
  <2>5. r = x - n
    <3>1. Quot(-(a * e), SEC) = -n
      BY <1>1, <2>4, QuotSigns
    <3>2. r = Quot(-(a * e), SEC) + x
      BY <1>2, <2>3, <2>4
    <3>3. r = (-n) + x
      BY <3>1, <3>2
    <3> QED BY <1>1, <2>2, <3>3
  <2>6. r \in Nat /\ y <= r /\ r <= x
    BY <1>1, <2>1, <2>2, <2>5
  <2>7. Abs(Slope(part) * e) <= Abs(y - x) * SEC
    <3>1. Abs(y - x) = d
      BY <1>1, <1>5 DEF Abs
    <3>2. Abs(-(a * e)) = a * e
      <4> DEFINE m == a * e
      <4>1. m \in Nat
        BY <2>4
      <4> HIDE DEF m
      <4>2. Abs(-m) = m
        BY <4>1 DEF Abs
      <4> QED BY <4>2 DEF m
    <3> QED BY <2>2, <2>3, <2>4, <3>1, <3>2
  <2>8. Abs((r - x) * (k * SEC) - (y - x) * e) < (e + SEC) * k
    <3> DEFINE u == n * (k * SEC)
               w == d * e
               b == (e + SEC) * k
    <3>1. r - x = -n /\ y - x = -d
      BY <1>1, <2>2, <2>5
    <3>2. u \in Nat /\ w \in Nat /\ b \in Nat
      BY <1>1, <1>3, <2>1, <2>2
    <3>3. u <= w /\ w < u + b
      BY <2>2
    <3>4. (-n) * (k * SEC) = -u
      BY <1>3, <2>2
    <3>5. (-d) * e = -w
      BY <1>3, <2>1
    <3> HIDE DEF u, w, b
    <3>6. Abs((-u) - (-w)) < b
      BY <3>2, <3>3 DEF Abs
    <3>7. Abs((r - x) * (k * SEC) - (y - x) * e) < b
      BY <3>1, <3>4, <3>5, <3>6
    <3> QED BY <3>7 DEF b
  <2> QED BY <1>2, <2>6, <2>7, <2>8 DEF FaithfulRate, x, y, k, r
<1> QED BY <1>1, <1>4, <1>5

(***************************************************************************)
(* The answers, and the end.                                               *)
(***************************************************************************)

\* A profile is only played when every part of it could be created.
Created ==
  pc \in {"playing", "over"} =>
    \A i \in Tracks : \A j \in DOMAIN prof[i] : ~Panics(prof[i][j])

\* The rate kept of a line that plays is the line's at the last poll.
RateInv ==
  planned # None => \A i \in Tracks :
    ~Over(i) /\ prof[i][idx[i]].kind # "sin" =>
      rate[i] = LineAt(prof[i][idx[i]], now - t0[i])

\* Some track plays while the profile answers, and none does once it is over.
EndInv ==
  /\ planned # None => \E i \in Tracks : ~Over(i)
  /\ pc = "over" => \A i \in Tracks : Over(i)

\* A part is due when the parts before it have been played.
DueInv == \A i \in Tracks : due[i] = SumFunctionOnSet(Lengths(i), 1..(idx[i] - 1))

IInv == TypeOK /\ Schedule /\ Created /\ RateInv /\ EndInv /\ DueInv

\* Tracks and parts are what the configuration says.
LEMMA Shape ==
  ASSUME TypeOK
  PROVE  /\ Tracks = 1..Len(prof) /\ Len(prof) \in Nat
         /\ \A i \in Tracks : /\ prof[i] \in Seq(Parts)
                              /\ Len(prof[i]) \in Nat
                              /\ DOMAIN prof[i] = 1..Len(prof[i])
                              /\ \A j \in 1..Len(prof[i]) : prof[i][j] \in Parts
<1>1. prof \in Seq(Seq(Parts))
  BY ProfsAssumption DEF TypeOK
<1>2. Tracks = 1..Len(prof) /\ Len(prof) \in Nat
  BY <1>1 DEF Tracks
<1>3. \A i \in Tracks : prof[i] \in Seq(Parts)
  BY <1>1 DEF Tracks
<1>4. ASSUME NEW i \in Tracks
      PROVE  /\ Len(prof[i]) \in Nat
             /\ DOMAIN prof[i] = 1..Len(prof[i])
             /\ \A j \in 1..Len(prof[i]) : prof[i][j] \in Parts
  BY <1>1, <1>3
<1> QED BY <1>2, <1>3, <1>4

\* What a track answers to a poll (SeqGenerator::current_at): nothing when it
\* is over, else a rate, and a line's own rate.
LEMMA AnswerOf ==
  ASSUME TypeOK, Schedule, Created, NEW gap \in 0..MaxGap, CurrentAt(gap), NEW i \in Tracks
  PROVE  /\ idx'[i] > Len(prof[i]) => rate'[i] = None
         /\ idx'[i] <= Len(prof[i]) =>
              /\ rate'[i] \in Nat
              /\ prof[i][idx'[i]].kind # "sin" =>
                   rate'[i] = LineAt(prof[i][idx'[i]], now' - t0'[i])
<1>1. rate'[i] \in Answer(i, now') /\ idx'[i] = NextPart(i, now') /\ t0'[i] = Activated(i, now')
  BY DEF CurrentAt
<1>2. Len(prof[i]) \in Nat /\ DOMAIN prof[i] = 1..Len(prof[i])
  BY Shape
<1>5. idx'[i] \in Nat
  BY PollTrack DEF Inv
<1>3. CASE idx'[i] > Len(prof[i])
  <2>1. rate'[i] = None
    BY <1>1, <1>3 DEF Answer
  <2> QED BY <1>2, <1>3, <1>5, <2>1
<1>4. CASE idx'[i] <= Len(prof[i])
  <2> DEFINE part == prof[i][idx'[i]]
             e == now' - t0'[i]
  <2>1. /\ idx'[i] \in Nat \ {0} /\ t0'[i] \in 0..now'
        /\ e <= Length(part)
    BY <1>4, PollTrack DEF Inv
  <2>2. idx'[i] \in 1..Len(prof[i])
    BY <1>2, <1>4, <2>1
  <2>3. part \in Parts /\ ~Panics(part)
    BY <1>2, <2>2, Shape DEF Created, CurrentAt
  <2>4. rate'[i] \in At(part, e)
    BY <1>1, <1>2, <1>4, <2>1 DEF Answer
  <2>5. e \in 0..Length(part)
    <3>1. now' \in Nat /\ e \in Nat
      <4>1. now' = now + gap /\ now \in Nat /\ gap \in Nat
        BY ClockAssumption DEF CurrentAt, TypeOK
      <4>2. now' \in Nat
        BY <4>1
      <4> QED BY <2>1, <4>2
    <3>2. Length(part) \in Nat
      BY <2>3, ClockAssumption DEF Length, Parts
    <3> QED BY <2>1, <3>1, <3>2
  <2> HIDE DEF part, e
  <2>6. CASE part.kind = "sin"
    <3>1. part.rps0 \in Nat /\ part.rps1 \in Nat
      BY <2>3 DEF Parts
    <3>2. rate'[i] \in Nat
      BY <2>4, <2>6, <3>1 DEF At
    <3> QED BY <1>2, <1>4, <2>1, <2>6, <3>2 DEF part
  <2>7. CASE part.kind # "sin"
    <3>1. part.secs # 0
      BY <2>3, <2>7 DEF Panics
    <3>2. rate'[i] = LineAt(part, e)
      BY <2>4, <2>7 DEF At
    <3>3. rate'[i] \in Nat
      BY <2>3, <2>5, <3>1, <3>2, LineRate
    <3> QED BY <1>2, <1>4, <2>1, <3>2, <3>3 DEF part, e
  <2> QED BY <2>6, <2>7
<1> QED BY <1>2, <1>3, <1>4, <1>5

\* The profile answers None exactly when every track is over (SumGenerator).
LEMMA EndOfPoll ==
  ASSUME TypeOK, Schedule, Created, NEW gap \in 0..MaxGap, CurrentAt(gap)
  PROVE  planned' = None <=> \A i \in Tracks : idx'[i] > Len(prof[i])
<1> DEFINE A == {i \in Tracks : rate'[i] # None}
<1>1. \A i \in Tracks : rate'[i] = None <=> idx'[i] > Len(prof[i])
  <2> SUFFICES ASSUME NEW i \in Tracks
               PROVE  rate'[i] = None <=> idx'[i] > Len(prof[i])
    OBVIOUS
  <2>1. idx'[i] \in Nat /\ Len(prof[i]) \in Nat
    BY PollTrack, Shape DEF Inv
  <2> QED BY <2>1, AnswerOf, NoneAssumption
<1>2. planned' = Total(rate')
  BY DEF CurrentAt
<1>3. CASE \A i \in Tracks : rate'[i] = None
  BY <1>1, <1>2, <1>3 DEF Total
<1>4. CASE ~ \A i \in Tracks : rate'[i] = None
  <2>1. planned' = SumFunctionOnSet(rate', A)
    BY <1>2, <1>4 DEF Total
  <2>2. IsFiniteSet(Tracks)
    BY Shape, FS_Interval
  <2>3. IsFiniteSet(A)
    BY <2>2, FS_Subset
  <2>4. \A i \in A : rate'[i] \in Nat
    <3> SUFFICES ASSUME NEW i \in Tracks, rate'[i] # None
                 PROVE  rate'[i] \in Nat
      OBVIOUS
    <3>1. idx'[i] \in Nat /\ Len(prof[i]) \in Nat
      BY PollTrack, Shape DEF Inv
    <3> QED BY <3>1, AnswerOf
  <2> HIDE DEF A
  <2>5. planned' \in Nat
    BY <2>1, <2>3, <2>4, SumNat
  <2> QED BY <1>1, <1>4, <2>5, NoneAssumption
<1> QED BY <1>3, <1>4

\* Due times are the lengths of the parts before, added up.
LEMMA PollDue ==
  ASSUME TypeOK, Schedule, DueInv, NEW gap \in 0..MaxGap, CurrentAt(gap), NEW i \in Tracks
  PROVE  due'[i] = SumFunctionOnSet(Lengths(i), 1..(idx'[i] - 1))
<1>1. /\ idx'[i] = NextPart(i, now')
      /\ due'[i] = IF idx'[i] # idx[i] THEN due[i] + Length(prof[i][idx[i]]) ELSE due[i]
  BY DEF CurrentAt
<1>2. due[i] = SumFunctionOnSet(Lengths(i), 1..(idx[i] - 1)) /\ idx[i] \in Nat \ {0} /\ due[i] \in Nat
  BY DEF DueInv, TypeOK
<1>3. CASE idx'[i] = idx[i]
  BY <1>1, <1>2, <1>3
<1>4. CASE idx'[i] # idx[i]
  <2> DEFINE n == idx[i]
  <2>1. ~Over(i) /\ idx'[i] = n + 1
    BY <1>1, <1>4 DEF NextPart
  <2>2. /\ Len(prof[i]) \in Nat /\ DOMAIN prof[i] = 1..Len(prof[i])
        /\ \A j \in 1..Len(prof[i]) : prof[i][j] \in Parts
    BY Shape
  <2>3. n \in 1..Len(prof[i])
    BY <1>2, <2>1, <2>2 DEF Over
  <2>4. \A j \in 1..Len(prof[i]) : Lengths(i)[j] = Length(prof[i][j]) /\ Lengths(i)[j] \in Int
    BY <2>2, ClockAssumption DEF Lengths, Length, Parts
  <2>5. 1..((n + 1) - 1) = (1..(n - 1)) \cup {n} /\ n \notin 1..(n - 1)
    BY <1>2
  <2>6. Ints(Lengths(i), (1..(n - 1)) \cup {n})
    BY <2>3, <2>4, <2>5 DEF Ints
  <2>7. IsFiniteSet(1..(n - 1))
    <3>1. n - 1 \in Int
      BY <1>2
    <3> HIDE DEF n
    <3> QED BY <3>1, FS_Interval
  <2>8. SumFunctionOnSet(Lengths(i), (1..(n - 1)) \cup {n}) = Lengths(i)[n] + SumFunctionOnSet(Lengths(i), 1..(n - 1))
    BY <2>5, <2>6, <2>7, SumAdd
  <2>9. due'[i] = due[i] + Lengths(i)[n] /\ Lengths(i)[n] \in Int
    BY <1>1, <1>4, <2>3, <2>4
  <2> DEFINE before == SumFunctionOnSet(Lengths(i), 1..(n - 1))
             last == Lengths(i)[n]
  <2>10. before \in Int /\ last \in Int /\ due'[i] = before + last
    BY <1>2, <2>9
  <2>11. SumFunctionOnSet(Lengths(i), 1..(idx'[i] - 1)) = last + before
    BY <2>1, <2>5, <2>8
  <2> HIDE DEF before, last
  <2> QED BY <2>10, <2>11
<1> QED BY <1>3, <1>4

\* A profile before it is created satisfies the invariant.
LEMMA InitIInv == Init => IInv
<1> SUFFICES ASSUME Init PROVE IInv
  OBVIOUS
<1>1. TypeOK /\ Schedule
  BY InitInv DEF Inv
<1>2. Created /\ RateInv
  BY DEF Init, Created, RateInv
<1>3. EndInv
  BY DEF Init, EndInv
<1>4. DueInv
  <2> SUFFICES ASSUME NEW i \in Tracks
               PROVE  due[i] = SumFunctionOnSet(Lengths(i), 1..(idx[i] - 1))
    BY DEF DueInv
  <2>1. idx[i] = 1 /\ due[i] = 0
    BY DEF Init
  <2>2. 1..(idx[i] - 1) = {}
    BY <2>1
  <2> QED BY <2>1, <2>2, SumEmpty
<1> QED BY <1>1, <1>2, <1>3, <1>4 DEF IInv

\* Creation and every poll keep it (Config::create, current_at).
LEMMA NextIInv == IInv /\ [Next]_vars => IInv'
<1> SUFFICES ASSUME IInv, [Next]_vars PROVE IInv'
  OBVIOUS
<1>0. TypeOK' /\ Schedule'
  BY NextInv DEF IInv, Inv
<1>1. CASE Create
  <2> USE <1>1 DEF Create, IInv
  <2>1. Created'
    BY DEF Created, Tracks, Panics
  <2>2. RateInv'
    BY DEF RateInv, Tracks, Over, LineAt, Slope, Length
  <2>3. EndInv'
    <3>1. pc' # "over"
      OBVIOUS
    <3> QED BY <3>1 DEF EndInv, Tracks, Over
  <2>4. DueInv'
    <3>1. \A i \in Tracks : Lengths(i)' = Lengths(i)
      BY DEF Lengths, Length
    <3> QED BY <3>1 DEF DueInv, Tracks
  <2> QED BY <1>0, <2>1, <2>2, <2>3, <2>4 DEF IInv
<1>2. ASSUME NEW gap \in 0..MaxGap, CurrentAt(gap) PROVE IInv'
  <2>0. TypeOK /\ Schedule /\ Created /\ DueInv
    BY DEF IInv
  <2>1. prof' = prof /\ Tracks' = Tracks /\ pc = "playing" /\ pc' = IF planned' = None THEN "over" ELSE "playing"
    BY <1>2 DEF CurrentAt, Tracks
  <2>2. \A i \in Tracks : Over(i)' <=> idx'[i] > Len(prof[i])
    BY <2>1 DEF Over
  <2>3. \A i \in Tracks : idx'[i] \in Nat /\ Len(prof[i]) \in Nat
    BY <1>2, <2>0, PollTrack, Shape DEF Inv
  <2>4. Created'
    BY <2>0, <2>1 DEF Created, Panics
  <2>5. RateInv'
    <3> SUFFICES ASSUME NEW i \in Tracks, ~Over(i)', prof[i][idx'[i]].kind # "sin"
                 PROVE  rate'[i] = LineAt(prof[i][idx'[i]], now' - t0'[i])
      BY <2>1 DEF RateInv, LineAt, Slope, Length
    <3>1. idx'[i] <= Len(prof[i])
      BY <2>2, <2>3
    <3> QED BY <1>2, <2>0, <3>1, AnswerOf
  <2>6. EndInv'
    <3>1. planned' = None <=> \A i \in Tracks : idx'[i] > Len(prof[i])
      BY <1>2, <2>0, EndOfPoll
    <3> QED BY <2>1, <2>2, <3>1 DEF EndInv
  <2>7. DueInv'
    <3>1. \A i \in Tracks : Lengths(i)' = Lengths(i)
      BY <2>1 DEF Lengths, Length
    <3>2. \A i \in Tracks : due'[i] = SumFunctionOnSet(Lengths(i), 1..(idx'[i] - 1))
      BY <1>2, <2>0, PollDue
    <3> QED BY <2>1, <3>1, <3>2 DEF DueInv
  <2> QED BY <1>0, <2>4, <2>5, <2>6, <2>7 DEF IInv
<1>3. CASE UNCHANGED vars
  <2> USE <1>3 DEF vars, IInv
  <2>1. \A i \in Tracks : Lengths(i)' = Lengths(i)
    BY DEF Lengths, Length
  <2>2. DueInv'
    BY <2>1 DEF DueInv, Tracks
  <2>3. Created' /\ EndInv'
    BY DEF Created, EndInv, Tracks, Over, Panics
  <2>4. RateInv'
    BY DEF RateInv, Tracks, Over, LineAt, Slope, Length
  <2> QED BY <1>0, <2>2, <2>3, <2>4 DEF IInv
<1> QED BY <1>1, <1>2, <1>3 DEF Next

\* The invariant of every run of a profile.
LEMMA ProfileInvariant == Spec => []IInv
<1> QED BY InitIInv, NextIInv, PTL DEF Spec

\* The rate of a line stays between its ends and near the exact line, and the
\* products on the way stay small (LineGenerator), for every line, every length
\* and every moment of polling.
THEOREM LinesFaithful == Spec => []LineFaithful
<1>1. IInv => LineFaithful
  <2> SUFFICES ASSUME IInv, pc = "playing", planned # None, NEW i \in Tracks, ~Over(i),
                      prof[i][idx[i]].kind # "sin"
               PROVE  FaithfulRate(prof[i][idx[i]], now - t0[i], rate[i])
    BY DEF LineFaithful, FaithfulRate
  <2> DEFINE part == prof[i][idx[i]]
  <2>1. idx[i] \in 1..Len(prof[i]) /\ DOMAIN prof[i] = 1..Len(prof[i])
    BY Shape DEF IInv, TypeOK, Over
  <2>2. part \in Parts /\ ~Panics(part)
    BY <2>1, Shape DEF IInv, Created
  <2>3. part.secs # 0
    BY <2>2 DEF Panics
  <2>4. rate[i] = LineAt(part, now - t0[i])
    BY DEF IInv, RateInv
  <2>5. now - t0[i] \in 0..Length(part)
    <3>1. Length(part) \in Nat
      BY <2>2, ClockAssumption DEF Length, Parts
    <3>2. t0[i] \in 0..now /\ now \in Nat /\ now - t0[i] <= Length(part)
      BY DEF IInv, TypeOK, Schedule
    <3> QED BY <3>1, <3>2
  <2> HIDE DEF part
  <2>6. FaithfulRate(part, now - t0[i], LineAt(part, now - t0[i]))
    BY <2>2, <2>3, <2>5, LineRate
  <2> QED BY <2>4, <2>6 DEF part
<1> QED BY <1>1, ProfileInvariant, PTL

\* A finite set of durations has a longest one.
LEMMA MaxIn ==
  ASSUME NEW S, IsFiniteSet(S), S # {}, \A x \in S : x \in Int
  PROVE  Max(S) \in S
<1> DEFINE C == {T \in SUBSET S : T = {} \/ \E x \in T : \A y \in T : x >= y}
<1>1. {} \in C
  OBVIOUS
<1>2. \A T \in SUBSET S : \A x \in S \ T : T \in C => T \cup {x} \in C
  <2> SUFFICES ASSUME NEW T \in SUBSET S, NEW x \in S \ T, T \in C
               PROVE  \E m \in T \cup {x} : \A y \in T \cup {x} : m >= y
    OBVIOUS
  <2>1. CASE T = {}
    BY <2>1
  <2>2. CASE T # {}
    <3>1. PICK m \in T : \A y \in T : m >= y
      BY <2>2
    <3>2. CASE m >= x
      BY <3>1, <3>2
    <3>3. CASE ~(m >= x)
      <4>1. \A y \in T \cup {x} : x >= y
        BY <3>1, <3>3
      <4> QED BY <4>1
    <3> QED BY <3>2, <3>3
  <2> QED BY <2>1, <2>2
<1>3. S \in C
  <2> HIDE DEF C
  <2> QED BY <1>1, <1>2, FiniteInd
<1>4. \E x \in S : \A y \in S : x >= y
  BY <1>3
<1> QED BY <1>4, Zenon DEF Max

\* The profile ends with its longest track, after the whole duration announced
\* (SumGenerator, SeqGenerator, duration), for every profile.
THEOREM EndsInFull == Spec => []EndsWithLongest
<1>1. IInv => EndsWithLongest
  <2> SUFFICES ASSUME IInv PROVE EndsWithLongest
    OBVIOUS
  <2>1. /\ planned # None => \E i \in Tracks : ~Over(i)
        /\ pc = "over" => \A i \in Tracks : Over(i)
    BY DEF IInv, EndInv
  <2>2. ASSUME pc = "over", NEW b \in Tracks, prof[b] # <<>> PROVE now > SumDuration
    <3> DEFINE D == {SeqDuration(i) : i \in Tracks}
    <3>1. ASSUME NEW i \in Tracks
          PROVE  /\ SeqDuration(i) = due[i] /\ due[i] \in Nat /\ now \in Nat
                 /\ Len(prof[i]) = 0 => due[i] = 0
                 /\ Len(prof[i]) # 0 => now > due[i]
      <4>1. Over(i) /\ Len(prof[i]) \in Nat /\ DOMAIN prof[i] = 1..Len(prof[i])
        BY <2>2, Shape DEF IInv, EndInv
      <4>2. idx[i] = Len(prof[i]) + 1
        BY <4>1 DEF Over, IInv, TypeOK
      <4>3. DOMAIN Lengths(i) = 1..(idx[i] - 1)
        BY <4>1, <4>2 DEF Lengths
      <4>4. SeqDuration(i) = due[i]
        BY <4>3 DEF SeqDuration, SumFunction, IInv, DueInv
      <4>5. idx[i] - 1 <= t0[i] - due[i] /\ t0[i] \in 0..now /\ due[i] \in Nat /\ now \in Nat
        BY DEF IInv, Schedule, TypeOK
      <4>6. ASSUME Len(prof[i]) = 0 PROVE due[i] = 0
        <5>1. 1..(idx[i] - 1) = {}
          BY <4>2, <4>6
        <5> QED BY <5>1, SumEmpty DEF IInv, DueInv
      <4>7. ASSUME Len(prof[i]) # 0 PROVE now > due[i]
        BY <4>1, <4>2, <4>5, <4>7
      <4> QED BY <4>4, <4>5, <4>6, <4>7
    <3>2. now > 0
      <4>1. Len(prof[b]) # 0
        BY <2>2, Shape DEF IInv
      <4> QED BY <3>1, <4>1
    <3>3. \A x \in {0} \cup D : x \in Int /\ now > x
      <4>1. ASSUME NEW i \in Tracks PROVE SeqDuration(i) \in Int /\ now > SeqDuration(i)
        BY <3>1, <3>2
      <4> QED BY <3>2, <4>1
    <3>4. IsFiniteSet({0} \cup D)
      <4>1. IsFiniteSet(Tracks)
        BY Shape, FS_Interval DEF IInv
      <4> DEFINE s == [i \in Tracks |-> SeqDuration(i)]
      <4>2. s \in Surjection(Tracks, D)
        BY DEF Surjection
      <4> HIDE DEF s, D
      <4>3. IsFiniteSet(D)
        BY <4>1, <4>2, FS_Surjection
      <4> QED BY <4>3, FS_Singleton, FS_Union
    <3> HIDE DEF D
    <3>5. Max({0} \cup D) \in {0} \cup D
      BY <3>3, <3>4, MaxIn
    <3> QED BY <3>3, <3>5 DEF SumDuration, D
  <2> QED BY <2>1, <2>2 DEF EndsWithLongest
<1> QED BY <1>1, ProfileInvariant, PTL
==============================================================================
