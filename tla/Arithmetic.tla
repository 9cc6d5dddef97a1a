----------------------------- MODULE Arithmetic -----------------------------
(***************************************************************************)
(* Division, products, and sums of functions over finite sets              *)
(* (SumFunctionOnSet of the community modules): what the proofs about      *)
(* shares of a rate, lengths of a profile, buffers of a refill cycle and   *)
(* counters of several workers rest on.                                    *)
(*                                                                         *)
(* The library's induction theorems are about predicates; the one below is *)
(* about a set, and follows from the cardinality of finite sets.  With it  *)
(* the fold behind SumFunctionOnSet is well-defined and picks its elements *)
(* in no order that matters.                                               *)
(***************************************************************************)
EXTENDS Integers, Functions, FiniteSetTheorems, TLAPS

(***************************************************************************)
(* Division and products.                                                  *)
(***************************************************************************)

\* Division with remainder.
LEMMA DivFacts ==
  ASSUME NEW n \in Nat, NEW d \in Nat \ {0}
  PROVE  /\ n \div d \in Nat
         /\ n % d \in 0..(d - 1)
         /\ n = d * (n \div d) + (n % d)
OBVIOUS

\* Quotient and remainder are unique.
LEMMA DivUnique ==
  ASSUME NEW d \in Nat \ {0}, NEW k \in Nat, NEW r \in 0..(d - 1)
  PROVE  /\ (d * k + r) \div d = k
         /\ (d * k + r) % d = r
<1> DEFINE n == d * k + r
           e == n \div d
           s == n % d
<1>1. n \in Nat
  OBVIOUS
<1>2. e \in Nat /\ s \in 0..(d - 1) /\ n = d * e + s
  BY <1>1, DivFacts
<1>3. d * k + r = d * e + s
  BY <1>2
<1> HIDE DEF e, s, n
<1>4. ~ (e < k)
  <2> SUFFICES ASSUME e < k PROVE FALSE
    OBVIOUS
  <2>1. e + 1 <= k
    BY <1>2
  <2>2. d * (e + 1) <= d * k
    BY <1>2, <2>1
  <2>3. d * (e + 1) = d * e + d
    BY <1>2
  <2>4. d * e \in Nat /\ d * k \in Nat
    BY <1>2
  <2> QED BY <1>2, <1>3, <2>2, <2>3, <2>4
<1>5. ~ (k < e)
  <2> SUFFICES ASSUME k < e PROVE FALSE
    OBVIOUS
  <2>1. k + 1 <= e
    BY <1>2
  <2>2. d * (k + 1) <= d * e
    BY <1>2, <2>1
  <2>3. d * (k + 1) = d * k + d
    BY <1>2
  <2>4. d * e \in Nat /\ d * k \in Nat
    BY <1>2
  <2> QED BY <1>2, <1>3, <2>2, <2>3, <2>4
<1>6. e = k
  BY <1>2, <1>4, <1>5
<1>7. s = r
  <2>1. d * e \in Nat
    BY <1>2
  <2> QED BY <1>2, <1>3, <1>6, <2>1
<1> QED BY <1>6, <1>7 DEF n, e, s

\* The remainder is less than the divisor.
LEMMA DivBounds ==
  ASSUME NEW n \in Nat, NEW d \in Nat \ {0}
  PROVE  /\ n \div d \in Nat
         /\ d * (n \div d) <= n
         /\ n < d * (n \div d) + d
OBVIOUS

\* Products keep an order.
LEMMA TimesMono ==
  ASSUME NEW a \in Nat, NEW b \in Nat, NEW c \in Nat, a <= b
  PROVE  a * c <= b * c /\ c * a <= c * b /\ a * c \in Nat /\ b * c \in Nat /\ c * a \in Nat /\ c * b \in Nat
OBVIOUS

\* ... and positive factors cancel.
LEMMA TimesCancel ==
  ASSUME NEW a \in Nat, NEW b \in Nat, NEW c \in Nat \ {0}, c * a <= c * b
  PROVE  a <= b
<1> SUFFICES ASSUME b + 1 <= a PROVE FALSE
  OBVIOUS
<1>1. c * (b + 1) <= c * a
  BY TimesMono
<1>2. c * (b + 1) = c * b + c
  OBVIOUS
<1>3. c * a \in Nat /\ c * b \in Nat
  OBVIOUS
<1> QED BY <1>1, <1>2, <1>3

\* The same for a strict order.
LEMMA TimesCancelStrict ==
  ASSUME NEW a \in Nat, NEW b \in Nat, NEW c \in Nat \ {0}, c * a < c * b
  PROVE  a < b
<1> SUFFICES ASSUME b <= a PROVE FALSE
  OBVIOUS
<1>1. c * b <= c * a
  BY TimesMono
<1>3. c * a \in Nat /\ c * b \in Nat
  OBVIOUS
<1> QED BY <1>1, <1>3

(***************************************************************************)
(* Induction, and the fold behind a sum.                                   *)
(***************************************************************************)

\* Induction over the natural numbers, for a set instead of a predicate.  A
\* number outside C would make "add one" an injection of the members of C
\* below it into themselves that misses 0.
LEMMA NatInd ==
  ASSUME NEW C, 0 \in C, \A n \in Nat : n \in C => n + 1 \in C
  PROVE  \A n \in Nat : n \in C
<1> SUFFICES ASSUME NEW t \in Nat, t \notin C PROVE FALSE
  OBVIOUS
<1> DEFINE X == {n \in 0..t : n \in C}
           f == [n \in X |-> n + 1]
<1>1. IsFiniteSet(0..t)
  BY FS_Interval
<1>2. IsFiniteSet(X)
  BY <1>1, FS_Subset
<1>3. 0 \in X
  OBVIOUS
<1>4. IsFiniteSet(X \ {0}) /\ Cardinality(X \ {0}) = Cardinality(X) - 1 /\ Cardinality(X) \in Nat
  BY <1>2, <1>3, FS_RemoveElement, FS_CardinalityType
<1>5. f \in [X -> X \ {0}]
  OBVIOUS
<1>6. \A x, y \in X : f[x] = f[y] => x = y
  OBVIOUS
<1>7. f \in Injection(X, X \ {0})
  BY <1>5, <1>6 DEF Injection, IsInjective
<1>8. Cardinality(X) <= Cardinality(X \ {0})
  BY <1>2, <1>4, <1>7, FS_Injection
<1> QED BY <1>4, <1>8

\* The function a fold iterates (Folds.tla), for the sum of f.
Picked(s) == CHOOSE x \in s : TRUE
IteratesOn(g, f, D) == g = [s \in D |-> IF s = {} THEN 0 ELSE f[Picked(s)] + g[s \ {Picked(s)}]]
Iterates(g, f, S) == IteratesOn(g, f, SUBSET S)

\* The fold is the value of such a function, if there is one.
LEMMA FoldIterates ==
  ASSUME NEW f, NEW S
  PROVE  SumFunctionOnSet(f, S) = (CHOOSE g : Iterates(g, f, S))[S]
BY DEF SumFunctionOnSet, FoldFunctionOnSet, MapThenFoldSet, Iterates, IteratesOn, Picked

\* Subsets of S with n elements at most.
UpTo(S, n) == {s \in SUBSET S : Cardinality(s) <= n}

\* Taking away the element picked leaves a smaller subset.
LEMMA PickedSmaller ==
  ASSUME NEW S, IsFiniteSet(S), NEW s \in SUBSET S, s # {}
  PROVE  /\ Picked(s) \in s
         /\ IsFiniteSet(s)
         /\ s \ {Picked(s)} \in SUBSET S
         /\ Cardinality(s \ {Picked(s)}) = Cardinality(s) - 1
         /\ Cardinality(s) \in Nat \ {0}
<1>1. Picked(s) \in s
  BY Zenon DEF Picked
<1>2. IsFiniteSet(s) /\ Cardinality(s) \in Nat
  BY FS_Subset, FS_CardinalityType
<1>3. Cardinality(s \ {Picked(s)}) = Cardinality(s) - 1
  BY <1>1, <1>2, FS_RemoveElement
<1>4. Cardinality(s) # 0
  BY <1>2, FS_EmptySet
<1> QED BY <1>1, <1>2, <1>3, <1>4

\* The iteration is well-defined: by induction on the size of the subsets.
LEMMA IterationExists ==
  ASSUME NEW S, IsFiniteSet(S), NEW f, \A x \in S : f[x] \in Int
  PROVE  \E g \in [SUBSET S -> Int] : Iterates(g, f, S)
<1> DEFINE C == {n \in Nat : \E g \in [UpTo(S, n) -> Int] : IteratesOn(g, f, UpTo(S, n))}
<1>1. 0 \in C
  <2> DEFINE g == [s \in UpTo(S, 0) |-> 0]
  <2>1. \A s \in UpTo(S, 0) : s = {}
    BY FS_Subset, FS_CardinalityType, FS_EmptySet DEF UpTo
  <2>2. IteratesOn(g, f, UpTo(S, 0))
    BY <2>1 DEF Iterates, IteratesOn
  <2>3. g \in [UpTo(S, 0) -> Int]
    OBVIOUS
  <2> HIDE DEF g
  <2> QED BY <2>2, <2>3
<1>2. \A n \in Nat : n \in C => n + 1 \in C
  <2> SUFFICES ASSUME NEW n \in Nat, n \in C
               PROVE  n + 1 \in C
    OBVIOUS
  <2>1. PICK g \in [UpTo(S, n) -> Int] : IteratesOn(g, f, UpTo(S, n))
    OBVIOUS
  <2> DEFINE V(s) == IF s = {} THEN 0 ELSE f[Picked(s)] + g[s \ {Picked(s)}]
             h == [s \in UpTo(S, n + 1) |-> V(s)]
  <2>2. \A s \in UpTo(S, n + 1) : s # {} => Picked(s) \in S /\ s \ {Picked(s)} \in UpTo(S, n)
    BY PickedSmaller DEF UpTo
  <2>3. h \in [UpTo(S, n + 1) -> Int]
    BY <2>2
  <2>4. \A s \in UpTo(S, n) : s \in UpTo(S, n + 1)
    BY FS_Subset, FS_CardinalityType DEF UpTo
  <2>5. \A s \in UpTo(S, n) : g[s] = V(s)
    BY <2>1 DEF Iterates, IteratesOn
  <2>6. \A s \in UpTo(S, n) : h[s] = g[s]
    BY <2>4, <2>5
  <2> DEFINE U(s) == IF s = {} THEN 0 ELSE f[Picked(s)] + h[s \ {Picked(s)}]
  <2>7. \A s \in UpTo(S, n + 1) : V(s) = U(s)
    <3> HIDE DEF h
    <3> QED BY <2>2, <2>6
  <2>8. h = [s \in UpTo(S, n + 1) |-> U(s)]
    <3>1. h = [s \in UpTo(S, n + 1) |-> V(s)]
      OBVIOUS
    <3> HIDE DEF h, V, U
    <3> QED BY <2>7, <3>1
  <2>9. IteratesOn(h, f, UpTo(S, n + 1))
    BY <2>8 DEF Iterates, IteratesOn
  <2> HIDE DEF h
  <2> QED BY <2>3, <2>9
<1>3. Cardinality(S) \in Nat
  BY FS_CardinalityType
<1>4. Cardinality(S) \in C
  <2> HIDE DEF C
  <2> QED BY <1>1, <1>2, <1>3, NatInd
<1>5. UpTo(S, Cardinality(S)) = SUBSET S
  BY FS_Subset DEF UpTo
<1> QED BY <1>4, <1>5 DEF Iterates

\* Two iterations agree wherever both are defined.
LEMMA IterationUnique ==
  ASSUME NEW S, IsFiniteSet(S), NEW T \in SUBSET S, NEW f, NEW g, NEW h,
         Iterates(g, f, S), Iterates(h, f, T)
  PROVE  \A s \in SUBSET T : g[s] = h[s]
<1> DEFINE C == {n \in Nat : \A s \in UpTo(T, n) : g[s] = h[s]}
<1>0. IsFiniteSet(T)
  BY FS_Subset
<1>00. \A s \in SUBSET T : /\ g[s] = IF s = {} THEN 0 ELSE f[Picked(s)] + g[s \ {Picked(s)}]
                           /\ h[s] = IF s = {} THEN 0 ELSE f[Picked(s)] + h[s \ {Picked(s)}]
  BY DEF Iterates, IteratesOn
<1>1. 0 \in C
  <2>1. \A s \in UpTo(T, 0) : s = {}
    BY <1>0, FS_Subset, FS_CardinalityType, FS_EmptySet DEF UpTo
  <2> QED BY <2>1, <1>00
<1>2. \A n \in Nat : n \in C => n + 1 \in C
  <2> SUFFICES ASSUME NEW n \in Nat, n \in C, NEW s \in UpTo(T, n + 1)
               PROVE  g[s] = h[s]
    OBVIOUS
  <2>1. CASE s = {}
    BY <2>1, <1>00
  <2>2. CASE s # {}
    <3>1. s \ {Picked(s)} \in UpTo(T, n) /\ s \in SUBSET T
      BY <1>0, <2>2, PickedSmaller DEF UpTo
    <3>2. g[s \ {Picked(s)}] = h[s \ {Picked(s)}]
      BY <3>1
    <3> QED BY <2>2, <3>1, <3>2, <1>00
  <2> QED BY <2>1, <2>2
<1>3. Cardinality(T) \in C
  <2>1. Cardinality(T) \in Nat
    BY <1>0, FS_CardinalityType
  <2> HIDE DEF C
  <2> QED BY <1>1, <1>2, <2>1, NatInd
<1>4. UpTo(T, Cardinality(T)) = SUBSET T
  BY <1>0, FS_Subset DEF UpTo
<1> QED BY <1>3, <1>4

Ints(f, S) == \A x \in S : f[x] \in Int

\* The fold is the value of the iteration.
LEMMA SumIterates ==
  ASSUME NEW S, IsFiniteSet(S), NEW f, Ints(f, S)
  PROVE  \E g \in [SUBSET S -> Int] : Iterates(g, f, S) /\ SumFunctionOnSet(f, S) = g[S]
<1>1. PICK k \in [SUBSET S -> Int] : Iterates(k, f, S)
  BY IterationExists DEF Ints
<1> DEFINE g == CHOOSE h : Iterates(h, f, S)
<1>2. Iterates(g, f, S)
  BY <1>1, Zenon
<1>3. SumFunctionOnSet(f, S) = g[S]
  BY FoldIterates
<1> HIDE DEF g
<1>4. S \in SUBSET S
  OBVIOUS
<1>5. g[S] = k[S]
  BY <1>1, <1>2, <1>4, IterationUnique
<1> QED BY <1>1, <1>3, <1>5

\* One iteration gives the sums of all subsets.
LEMMA SumSubset ==
  ASSUME NEW S, IsFiniteSet(S), NEW f, Ints(f, S), NEW g, Iterates(g, f, S),
         NEW T \in SUBSET S
  PROVE  SumFunctionOnSet(f, T) = g[T]
<1>1. IsFiniteSet(T) /\ Ints(f, T)
  BY FS_Subset DEF Ints
<1>2. PICK h \in [SUBSET T -> Int] : Iterates(h, f, T) /\ SumFunctionOnSet(f, T) = h[T]
  BY <1>1, SumIterates
<1>3. T \in SUBSET T
  OBVIOUS
<1>4. \A s \in SUBSET T : g[s] = h[s]
  <2>1. Iterates(h, f, T)
    BY <1>2
  <2> QED BY <2>1, IterationUnique
<1> QED BY <1>2, <1>3, <1>4

\* The sum of nothing.
LEMMA SumEmpty ==
  ASSUME NEW f
  PROVE  SumFunctionOnSet(f, {}) = 0
<1>1. IsFiniteSet({}) /\ Ints(f, {})
  BY FS_EmptySet DEF Ints
<1>2. PICK g \in [SUBSET {} -> Int] : Iterates(g, f, {}) /\ SumFunctionOnSet(f, {}) = g[{}]
  BY <1>1, SumIterates
<1>3. {} \in SUBSET {}
  OBVIOUS
<1>4. g[{}] = 0
  BY <1>2, <1>3 DEF Iterates, IteratesOn
<1> QED BY <1>2, <1>4

\* A sum is an integer; the element picked can be split off.
LEMMA SumPicked ==
  ASSUME NEW S, IsFiniteSet(S), NEW f, Ints(f, S)
  PROVE  /\ SumFunctionOnSet(f, S) \in Int
         /\ S # {} => SumFunctionOnSet(f, S) = f[Picked(S)] + SumFunctionOnSet(f, S \ {Picked(S)})
<1>1. PICK g \in [SUBSET S -> Int] : Iterates(g, f, S) /\ SumFunctionOnSet(f, S) = g[S]
  BY SumIterates
<1>2. SumFunctionOnSet(f, S) \in Int
  BY <1>1
<1>3. ASSUME S # {}
      PROVE  SumFunctionOnSet(f, S) = f[Picked(S)] + SumFunctionOnSet(f, S \ {Picked(S)})
  <2> DEFINE T == S \ {Picked(S)}
  <2>1. T \in SUBSET S /\ IsFiniteSet(T) /\ Ints(f, T)
    BY FS_Subset DEF Ints
  <2>2. g[S] = f[Picked(S)] + g[T]
    BY <1>1, <1>3 DEF Iterates, IteratesOn
  <2>3. SumFunctionOnSet(f, T) = g[T]
    BY <1>1, <2>1, SumSubset
  <2> QED BY <1>1, <2>2, <2>3
<1> QED BY <1>2, <1>3

\* Any element can be split off: addition commutes.
LEMMA SumSplit ==
  ASSUME NEW S, IsFiniteSet(S), NEW f, Ints(f, S), NEW x \in S
  PROVE  SumFunctionOnSet(f, S) = f[x] + SumFunctionOnSet(f, S \ {x})
<1> DEFINE Q(T) == \A y \in T : SumFunctionOnSet(f, T) = f[y] + SumFunctionOnSet(f, T \ {y})
           C == {n \in Nat : \A T \in UpTo(S, n) : Q(T)}
<1>1. 0 \in C
  <2>1. \A T \in UpTo(S, 0) : T = {}
    BY FS_Subset, FS_CardinalityType, FS_EmptySet DEF UpTo
  <2> QED BY <2>1
<1>2. \A n \in Nat : n \in C => n + 1 \in C
  <2> SUFFICES ASSUME NEW n \in Nat, n \in C, NEW T \in UpTo(S, n + 1), NEW y \in T
               PROVE  SumFunctionOnSet(f, T) = f[y] + SumFunctionOnSet(f, T \ {y})
    OBVIOUS
  <2> DEFINE p == Picked(T)
  <2>1. /\ T \in SUBSET S /\ IsFiniteSet(T) /\ p \in T
        /\ Cardinality(T) <= n + 1 /\ Cardinality(T) \in Nat
    BY PickedSmaller DEF UpTo
  <2>2. \A z \in T : IsFiniteSet(T \ {z}) /\ Cardinality(T \ {z}) = Cardinality(T) - 1
    BY <2>1, FS_RemoveElement
  <2>3. ASSUME NEW z \in T PROVE T \ {z} \in UpTo(S, n)
    <3>1. T \ {z} \in SUBSET S
      BY <2>1
    <3>2. Cardinality(T \ {z}) <= n
      <4>1. Cardinality(T \ {z}) = Cardinality(T) - 1
        BY <2>2
      <4>2. Cardinality(T) <= n + 1 /\ Cardinality(T) \in Nat
        BY <2>1
      <4> QED BY <4>1, <4>2
    <3> QED BY <3>1, <3>2 DEF UpTo
  <2>4. \A z \in T : Q(T \ {z})
    BY <2>3
  <2>5. SumFunctionOnSet(f, T) = f[p] + SumFunctionOnSet(f, T \ {p})
    BY <2>1, SumPicked DEF Ints
  <2> HIDE DEF p
  <2>6. CASE y = p
    BY <2>5, <2>6
  <2>7. CASE y # p
    <3>1. y \in T \ {p} /\ p \in T \ {y}
      BY <2>1, <2>7
    <3>2. SumFunctionOnSet(f, T \ {p}) = f[y] + SumFunctionOnSet(f, (T \ {p}) \ {y})
      BY <2>1, <2>4, <3>1
    <3>3. SumFunctionOnSet(f, T \ {y}) = f[p] + SumFunctionOnSet(f, (T \ {y}) \ {p})
      BY <2>1, <2>4, <3>1
    <3>4. (T \ {p}) \ {y} = (T \ {y}) \ {p}
      OBVIOUS
    <3>5. IsFiniteSet((T \ {p}) \ {y}) /\ Ints(f, (T \ {p}) \ {y})
      BY <2>1, FS_Subset DEF Ints
    <3>6. SumFunctionOnSet(f, (T \ {p}) \ {y}) \in Int
      BY <3>5, SumPicked
    <3>7. f[p] \in Int /\ f[y] \in Int
      BY <2>1 DEF Ints
    <3> DEFINE all == SumFunctionOnSet(f, T)
               nop == SumFunctionOnSet(f, T \ {p})
               noy == SumFunctionOnSet(f, T \ {y})
               rest == SumFunctionOnSet(f, (T \ {p}) \ {y})
    <3>8. all = f[p] + nop /\ nop = f[y] + rest /\ noy = f[p] + rest /\ rest \in Int
      BY <2>5, <3>2, <3>3, <3>4, <3>6
    <3> HIDE DEF all, nop, noy, rest
    <3>9. all = f[y] + noy
      BY <3>7, <3>8
    <3> QED BY <3>9 DEF all, noy
  <2> QED BY <2>6, <2>7
<1>3. Cardinality(S) \in C
  <2>1. Cardinality(S) \in Nat
    BY FS_CardinalityType
  <2> HIDE DEF C
  <2> QED BY <1>1, <1>2, <2>1, NatInd
<1>4. S \in UpTo(S, Cardinality(S))
  BY FS_CardinalityType DEF UpTo
<1> QED BY <1>3, <1>4

(***************************************************************************)
(* Sums.                                                                   *)
(***************************************************************************)

\* Induction over a finite set, one element after the other.
LEMMA FiniteInd ==
  ASSUME NEW S, IsFiniteSet(S), NEW C, {} \in C,
         \A T \in SUBSET S : \A x \in S \ T : T \in C => T \cup {x} \in C
  PROVE  S \in C
<1> DEFINE K == {n \in Nat : \A T \in UpTo(S, n) : T \in C}
<1>1. 0 \in K
  <2>1. \A T \in UpTo(S, 0) : T = {}
    BY FS_Subset, FS_CardinalityType, FS_EmptySet DEF UpTo
  <2> QED BY <2>1
<1>2. \A n \in Nat : n \in K => n + 1 \in K
  <2> SUFFICES ASSUME NEW n \in Nat, n \in K, NEW T \in UpTo(S, n + 1)
               PROVE  T \in C
    OBVIOUS
  <2>1. CASE T = {}
    BY <2>1
  <2>2. CASE T # {}
    <3> DEFINE p == Picked(T)
               U == T \ {p}
    <3>1. p \in T /\ U \in SUBSET S /\ T \in SUBSET S
      BY <2>2, PickedSmaller DEF UpTo
    <3>2. Cardinality(U) = Cardinality(T) - 1 /\ Cardinality(T) \in Nat
      BY <2>2, PickedSmaller DEF UpTo
    <3>3. Cardinality(T) <= n + 1
      BY DEF UpTo
    <3>4. Cardinality(U) <= n
      <4> HIDE DEF U
      <4> QED BY <3>2, <3>3
    <3>5. U \in UpTo(S, n)
      BY <3>1, <3>4 DEF UpTo
    <3>6. U \in C
      BY <3>5
    <3>7. T = U \cup {p} /\ p \in S \ U
      BY <3>1
    <3> HIDE DEF U, p
    <3> QED BY <3>1, <3>6, <3>7
  <2> QED BY <2>1, <2>2
<1>3. Cardinality(S) \in K
  <2>1. Cardinality(S) \in Nat
    BY FS_CardinalityType
  <2> HIDE DEF K
  <2> QED BY <1>1, <1>2, <2>1, NatInd
<1>4. S \in UpTo(S, Cardinality(S))
  BY FS_CardinalityType DEF UpTo
<1> QED BY <1>3, <1>4

\* A sum is an integer.
LEMMA SumInt ==
  ASSUME NEW S, IsFiniteSet(S), NEW f, Ints(f, S)
  PROVE  SumFunctionOnSet(f, S) \in Int
BY SumPicked

\* One element more.
LEMMA SumAdd ==
  ASSUME NEW S, IsFiniteSet(S), NEW f, NEW x, x \notin S, Ints(f, S \cup {x})
  PROVE  SumFunctionOnSet(f, S \cup {x}) = f[x] + SumFunctionOnSet(f, S)
<1>1. IsFiniteSet(S \cup {x}) /\ x \in S \cup {x} /\ (S \cup {x}) \ {x} = S
  BY FS_AddElement
<1> QED BY <1>1, SumSplit

\* Smaller terms, smaller sum.
LEMMA SumMono ==
  ASSUME NEW S, IsFiniteSet(S), NEW f, NEW g, Ints(f, S), Ints(g, S),
         \A x \in S : f[x] <= g[x]
  PROVE  SumFunctionOnSet(f, S) <= SumFunctionOnSet(g, S)
<1> DEFINE C == {T \in SUBSET S : SumFunctionOnSet(f, T) <= SumFunctionOnSet(g, T)}
<1>1. {} \in C
  BY SumEmpty
<1>2. \A T \in SUBSET S : \A x \in S \ T : T \in C => T \cup {x} \in C
  <2> SUFFICES ASSUME NEW T \in SUBSET S, NEW x \in S \ T, T \in C
               PROVE  SumFunctionOnSet(f, T \cup {x}) <= SumFunctionOnSet(g, T \cup {x})
    OBVIOUS
  <2>1. IsFiniteSet(T) /\ Ints(f, T) /\ Ints(g, T) /\ Ints(f, T \cup {x}) /\ Ints(g, T \cup {x})
    BY FS_Subset DEF Ints
  <2>2. /\ SumFunctionOnSet(f, T \cup {x}) = f[x] + SumFunctionOnSet(f, T)
        /\ SumFunctionOnSet(g, T \cup {x}) = g[x] + SumFunctionOnSet(g, T)
    BY <2>1, SumAdd
  <2>3. SumFunctionOnSet(f, T) \in Int /\ SumFunctionOnSet(g, T) \in Int
    BY <2>1, SumInt
  <2>4. f[x] \in Int /\ g[x] \in Int /\ f[x] <= g[x]
    BY DEF Ints
  <2>5. SumFunctionOnSet(f, T) <= SumFunctionOnSet(g, T)
    OBVIOUS
  <2> QED BY <2>2, <2>3, <2>4, <2>5
<1>3. S \in C
  <2> HIDE DEF C
  <2> QED BY <1>1, <1>2, FiniteInd
<1> QED BY <1>3

\* The sum depends on the terms alone.
LEMMA SumSame ==
  ASSUME NEW S, IsFiniteSet(S), NEW f, NEW g, Ints(f, S),
         \A x \in S : f[x] = g[x]
  PROVE  SumFunctionOnSet(f, S) = SumFunctionOnSet(g, S)
<1>1. Ints(g, S) /\ \A x \in S : f[x] <= g[x] /\ g[x] <= f[x]
  BY DEF Ints
<1>2. SumFunctionOnSet(f, S) <= SumFunctionOnSet(g, S) /\ SumFunctionOnSet(g, S) <= SumFunctionOnSet(f, S)
  BY <1>1, SumMono
<1>3. SumFunctionOnSet(f, S) \in Int /\ SumFunctionOnSet(g, S) \in Int
  BY <1>1, SumInt
<1> QED BY <1>2, <1>3

\* Terms that are zero.
LEMMA SumZero ==
  ASSUME NEW S, IsFiniteSet(S), NEW f, \A x \in S : f[x] = 0
  PROVE  SumFunctionOnSet(f, S) = 0
<1> DEFINE C == {T \in SUBSET S : SumFunctionOnSet(f, T) = 0}
<1>1. {} \in C
  BY SumEmpty
<1>2. \A T \in SUBSET S : \A x \in S \ T : T \in C => T \cup {x} \in C
  <2> SUFFICES ASSUME NEW T \in SUBSET S, NEW x \in S \ T, T \in C
               PROVE  SumFunctionOnSet(f, T \cup {x}) = 0
    OBVIOUS
  <2>1. IsFiniteSet(T) /\ Ints(f, T \cup {x})
    BY FS_Subset DEF Ints
  <2>2. SumFunctionOnSet(f, T \cup {x}) = f[x] + SumFunctionOnSet(f, T)
    BY <2>1, SumAdd
  <2> QED BY <2>2
<1>3. S \in C
  <2> HIDE DEF C
  <2> QED BY <1>1, <1>2, FiniteInd
<1> QED BY <1>3

\* The sum of natural numbers is one.
LEMMA SumNat ==
  ASSUME NEW S, IsFiniteSet(S), NEW f, \A x \in S : f[x] \in Nat
  PROVE  SumFunctionOnSet(f, S) \in Nat
<1> DEFINE z == [x \in S |-> 0]
<1>1. Ints(f, S) /\ Ints(z, S) /\ \A x \in S : z[x] = 0 /\ z[x] <= f[x]
  BY DEF Ints
<1> HIDE DEF z
<1>2. SumFunctionOnSet(z, S) = 0
  BY <1>1, SumZero
<1>3. SumFunctionOnSet(z, S) <= SumFunctionOnSet(f, S)
  BY <1>1, SumMono
<1>4. SumFunctionOnSet(f, S) \in Int
  BY <1>1, SumInt
<1> QED BY <1>2, <1>3, <1>4

\* One term changes.
LEMMA SumChange ==
  ASSUME NEW S, IsFiniteSet(S), NEW f, NEW g, Ints(f, S), Ints(g, S), NEW x \in S,
         \A y \in S \ {x} : f[y] = g[y]
  PROVE  SumFunctionOnSet(g, S) = SumFunctionOnSet(f, S) + (g[x] - f[x])
<1>1. IsFiniteSet(S \ {x}) /\ Ints(f, S \ {x}) /\ Ints(g, S \ {x})
  BY FS_Subset DEF Ints
<1>2. SumFunctionOnSet(f, S \ {x}) = SumFunctionOnSet(g, S \ {x})
  BY <1>1, SumSame
<1>3. SumFunctionOnSet(f, S) = f[x] + SumFunctionOnSet(f, S \ {x})
  BY SumSplit
<1>4. SumFunctionOnSet(g, S) = g[x] + SumFunctionOnSet(g, S \ {x})
  BY SumSplit
<1>5. SumFunctionOnSet(f, S \ {x}) \in Int /\ f[x] \in Int /\ g[x] \in Int
  BY <1>1, SumInt DEF Ints
<1> QED BY <1>2, <1>3, <1>4, <1>5

Bumped(f, g, S, x, n) == \A y \in S : g[y] = f[y] + (IF y = x THEN n ELSE 0)

\* One term grows.
LEMMA SumBump ==
  ASSUME NEW S, IsFiniteSet(S), NEW f, NEW g, Ints(f, S), NEW x, NEW n \in Int,
         Bumped(f, g, S, x, n)
  PROVE  SumFunctionOnSet(g, S) = SumFunctionOnSet(f, S) + (IF x \in S THEN n ELSE 0)
<1>0. SumFunctionOnSet(f, S) \in Int
  BY SumInt
<1>1. CASE x \in S
  <2>1. Ints(g, S) /\ \A y \in S \ {x} : f[y] = g[y]
    BY DEF Ints, Bumped
  <2>2. g[x] = f[x] + n /\ f[x] \in Int
    BY <1>1 DEF Ints, Bumped
  <2>3. SumFunctionOnSet(g, S) = SumFunctionOnSet(f, S) + (g[x] - f[x])
    BY <1>1, <2>1, SumChange
  <2> QED BY <1>0, <1>1, <2>2, <2>3
<1>2. CASE x \notin S
  <2>1. \A y \in S : f[y] = g[y]
    BY <1>2 DEF Ints, Bumped
  <2>2. SumFunctionOnSet(f, S) = SumFunctionOnSet(g, S)
    BY <2>1, SumSame
  <2> QED BY <1>0, <1>2, <2>2
<1> QED BY <1>1, <1>2

\* A sum over the n numbers from 0, when its partial sums are known.
LEMMA SumPartial ==
  ASSUME NEW n \in Nat, NEW f, Ints(f, 0..(n - 1)), NEW p, p[0] = 0,
         \A k \in 0..(n - 1) : p[k + 1] = p[k] + f[k]
  PROVE  SumFunctionOnSet(f, 0..(n - 1)) = p[n]
<1> DEFINE C == {k \in Nat : k <= n => SumFunctionOnSet(f, 0..(k - 1)) = p[k]}
<1>1. 0 \in C
  <2>1. 0..(0 - 1) = {}
    OBVIOUS
  <2>2. SumFunctionOnSet(f, 0..(0 - 1)) = 0
    BY <2>1, SumEmpty
  <2> QED BY <2>2
<1>2. \A k \in Nat : k \in C => k + 1 \in C
  <2> SUFFICES ASSUME NEW k \in Nat, k \in C, k + 1 <= n
               PROVE  SumFunctionOnSet(f, 0..((k + 1) - 1)) = p[k + 1]
    OBVIOUS
  <2>1. IsFiniteSet(0..(k - 1))
    BY FS_Interval
  <2>2. 0..((k + 1) - 1) = (0..(k - 1)) \cup {k} /\ k \notin 0..(k - 1)
    OBVIOUS
  <2>3. Ints(f, 0..(k - 1)) /\ Ints(f, (0..(k - 1)) \cup {k}) /\ f[k] \in Int
    BY <2>2 DEF Ints
  <2>4. SumFunctionOnSet(f, 0..((k + 1) - 1)) = f[k] + SumFunctionOnSet(f, 0..(k - 1))
    BY <2>1, <2>2, <2>3, SumAdd
  <2>5. SumFunctionOnSet(f, 0..(k - 1)) \in Int
    BY <2>1, <2>3, SumInt
  <2>6. SumFunctionOnSet(f, 0..(k - 1)) = p[k]
    OBVIOUS
  <2>7. p[k + 1] = p[k] + f[k]
    OBVIOUS
  <2> QED BY <2>3, <2>4, <2>5, <2>6, <2>7
<1>3. n \in C
  <2> HIDE DEF C
  <2> QED BY <1>1, <1>2, NatInd
<1> QED BY <1>3
==============================================================================
