-------------------------- MODULE IngestionProofs --------------------------
(***************************************************************************)
(* Proofs about what a run does to the rows of a report, for all reports:  *)
(* decimals, integers, dates and times are converted without a silent      *)
(* change, the quality stage accounts for every row, and the transform     *)
(* steps that do not refuse a frame lose no value and invent none.         *)
(***************************************************************************)
EXTENDS Quality, Transforms, FiniteSetTheorems, WellFoundedInduction, SequenceTheorems, TLAPS


(* A set of numbers up to n has a least one. *)
LEMMA Least ==
    ASSUME NEW n \in Nat, NEW S \in SUBSET (1..n), S # {}
    PROVE  \E m \in S : \A q \in S : m <= q
<1> DEFINE UpTo(m) == 1..m
           Order   == StrictSubsetOrdering(1..n)
           Family  == {UpTo(m) : m \in S}
<1>1. IsWellFoundedOn(Order, SUBSET (1..n))
  <2>1. 1 \in Int /\ n \in Int
    OBVIOUS
  <2>2. FiniteSubsetsOf(1..n) = SUBSET (1..n)
    BY <2>1, FS_Interval, FS_FiniteSubsetsOfFinite
  <2>3. QED
    BY <2>2, FS_StrictSubsetOrderingWellFounded
<1>2. Family \subseteq SUBSET (1..n) /\ Family # {}
  <2>1. ASSUME NEW m \in S PROVE UpTo(m) \in SUBSET (1..n)
    OBVIOUS
  <2>2. QED
    BY <2>1
<1>3. PICK x \in Family : \A y \in Family : <<y, x>> \notin Order
  <2> HIDE DEF Family, Order
  <2>1. QED
    BY <1>1, <1>2, WFMin
<1>4. PICK m \in S : x = UpTo(m)
  OBVIOUS
<1>5. ASSUME NEW q \in S, ~(m <= q) PROVE FALSE
  <2>1. UpTo(q) \in Family /\ m \in 1..n /\ q \in 1..n
    OBVIOUS
  <2>2. UpTo(q) \subseteq UpTo(m) /\ m \in UpTo(m) /\ m \notin UpTo(q)
    BY <1>5, <2>1
  <2>3. <<UpTo(q), UpTo(m)>> \in Order
    BY <2>1, <2>2 DEF StrictSubsetOrdering
  <2>4. QED
    BY <1>3, <1>4, <2>1, <2>3
<1>6. QED
  BY <1>5

(* A set of n elements has a sequence that holds each once, which SetToSeq chooses.    *)
LEMMA SetToSeqFacts ==
    ASSUME NEW S, IsFiniteSet(S)
    PROVE  /\ SetToSeq(S) \in [1..Cardinality(S) -> S] /\ Cardinality(S) \in Nat
           /\ \A i, j \in 1..Cardinality(S) : SetToSeq(S)[i] = SetToSeq(S)[j] => i = j
<1>1. PICK n \in Nat : ExistsBijection(1..n, S)
  BY FS_NatBijection
<1>2. n = Cardinality(S)
  BY <1>1, FS_CountingElements
<1>3. \E f \in [1..Cardinality(S) -> S] : IsInjective(f)
  <2>1. PICK f : f \in Bijection(1..n, S)
    BY <1>1 DEF ExistsBijection
  <2>2. f \in [1..n -> S] /\ \A i, j \in 1..n : f[i] = f[j] => i = j
    BY <2>1 DEF Bijection, Injection, Surjection, IsInjective
  <2>3. QED
    BY <1>2, <2>2 DEF IsInjective
<1>4. SetToSeq(S) \in [1..Cardinality(S) -> S] /\ IsInjective(SetToSeq(S))
  BY <1>3 DEF SetToSeq
<1>5. QED
  BY <1>1, <1>2, <1>4 DEF IsInjective

(* The numbers of a set can be put in increasing order. *)
LEMMA Increasing ==
    ASSUME NEW n \in Nat, NEW S \in SUBSET (1..n)
    PROVE  \E f \in [1..Cardinality(S) -> S] :
              \A i, j \in 1..Cardinality(S) : i < j => f[i] < f[j]
<1> DEFINE Orderable(T) == \E f \in [1..Cardinality(T) -> T] :
                              \A i, j \in 1..Cardinality(T) : i < j => f[i] < f[j]
           Bad   == {T \in SUBSET (1..n) : ~Orderable(T)}
           Order == StrictSubsetOrdering(1..n)
<1>1. IsWellFoundedOn(Order, SUBSET (1..n)) /\ \A T \in SUBSET (1..n) : IsFiniteSet(T)
  <2>1. 1 \in Int /\ n \in Int
    OBVIOUS
  <2>2. IsFiniteSet(1..n)
    BY <2>1, FS_Interval
  <2>3. FiniteSubsetsOf(1..n) = SUBSET (1..n)
    BY <2>2, FS_FiniteSubsetsOfFinite
  <2>4. \A T \in SUBSET (1..n) : IsFiniteSet(T)
    BY <2>2, FS_Subset
  <2>5. QED
    BY <2>3, <2>4, FS_StrictSubsetOrderingWellFounded
<1>2. ASSUME NEW T \in Bad, \A U \in Bad : <<U, T>> \notin Order PROVE FALSE
  <2>1. T \in SUBSET (1..n) /\ ~Orderable(T) /\ IsFiniteSet(T)
    BY <1>1
  <2>2. T # {}
    <3>1. ASSUME T = {} PROVE FALSE
      <4>1. Cardinality(T) = 0
        BY <3>1, FS_EmptySet
      <4>2. 1..Cardinality(T) = {}
        BY <4>1
      <4>3. [i \in {} |-> 0] \in [1..Cardinality(T) -> T]
        BY <4>2
      <4>4. Orderable(T)
        BY <4>2, <4>3
      <4>5. QED
        BY <2>1, <4>4
    <3>2. QED
      BY <3>1
  <2>3. PICK m \in T : \A q \in T : m <= q
    BY <2>1, <2>2, Least
  <2> DEFINE rest == T \ {m}
             k == Cardinality(rest)
  <2>4. k \in Nat /\ Cardinality(T) = k + 1
    <3>1. IsFiniteSet(rest) /\ Cardinality(rest) = Cardinality(T) - 1
      BY <2>1, FS_RemoveElement
    <3>2. Cardinality(rest) \in Nat /\ Cardinality(T) \in Nat
      BY <2>1, <3>1, FS_CardinalityType
    <3>3. QED
      BY <3>1, <3>2
  <2>5. rest \in SUBSET (1..n) /\ <<rest, T>> \in Order
    BY <2>1 DEF StrictSubsetOrdering
  <2>6. Orderable(rest)
    BY <1>2, <2>5
  <2>7. PICK f \in [1..k -> rest] : \A i, j \in 1..k : i < j => f[i] < f[j]
    BY <2>6
  <2> HIDE DEF rest, k
  <2> DEFINE g == [i \in 1..(k + 1) |-> IF i = 1 THEN m ELSE f[i - 1]]
  <2>8. \A i \in 1..(k + 1) : i = 1 \/ (i - 1 \in 1..k /\ f[i - 1] \in rest)
    BY <2>4, <2>7
  <2>9. g \in [1..(k + 1) -> T]
    BY <2>8 DEF rest
  <2>10. \A i \in 1..k : m < f[i]
    <3>1. \A i \in 1..k : f[i] \in T /\ f[i] # m
      BY <2>7 DEF rest
    <3>2. \A q \in T : q \in Nat
      <4>1. \A q \in 1..n : q \in Nat
        OBVIOUS
      <4>2. QED
        BY <2>1, <4>1
    <3>3. ASSUME NEW i \in 1..k PROVE m < f[i]
      <4>1. f[i] \in T /\ f[i] # m /\ m <= f[i]
        BY <2>3, <3>1
      <4>2. m \in Nat /\ f[i] \in Nat
        BY <3>2, <4>1
      <4>3. QED
        BY <4>1, <4>2
    <3>4. QED
      BY <3>3
  <2>11. \A i, j \in 1..(k + 1) : i < j => g[i] < g[j]
    <3>1. ASSUME NEW i \in 1..(k + 1), NEW j \in 1..(k + 1), i < j PROVE g[i] < g[j]
      <4>1. j - 1 \in 1..k /\ g[j] = f[j - 1]
        BY <2>4, <3>1
      <4>2. CASE i = 1
        BY <2>10, <4>1, <4>2
      <4>3. CASE i # 1
        <5>1. i - 1 \in 1..k /\ g[i] = f[i - 1] /\ i - 1 < j - 1
          BY <2>4, <3>1, <4>3
        <5>2. QED
          BY <2>7, <4>1, <5>1
      <4>4. QED
        BY <4>2, <4>3
    <3>2. QED
      BY <3>1
  <2>12. QED
    BY <2>1, <2>4, <2>9, <2>11
<1>3. Bad = {}
  <2>1. Bad # {} => \E T \in Bad : \A U \in Bad : <<U, T>> \notin Order
    <3>1. Bad \subseteq SUBSET (1..n)
      OBVIOUS
    <3> HIDE DEF Bad, Order
    <3>2. QED
      BY <1>1, <3>1, WFMin
  <2>2. QED
    BY <1>2, <2>1
<1>4. QED
  BY <1>3

(* What holds of 0, and of n + 1 if it holds of n, holds of every number. *)
LEMMA Induction ==
    ASSUME NEW S, 0 \in S, \A n \in Nat : n \in S => n + 1 \in S
    PROVE  \A n \in Nat : n \in S
<1> SUFFICES ASSUME NEW n \in Nat, n \notin S PROVE FALSE
  OBVIOUS
<1> DEFINE Bad == {m \in 1..n : m \notin S}
<1>1. Bad \in SUBSET (1..n) /\ n \in Bad
  OBVIOUS
<1>2. PICK m \in Bad : \A q \in Bad : m <= q
  <2> HIDE DEF Bad
  <2>1. QED
    BY <1>1, Least
<1>3. m - 1 \in Nat /\ m - 1 \in S /\ m = (m - 1) + 1
  BY <1>2
<1>4. QED
  BY <1>2, <1>3

(* A function on the numbers with a first value e, made step by step with h. *)
Grown(f, e, h) == f[0] = e /\ \A n \in Nat : f[n + 1] = h[<<n, f[n]>>]

(* There is such a function, whatever the first value and the step. *)
LEMMA Recursion ==
    ASSUME NEW S, NEW e \in S, NEW h \in [Nat \X S -> S]
    PROVE  \E f \in [Nat -> S] : Grown(f, e, h)
<1> DEFINE Upto(n) == {g \in [0..n -> S] : g[0] = e /\ \A k \in 0..(n - 1) : g[k + 1] = h[<<k, g[k]>>]}
           Possible == {n \in Nat : Upto(n) # {}}
<1>1. 0 \in Possible
  <2>1. [k \in 0..0 |-> e] \in Upto(0)
    OBVIOUS
  <2>2. QED
    BY <2>1
<1>2. ASSUME NEW n \in Nat, n \in Possible PROVE n + 1 \in Possible
  <2>1. PICK g \in Upto(n) : TRUE
    BY <1>2
  <2> DEFINE more == [k \in 0..(n + 1) |-> IF k = n + 1 THEN h[<<n, g[n]>>] ELSE g[k]]
  <2>2. more \in [0..(n + 1) -> S]
    OBVIOUS
  <2>3. ASSUME NEW k \in 0..n PROVE more[k + 1] = h[<<k, more[k]>>]
    <3>1. k + 1 \in 0..(n + 1) /\ more[k] = g[k]
      OBVIOUS
    <3>2. CASE k = n
      BY <3>1, <3>2
    <3>3. CASE k # n
      <4>1. k \in 0..(n - 1) /\ k + 1 # n + 1
        BY <3>3
      <4>2. QED
        BY <2>1, <3>1, <4>1
    <3>4. QED
      BY <3>2, <3>3
  <2>4. more[0] = e /\ (n + 1) - 1 = n
    BY <2>1
  <2> HIDE DEF more
  <2>5. more \in Upto(n + 1)
    BY <2>2, <2>3, <2>4
  <2>6. QED
    BY <2>5
<1>3. \A n \in Nat : Upto(n) # {}
  <2>1. \A n \in Nat : n \in Possible
    <3> HIDE DEF Possible
    <3>1. QED
      BY <1>1, <1>2, Induction, Zenon
  <2>2. QED
    BY <2>1
<1>4. ASSUME NEW n \in Nat, NEW g \in Upto(n), NEW m \in Nat, NEW g2 \in Upto(m)
      PROVE  \A k \in Nat : k <= n /\ k <= m => g[k] = g2[k]
  <2> DEFINE Same == {k \in Nat : k <= n /\ k <= m => g[k] = g2[k]}
  <2>1. 0 \in Same
    OBVIOUS
  <2>2. ASSUME NEW k \in Nat, k \in Same PROVE k + 1 \in Same
    <3>1. SUFFICES ASSUME k + 1 <= n, k + 1 <= m PROVE g[k + 1] = g2[k + 1]
      OBVIOUS
    <3>2. k \in 0..(n - 1) /\ k \in 0..(m - 1) /\ g[k] = g2[k]
      BY <2>2, <3>1
    <3>3. QED
      BY <3>2
  <2>3. \A k \in Nat : k \in Same
    <3> HIDE DEF Same
    <3>1. QED
      BY <2>1, <2>2, Induction, Zenon
  <2>4. QED
    BY <2>3
<1>5. PICK u : \A n \in Nat : u[n] \in Upto(n)
  <2>1. \A n \in Nat : [m \in Nat |-> CHOOSE g \in Upto(m) : TRUE][n] \in Upto(n)
    BY <1>3
  <2>2. QED
    BY <2>1
<1>6. ASSUME NEW n \in Nat
      PROVE  /\ u[n] \in [0..n -> S] /\ u[n][0] = e
             /\ \A k \in 0..(n - 1) : u[n][k + 1] = h[<<k, u[n][k]>>]
  BY <1>5
<1> DEFINE f == [n \in Nat |-> u[n][n]]
<1>7. ASSUME NEW n \in Nat PROVE f[n + 1] = h[<<n, f[n]>>]
  <2>1. u[n + 1][n] = u[n][n]
    <3>1. u[n + 1] \in Upto(n + 1) /\ u[n] \in Upto(n) /\ n + 1 \in Nat
      BY <1>5
    <3> HIDE DEF Upto
    <3>2. n <= n + 1 /\ n <= n
      OBVIOUS
    <3>3. QED
      BY <1>4, <3>1, <3>2
  <2>2. n + 1 \in Nat /\ n \in 0..((n + 1) - 1)
    OBVIOUS
  <2>3. u[n + 1][n + 1] = h[<<n, u[n + 1][n]>>]
    BY <1>6, <2>2
  <2> HIDE DEF Upto, Possible
  <2>4. f[n + 1] = u[n + 1][n + 1] /\ f[n] = u[n][n]
    BY <2>2
  <2>5. QED
    BY <2>1, <2>3, <2>4
<1>8. f \in [Nat -> S] /\ f[0] = e
  <2>1. \A n \in Nat : n \in 0..n
    OBVIOUS
  <2> HIDE DEF Upto, Possible
  <2>2. ASSUME NEW n \in Nat PROVE u[n][n] \in S
    BY <1>6, <2>1
  <2>3. QED
    BY <1>6, <2>2
<1> HIDE DEF f
<1>9. QED
  BY <1>7, <1>8 DEF Grown

(* The powers of a base, as a recursive function gives them. *)
Powers(f, base) == f = [n \in Nat |-> IF n = 0 THEN 1 ELSE base * f[n - 1]]

(* There are powers of every base. *)
LEMMA PowersExist ==
    ASSUME NEW base \in Nat
    PROVE  \E f : Powers(f, base)
<1> DEFINE h == [p \in Nat \X Nat |-> base * p[2]]
<1>1. h \in [Nat \X Nat -> Nat] /\ 1 \in Nat
  OBVIOUS
<1>2. \A n, v \in Nat : h[<<n, v>>] = base * v
  OBVIOUS
<1> HIDE DEF h
<1>3. PICK f \in [Nat -> Nat] : f[0] = 1 /\ \A n \in Nat : f[n + 1] = h[<<n, f[n]>>]
  <2>1. \E f \in [Nat -> Nat] : Grown(f, 1, h)
    BY <1>1, Recursion
  <2>2. QED
    BY <2>1 DEF Grown
<1>4. \A n \in Nat : f[n] = IF n = 0 THEN 1 ELSE base * f[n - 1]
  <2>1. ASSUME NEW n \in Nat, n # 0 PROVE f[n] = base * f[n - 1]
    <3>1. n - 1 \in Nat /\ n = (n - 1) + 1
      BY <2>1
    <3>2. QED
      BY <1>2, <1>3, <3>1
  <2>2. QED
    BY <1>3, <2>1
<1>5. QED
  BY <1>3, <1>4 DEF Powers

(* They are positive, grow, and outgrow their exponents. *)
LEMMA PowerFacts ==
    ASSUME NEW base \in Nat, base >= 2, NEW f, Powers(f, base)
    PROVE  /\ f \in [Nat -> Nat \ {0}] /\ f[0] = 1
           /\ \A n \in Nat : f[n + 1] = base * f[n] /\ n < f[n]
           /\ \A m, n \in Nat : m <= n => f[m] <= f[n]
<1>1. f[0] = 1 /\ \A n \in Nat : f[n + 1] = base * f[n]
  BY DEF Powers
<1> DEFINE Outgrown == {k \in Nat : f[k] \in Nat /\ k < f[k]}
<1>2. \A n \in Nat : n \in Outgrown
  <2>1. 0 \in Outgrown
    BY <1>1
  <2>2. ASSUME NEW n \in Nat, n \in Outgrown PROVE n + 1 \in Outgrown
    <3>1. \A v \in Nat : n < v => base * v \in Nat /\ n + 1 < base * v
      <4>1. ASSUME NEW v \in Nat, n < v PROVE base * v \in Nat /\ base * v >= 2 * v
        OBVIOUS
      <4>2. QED
        BY <4>1
    <3>2. QED
      BY <1>1, <2>2, <3>1
  <2> HIDE DEF Outgrown
  <2>3. QED
    BY <2>1, <2>2, Induction
<1>3. f \in [Nat -> Nat \ {0}]
  <2>1. \A n \in Nat : f[n] \in Nat \ {0}
    BY <1>2
  <2>2. QED
    BY <2>1 DEF Powers
<1>4. ASSUME NEW m \in Nat
      PROVE  \A n \in Nat : m <= n => f[m] <= f[n]
  <2> DEFINE Larger == {n \in Nat : m <= n => f[m] <= f[n]}
  <2>1. 0 \in Larger
    BY <1>3
  <2>2. ASSUME NEW n \in Nat, n \in Larger PROVE n + 1 \in Larger
    <3>1. \A v \in Nat : v <= base * v
      OBVIOUS
    <3>2. f[n] \in Nat /\ f[n + 1] \in Nat /\ f[m] \in Nat /\ f[n] <= f[n + 1]
      BY <1>1, <1>3, <3>1
    <3>3. m <= n + 1 => m <= n \/ m = n + 1
      OBVIOUS
    <3>4. QED
      BY <2>2, <3>2, <3>3
  <2> HIDE DEF Larger
  <2>3. \A n \in Nat : n \in Larger
    BY <2>1, <2>2, Induction
  <2>4. QED
    BY <2>3 DEF Larger
<1>5. QED
  BY <1>1, <1>2, <1>3, <1>4

(* So are those of ten and of two. *)
LEMMA TenFacts ==
    /\ Ten \in [Nat -> Nat \ {0}] /\ Ten[0] = 1
    /\ \A n \in Nat : Ten[n + 1] = 10 * Ten[n] /\ n < Ten[n]
    /\ \A m, n \in Nat : m <= n => Ten[m] <= Ten[n]
<1>1. Powers(Ten, 10)
  <2>1. \E f : Powers(f, 10)
    BY PowersExist
  <2>2. QED
    BY <2>1 DEF Powers, Ten
<1>2. QED
  BY <1>1, PowerFacts

(* The values of a column with bits are twice those of one with a bit less. *)
LEMMA TwoFacts ==
    /\ Two \in [Nat -> Nat \ {0}] /\ Two[0] = 1
    /\ \A n \in Nat : Two[n + 1] = 2 * Two[n]
<1>1. Powers(Two, 2)
  <2>1. \E f : Powers(f, 2)
    BY PowersExist
  <2>2. QED
    BY <2>1 DEF Powers, Two
<1>2. QED
  BY <1>1, PowerFacts

-----------------------------------------------------------------------------
(* A number of units is whole exactly if it is a multiple, of its quotient. *)
LEMMA Multiples ==
    ASSUME NEW F \in Nat \ {0}, NEW n \in Int
    PROVE  /\ n % F = 0 => n = (n \div F) * F /\ n \div F \in Int
           /\ \A v \in Int : n = v * F => n % F = 0 /\ n \div F = v
<1>1. n % F = 0 => n = (n \div F) * F /\ n \div F \in Int
  OBVIOUS
<1>2. ASSUME NEW v \in Int, n = v * F PROVE n % F = 0 /\ n \div F = v
  BY <1>2
<1>3. QED
  BY <1>1, <1>2

(* Numbers from -M to M modulo M. *)
LEMMA Remainders ==
    ASSUME NEW M \in Nat \ {0}, NEW v \in -M..M
    PROVE  v % M = IF v = M THEN 0 ELSE IF v < 0 THEN v + M ELSE v
<1>1. \A q, r \in Int : v = q * M + r /\ 0 <= r /\ r < M => v % M = r
  OBVIOUS
<1>2. CASE v = M
  <2>1. v = 1 * M + 0 /\ 0 < M
    BY <1>2
  <2>2. QED
    BY <1>1, <1>2, <2>1
<1>3. CASE v < 0
  <2>1. v = (-1) * M + (v + M) /\ 0 <= v + M /\ v + M < M
    BY <1>3
  <2>2. -1 \in Int /\ v + M \in Int /\ v # M
    BY <1>3
  <2>3. QED
    BY <1>1, <1>3, <2>1, <2>2
<1>4. CASE v >= 0 /\ v # M
  <2>1. v = 0 * M + v /\ 0 <= v /\ v < M
    BY <1>4
  <2>2. QED
    BY <1>1, <1>4, <2>1
<1>5. QED
  BY <1>2, <1>3, <1>4

(* ClickHouse keeps exactly the values of the column's range as they are. *)
LEMMA StoredFacts ==
    ASSUME NEW bits \in Nat \ {0}, NEW signed \in BOOLEAN, NEW v \in -Two[bits]..Two[bits]
    PROVE  Stored(v, bits, signed) = v <=> v \in Low(bits, signed)..High(bits, signed)
<1> DEFINE W == Two[bits - 1]
           M == Two[bits]
<1>1. W \in Nat \ {0} /\ M = 2 * W /\ M \in Nat \ {0} /\ v \in -M..M
  <2>1. bits - 1 \in Nat /\ bits = (bits - 1) + 1
    OBVIOUS
  <2>2. W \in Nat \ {0} /\ M = 2 * W /\ v \in -M..M
    BY <2>1, TwoFacts
  <2> HIDE DEF W, M
  <2>3. QED
    BY <2>2
<1>2. v % M = IF v = M THEN 0 ELSE IF v < 0 THEN v + M ELSE v
  <2> HIDE DEF W, M
  <2>1. QED
    BY <1>1, Remainders
<1>3. Stored(v, bits, signed) = IF signed /\ v % M >= W THEN (v % M) - M ELSE v % M
  BY DEF Stored
<1>4. /\ signed => Low(bits, signed) = -W /\ High(bits, signed) = W - 1
      /\ ~signed => Low(bits, signed) = 0 /\ High(bits, signed) = M - 1
  BY DEF Low, High
<1> HIDE DEF W, M
<1>5. CASE signed
  <2>1. Stored(v, bits, signed) = IF v % M >= W THEN (v % M) - M ELSE v % M
    BY <1>3, <1>5
  <2>2. \/ v = M /\ Stored(v, bits, signed) = 0
        \/ v \in -M..(-W - 1) /\ Stored(v, bits, signed) = v + M
        \/ v \in -W..(W - 1) /\ Stored(v, bits, signed) = v
        \/ v \in W..(M - 1) /\ Stored(v, bits, signed) = v - M
    BY <1>1, <1>2, <2>1
  <2>3. Low(bits, signed) = -W /\ High(bits, signed) = W - 1
    BY <1>4, <1>5
  <2>4. QED
    BY <1>1, <2>2, <2>3
<1>6. CASE ~signed
  BY <1>1, <1>2, <1>3, <1>4, <1>6
<1>7. QED
  BY <1>5, <1>6

(* coercion.py: an integer column of any width, signed or not, takes exactly the numbers *)
(* that ClickHouse stores unchanged; the others it would wrap, and they are rejected.    *)
THEOREM IntegersAreKept ==
    ASSUME NEW bits \in Nat \ {0}, NEW signed \in BOOLEAN, NEW n \in Int
    PROVE  IntegerFits(n, bits, signed)
<1> DEFINE F == Ten[Fraction]
           M == Two[bits]
           Stores == Low(bits, signed)..High(bits, signed)
<1>1. F \in Nat \ {0} /\ M \in Nat \ {0} /\ Stores \subseteq -M..M
  <2>1. \A W \in Nat \ {0} : -W..(W - 1) \subseteq -(2 * W)..(2 * W)
                             /\ 0..(2 * W - 1) \subseteq -(2 * W)..(2 * W)
    OBVIOUS
  <2>2. \/ Stores = -(Two[bits - 1])..(Two[bits - 1] - 1)
        \/ Stores = 0..(Two[bits] - 1)
    BY DEF Low, High
  <2>3. Stores \subseteq -M..M /\ M \in Nat \ {0}
    <3>1. PICK W \in Nat \ {0} : Two[bits - 1] = W /\ M = 2 * W
      <4>1. bits - 1 \in Nat /\ bits = (bits - 1) + 1
        OBVIOUS
      <4>2. QED
        BY <4>1, TwoFacts
    <3>2. \/ Stores = -W..(W - 1)
          \/ Stores = 0..(2 * W - 1)
      BY <2>2, <3>1
    <3> HIDE DEF Stores, M
    <3>3. Stores \subseteq -(2 * W)..(2 * W)
      BY <2>1, <3>2
    <3>4. QED
      BY <3>1, <3>3
  <2>4. F \in Nat \ {0}
    BY TenFacts, CoercionAssumption
  <2>5. QED
    BY <2>3, <2>4
<1>2. ToInteger(n, bits, signed).kind = "value" <=> n % F = 0 /\ n \div F \in Stores
  BY DEF ToInteger, Value, Rejected
<1>3. IntegerFits(n, bits, signed)
      <=> (ToInteger(n, bits, signed).kind = "value"
           <=> \E v \in -M..M : n = v * F /\ Stored(v, bits, signed) = v)
  BY DEF IntegerFits
<1>4. \A v \in -M..M : Stored(v, bits, signed) = v <=> v \in Stores
  BY StoredFacts
<1> HIDE DEF F, M, Stores
<1>5. n % F = 0 /\ n \div F \in Stores => \E v \in -M..M : n = v * F /\ v \in Stores
  BY <1>1, Multiples
<1>6. ASSUME NEW v \in -M..M, n = v * F, v \in Stores PROVE n % F = 0 /\ n \div F \in Stores
  <2>1. v \in Int
    BY <1>1
  <2>2. QED
    BY <1>1, <1>6, <2>1, Multiples
<1>7. QED
  BY <1>2, <1>3, <1>4, <1>5, <1>6

(* Rounding half to even takes the nearest integer, of two the even one. *)
LEMMA RoundsToNearest ==
    ASSUME NEW n \in Int, NEW m \in Nat \ {0}
    PROVE  /\ RoundHalfEven(n, m) \in Int
           /\ 2 * Abs(RoundHalfEven(n, m) * m - n) <= m
           /\ 2 * Abs(RoundHalfEven(n, m) * m - n) = m => RoundHalfEven(n, m) % 2 = 0
<1> DEFINE q == n \div m
           r == n % m
<1>1. q \in Int /\ r \in Int /\ n = q * m + r /\ 0 <= r /\ r < m
  OBVIOUS
<1>2. RoundHalfEven(n, m) = IF 2 * r > m \/ (2 * r = m /\ q % 2 = 1) THEN q + 1 ELSE q
  BY DEF RoundHalfEven
<1> HIDE DEF q, r
<1>3. q * m \in Int /\ q * m - n = -r /\ (q + 1) * m - n = m - r
  <2>1. (q + 1) * m = q * m + m
    BY <1>1
  <2>2. QED
    BY <1>1, <2>1
<1>4. q % 2 \in {0, 1} /\ (q % 2 = 1 => (q + 1) % 2 = 0)
  BY <1>1
<1>5. CASE RoundHalfEven(n, m) = q /\ 2 * r <= m /\ (2 * r = m => q % 2 # 1)
  <2>1. Abs(q * m - n) = r
    BY <1>1, <1>3 DEF Abs
  <2>2. QED
    BY <1>1, <1>4, <1>5, <2>1
<1>6. CASE RoundHalfEven(n, m) = q + 1 /\ 2 * r >= m /\ (2 * r = m => q % 2 = 1)
  <2>1. Abs((q + 1) * m - n) = m - r
    BY <1>1, <1>3 DEF Abs
  <2>2. QED
    BY <1>1, <1>4, <1>6, <2>1
<1>7. QED
  <2>1. CASE 2 * r > m \/ (2 * r = m /\ q % 2 = 1)
    BY <1>1, <1>2, <1>6, <2>1
  <2>2. CASE ~(2 * r > m \/ (2 * r = m /\ q % 2 = 1))
    BY <1>1, <1>2, <1>5, <2>2
  <2>3. QED
    BY <2>1, <2>2

(* A number has the digits that put it between two powers of ten. *)
LEMMA DigitsFacts ==
    ASSUME NEW units \in Int
    PROVE  /\ Digits(units) \in Nat \ {0} /\ Abs(units) \in Nat /\ Abs(units) < Ten[Digits(units)]
           /\ IF units = 0 THEN Digits(units) = 1 ELSE Ten[Digits(units) - 1] <= Abs(units)
<1>1. CASE units = 0
  <2>1. Digits(units) = 1 /\ Abs(units) = 0
    BY <1>1 DEF Digits, Abs
  <2>2. Ten[1] \in Nat \ {0}
    BY TenFacts
  <2>3. QED
    BY <1>1, <2>1, <2>2
<1>2. CASE units # 0
  <2> DEFINE size == Abs(units)
             Long == {d \in 1..size : size < Ten[d]}
  <2>1. size \in Nat \ {0}
    BY <1>2 DEF Abs
  <2> HIDE DEF size
  <2>2. PICK d \in Long : \A e \in Long : d <= e
    <3>1. Long \in SUBSET (1..size) /\ size \in Long
      <4>1. size < Ten[size] /\ size \in 1..size
        BY <2>1, TenFacts
      <4>2. QED
        BY <4>1
    <3> HIDE DEF Long
    <3>2. QED
      BY <2>1, <3>1, Least
  <2>3. Ten[d - 1] <= size
    <3>1. CASE d = 1
      BY <2>1, <3>1, TenFacts
    <3>2. CASE d # 1
      <4>1. d - 1 \in 1..size /\ d - 1 \notin Long
        BY <2>1, <2>2, <3>2
      <4>2. Ten[d - 1] \in Nat
        BY <4>1, TenFacts
      <4>3. QED
        BY <2>1, <4>1, <4>2
    <3>3. QED
      BY <3>1, <3>2
  <2>4. \E e \in 1..size : Ten[e - 1] <= size /\ size < Ten[e]
    BY <2>2, <2>3
  <2>5. Digits(units) = CHOOSE e \in 1..size : Ten[e - 1] <= size /\ size < Ten[e]
    BY <1>2 DEF Digits, size
  <2>6. Digits(units) \in 1..size /\ Ten[Digits(units) - 1] <= size /\ size < Ten[Digits(units)]
    BY <2>4, <2>5
  <2>7. QED
    BY <1>2, <2>1, <2>6 DEF size
<1>3. QED
  BY <1>1, <1>2

(* One more unit. *)
LEMMA OneMore == \A a, b \in Int : (a + 1) * b = a * b + b
OBVIOUS

(* A number that rounds to more than E digits is too big for E digits, and the other way *)
(* round if E is not zero.                                                               *)
LEMMA TooBigFacts ==
    ASSUME NEW n \in Int, NEW S \in Nat, NEW E \in Nat, NEW unit \in Nat \ {0}, NEW units \in Int,
           unit = Ten[Fraction - S], 2 * Abs(units * unit - n) <= unit,
           2 * Abs(units * unit - n) = unit => units % 2 = 0
    PROVE  /\ Abs(units) >= Ten[E] => TooBig(n, E, S)
           /\ E # 0 /\ TooBig(n, E, S) => Abs(units) >= Ten[E]
<1> DEFINE T == Ten[E]
<1>1. T \in Nat \ {0} /\ Abs(n) \in Nat /\ Abs(units) \in Nat
  <2>1. T \in Nat \ {0}
    BY TenFacts
  <2>2. \A a \in Int : Abs(a) \in Nat
    BY DEF Abs
  <2>3. QED
    BY <2>1, <2>2
<1>2. TooBig(n, E, S) <=> 2 * Abs(n) + unit >= 2 * (T * unit)
  <2>1. 2 * T * unit = 2 * (T * unit)
    BY <1>1
  <2>2. QED
    BY <2>1 DEF TooBig
<1>3. \A a, b \in Nat : a * b \in Nat /\ (a <= b => a * unit <= b * unit)
  OBVIOUS
<1>4. Abs(units) * unit = Abs(units * unit) /\ units * unit \in Int /\ Abs(units) * unit \in Nat
  <2>1. \A a \in Int, b \in Nat : a * b \in Int /\ (a >= 0 => a * b >= 0)
                                  /\ (a < 0 => a * b <= 0) /\ (-a) * b = -(a * b)
    OBVIOUS
  <2>2. units * unit \in Int /\ (units >= 0 => units * unit >= 0)
        /\ (units < 0 => units * unit <= 0) /\ (-units) * unit = -(units * unit)
    BY <2>1
  <2>3. QED
    BY <2>2 DEF Abs
<1>5. /\ 2 * Abs(n) + unit >= 2 * (Abs(units) * unit)
      /\ 2 * Abs(n) <= 2 * (Abs(units) * unit) + 2 * Abs(units * unit - n)
  BY <1>4 DEF Abs
<1>6. T * unit \in Nat
  BY <1>1, <1>3
<1>7. ASSUME Abs(units) >= T PROVE TooBig(n, E, S)
  <2>1. T * unit <= Abs(units) * unit
    BY <1>1, <1>3, <1>7
  <2>2. QED
    BY <1>1, <1>2, <1>4, <1>5, <1>6, <2>1
<1>8. ASSUME E # 0, TooBig(n, E, S), ~(Abs(units) >= T) PROVE FALSE
  <2>1. T % 2 = 0
    <3>1. T = 10 * Ten[E - 1] /\ Ten[E - 1] \in Nat
      <4>1. E - 1 \in Nat /\ (E - 1) + 1 = E
        BY <1>8
      <4>2. QED
        BY <4>1, TenFacts
    <3>2. \A a \in Nat : (10 * a) % 2 = 0
      OBVIOUS
    <3>3. QED
      BY <3>1, <3>2
  <2> HIDE DEF T
  <2>2. Abs(units) + 1 <= T /\ (Abs(units) + 1) * unit = Abs(units) * unit + unit
    <3>1. (Abs(units) + 1) * unit = Abs(units) * unit + unit
      BY <1>1, OneMore
    <3>2. \A a, b \in Nat : ~(a >= b) => a + 1 <= b
      OBVIOUS
    <3>3. QED
      BY <1>1, <1>8, <3>1, <3>2 DEF T
  <2>3. (Abs(units) + 1) * unit <= T * unit
    BY <1>1, <1>3, <2>2
  <2>4. 2 * Abs(n) + unit >= 2 * (T * unit)
    BY <1>2, <1>8
  <2> DEFINE off == Abs(units * unit - n)
             size == Abs(units) * unit
  <2>5. off \in Nat /\ size \in Nat
    BY <1>4 DEF Abs
  <2>6. 2 * off <= unit /\ (2 * off = unit => units % 2 = 0)
    OBVIOUS
  <2> HIDE DEF off
  <2>7. 2 * off = unit /\ size + unit = T * unit
    <3>1. size + unit <= T * unit /\ 2 * Abs(n) <= 2 * size + 2 * off
      BY <1>5, <2>2, <2>3 DEF off
    <3> HIDE DEF size
    <3>2. QED
      BY <1>1, <1>6, <2>4, <2>5, <2>6, <3>1
  <2>8. Abs(units) + 1 = T
    <3>1. \A a, b \in Nat : a < b => a * unit < b * unit
      OBVIOUS
    <3>2. (Abs(units) + 1) * unit = T * unit
      BY <2>2, <2>7
    <3>3. ~(Abs(units) + 1 < T)
      BY <1>1, <1>6, <3>1, <3>2
    <3>4. \A a, b \in Nat : a + 1 <= b /\ ~(a + 1 < b) => a + 1 = b
      OBVIOUS
    <3>5. QED
      BY <1>1, <2>2, <3>3, <3>4
  <2>9. units % 2 = 0 /\ Abs(units) % 2 = 0
    BY <2>6, <2>7 DEF Abs
  <2>10. QED
    BY <1>1, <2>1, <2>8, <2>9
<1>9. QED
  BY <1>7, <1>8

(* coercion.py: a decimal of any precision and scale that the decimal context has room   *)
(* for is stored as the nearest one with that scale, which fits the precision, or is     *)
(* rejected, as one that does not; any other ends the run.                               *)
THEOREM DecimalsAreKept ==
    ASSUME NEW n \in Int, NEW P \in Nat, NEW S \in 0..Fraction
    PROVE  DecimalFits(n, P, S)
<1> DEFINE unit   == Ten[Fraction - S]
           units  == Quantized(n, S)
           D      == Digits(units)
           result == ToDecimal(n, P, S)
<1>1. unit \in Nat \ {0} /\ S \in Nat
  <2>1. Fraction \in Nat /\ S \in Nat /\ Fraction - S \in Nat
    BY CoercionAssumption
  <2>2. QED
    BY <2>1, TenFacts
<1>2. /\ units \in Int /\ 2 * Abs(units * unit - n) <= unit
      /\ 2 * Abs(units * unit - n) = unit => units % 2 = 0
  <2>1. CASE S = Fraction
    <3>1. unit = 1 /\ units = n
      <4>1. S - Fraction = 0 /\ Fraction - S = 0 /\ S >= Fraction
        BY <1>1, <2>1, CoercionAssumption
      <4>2. Ten[0] = 1
        BY TenFacts
      <4>3. QED
        BY <4>1, <4>2 DEF Quantized
    <3>2. QED
      BY <3>1 DEF Abs
  <2>2. CASE S # Fraction
    <3>1. units = RoundHalfEven(n, unit)
      <4>1. ~(S >= Fraction)
        BY <1>1, <2>2, CoercionAssumption
      <4>2. QED
        BY <4>1 DEF Quantized
    <3> HIDE DEF unit, units
    <3>2. QED
      BY <1>1, <3>1, RoundsToNearest
  <2>3. QED
    BY <2>1, <2>2
<1>3. /\ D \in Nat \ {0} /\ Abs(units) \in Nat /\ Abs(units) < Ten[D]
      /\ IF units = 0 THEN D = 1 ELSE Ten[D - 1] <= Abs(units)
  <2> HIDE DEF units
  <2>1. QED
    BY <1>2, DigitsFacts
<1>4. result = IF D > Context THEN Raised
               ELSE IF D - 1 - S + 1 > P - S /\ units # 0 THEN Rejected ELSE Value(units)
  BY DEF ToDecimal, Adjusted
<1>5. DecimalFits(n, P, S)
      <=> /\ result.kind = "raised" <=> TooBig(n, Context, S)
          /\ result.kind = "rejected" => TooBig(n, P, S)
          /\ result.kind = "value" => /\ Abs(result.value) < Ten[P]
                                       /\ 2 * Abs(result.value * unit - n) <= unit
  BY DEF DecimalFits
<1>6. ASSUME NEW E \in Nat
      PROVE  /\ Abs(units) >= Ten[E] => TooBig(n, E, S)
             /\ E # 0 /\ TooBig(n, E, S) => Abs(units) >= Ten[E]
  <2>1. unit = Ten[Fraction - S]
    OBVIOUS
  <2> HIDE DEF unit, units
  <2>2. QED
    BY <1>1, <1>2, <2>1, TooBigFacts
<1> HIDE DEF unit, units, D, result
<1>7. ASSUME NEW E \in Nat
      PROVE  (units # 0 /\ D > E => Abs(units) >= Ten[E]) /\ (D <= E => Abs(units) < Ten[E])
  <2>1. \A a, b \in Nat : a <= b => Ten[a] <= Ten[b]
    BY TenFacts
  <2>2. Ten[E] \in Nat /\ Ten[D] \in Nat /\ Ten[D - 1] \in Nat
    <3>1. D \in Nat /\ D - 1 \in Nat
      BY <1>3
    <3>2. QED
      BY <3>1, TenFacts
  <2>3. ASSUME units # 0, D > E PROVE Abs(units) >= Ten[E]
    <3>1. D - 1 \in Nat /\ E <= D - 1
      BY <1>3, <2>3
    <3>2. Ten[E] <= Ten[D - 1]
      BY <2>1, <3>1
    <3>3. QED
      BY <1>3, <2>2, <2>3, <3>2
  <2>4. ASSUME D <= E PROVE Abs(units) < Ten[E]
    <3>1. Ten[D] <= Ten[E]
      BY <1>3, <2>1, <2>4
    <3>2. QED
      BY <1>3, <2>2, <3>1
  <2>5. QED
    BY <2>3, <2>4
<1>8. D > Context <=> TooBig(n, Context, S)
  <2>1. Context \in Nat /\ Context # 0
    BY CoercionAssumption
  <2>2. D > Context => units # 0
    BY <1>3, <2>1
  <2>3. Ten[Context] \in Nat
    BY <2>1, TenFacts
  <2>4. D > Context \/ D <= Context
    BY <1>3, <2>1
  <2>5. QED
    BY <1>3, <1>6, <1>7, <2>1, <2>2, <2>3, <2>4
<1>9. D - 1 - S + 1 > P - S <=> D > P
  BY <1>1, <1>3
<1>10. CASE D > Context
  <2>1. result.kind = "raised"
    BY <1>4, <1>10 DEF Raised
  <2>2. QED
    BY <1>5, <1>8, <1>10, <2>1
<1>11. CASE ~(D > Context) /\ D > P /\ units # 0
  <2>1. result.kind = "rejected"
    BY <1>4, <1>9, <1>11 DEF Rejected
  <2>2. TooBig(n, P, S)
    BY <1>6, <1>7, <1>11
  <2>3. QED
    BY <1>5, <1>8, <1>11, <2>1, <2>2
<1>12. CASE ~(D > Context) /\ ~(D > P /\ units # 0)
  <2>1. result.kind = "value" /\ result.value = units
    BY <1>4, <1>9, <1>12 DEF Value
  <2>2. Abs(units) < Ten[P]
    <3>1. CASE units = 0
      <4>1. Ten[P] \in Nat \ {0}
        BY TenFacts
      <4>2. QED
        BY <3>1, <4>1 DEF Abs
    <3>2. CASE D <= P
      BY <1>7, <3>2
    <3>3. QED
      BY <1>3, <1>12, <3>1, <3>2
  <2>3. QED
    BY <1>2, <1>5, <1>8, <1>12, <2>1, <2>2
<1>13. QED
  BY <1>10, <1>11, <1>12

(* coercion.py: a Date column takes exactly the days that ClickHouse keeps in its 16     *)
(* bits; the day before and the day after them are rejected.                             *)
THEOREM DatesAreKept ==
    ASSUME NEW day \in Int
    PROVE  DateFits(day)
<1>1. DateMin = 0 /\ DateMax = 65535
  <2>1. DaysBefore[1] = 0 /\ DaysBefore[6] = 151
    BY DEF DaysBefore
  <2>2. ~Leap(2149)
    BY DEF Leap
  <2>3. DaysBeforeYear(1970) = 719162 /\ DaysBeforeYear(2149) = 784541
    BY DEF DaysBeforeYear
  <2>4. QED
    BY <2>1, <2>2, <2>3 DEF DateMin, DateMax, Day
<1>2. Two[16] = 65536
  <2>1. Two[4] = 16
    <3>1. Two[0 + 1] = 2 * Two[0] /\ Two[1 + 1] = 2 * Two[1]
          /\ Two[2 + 1] = 2 * Two[2] /\ Two[3 + 1] = 2 * Two[3]
      BY TwoFacts
    <3>2. QED
      BY <3>1, TwoFacts
  <2>2. Two[8] = 256
    <3>1. Two[4 + 1] = 2 * Two[4] /\ Two[5 + 1] = 2 * Two[5]
          /\ Two[6 + 1] = 2 * Two[6] /\ Two[7 + 1] = 2 * Two[7]
      BY TwoFacts
    <3>2. QED
      BY <2>1, <3>1
  <2>3. Two[12] = 4096
    <3>1. Two[8 + 1] = 2 * Two[8] /\ Two[9 + 1] = 2 * Two[9]
          /\ Two[10 + 1] = 2 * Two[10] /\ Two[11 + 1] = 2 * Two[11]
      BY TwoFacts
    <3>2. QED
      BY <2>2, <3>1
  <2>4. QED
    <3>1. Two[12 + 1] = 2 * Two[12] /\ Two[13 + 1] = 2 * Two[13]
          /\ Two[14 + 1] = 2 * Two[14] /\ Two[15 + 1] = 2 * Two[15]
      BY TwoFacts
    <3>2. QED
      BY <2>3, <3>1
<1>3. PICK M \in Nat \ {0} : M = 65536
  OBVIOUS
<1>4. ToDate(day, FALSE).kind = "value" <=> day \in 0..(M - 1)
  <2>1. DateRange(FALSE) = 0..(M - 1)
    BY <1>1, <1>3 DEF DateRange
  <2>2. ToDate(day, FALSE).kind = "value" <=> day \in DateRange(FALSE)
    BY DEF ToDate, Value, Rejected
  <2>3. QED
    BY <2>1, <2>2
<1>5. Stored(day, 16, FALSE) = day % M
  BY <1>2, <1>3 DEF Stored
<1>6. day % M = day <=> day \in 0..(M - 1)
  <2>1. day % M \in 0..(M - 1)
    OBVIOUS
  <2>2. day \in 0..(M - 1) => day \in -M..M /\ day # M /\ ~(day < 0)
    OBVIOUS
  <2>3. QED
    BY <2>1, <2>2, Remainders
<1>7. QED
  BY <1>4, <1>5, <1>6 DEF DateFits

-----------------------------------------------------------------------------
(* A list of the members of a finite set, each of them once. *)
Lists(order, S) ==
    /\ Cardinality(S) \in Nat
    /\ order \in [1..Cardinality(S) -> S] /\ Len(order) = Cardinality(S)
    /\ \A i, j \in 1..Cardinality(S) : order[i] = order[j] => i = j
    /\ \A p \in S : \E i \in 1..Cardinality(S) : order[i] = p

(* The first n members of a sequence of numbers ascend. *)
Ascends(order, n) == \A i, j \in 1..n : i < j => order[i] < order[j]

(* An ascending list of all members of a set. *)
Enumerates(f, c, S) ==
    c \in Nat /\ f \in [1..c -> S] /\ Ascends(f, c) /\ \A p \in S : \E i \in 1..c : f[i] = p

(* The positions in a set, in order: each of them once. *)
LEMMA InOrderFacts ==
    ASSUME NEW n \in Nat, NEW S \in SUBSET (1..n)
    PROVE  Lists(InOrder(S), S) /\ Ascends(InOrder(S), Cardinality(S))
<1> DEFINE order == InOrder(S)
           c == Cardinality(S)
<1>1. S \in SUBSET (1..n) /\ \A p \in S : p \in Nat
  <2>1. \A p \in 1..n : p \in Nat
    OBVIOUS
  <2>2. QED
    BY <2>1
<1>2. IsFiniteSet(S) /\ c \in Nat
  <2>1. 1 \in Int /\ n \in Int
    OBVIOUS
  <2>2. IsFiniteSet(1..n)
    BY <2>1, FS_Interval
  <2>3. QED
    BY <1>1, <2>2, FS_Subset, FS_CardinalityType
<1>3. order = CHOOSE f \in [1..c -> S] : \A i, j \in DOMAIN f : i < j => f[i] < f[j]
  BY DEF InOrder
<1> HIDE DEF order, c
<1>4. \E f \in [1..c -> S] : \A i, j \in 1..c : i < j => f[i] < f[j]
  BY <1>1, Increasing DEF c
<1>5. order \in [1..c -> S] /\ \A i, j \in 1..c : i < j => order[i] < order[j]
  <2>1. \E f \in [1..c -> S] : \A i, j \in DOMAIN f : i < j => f[i] < f[j]
    BY <1>4
  <2>2. QED
    BY <1>3, <2>1
<1>6. \A i, j \in 1..c : order[i] = order[j] => i = j
  <2>1. ASSUME NEW i \in 1..c, NEW j \in 1..c, order[i] = order[j], i # j PROVE FALSE
    <3>1. order[i] \in Nat /\ order[j] \in Nat
      <4>1. order[i] \in S /\ order[j] \in S
        BY <1>5
      <4>2. QED
        BY <1>1, <4>1
    <3>2. i < j \/ j < i
      BY <1>2, <2>1
    <3>3. QED
      BY <1>5, <2>1, <3>1, <3>2
  <2>2. QED
    BY <2>1
<1>7. \A p \in S : \E i \in 1..c : order[i] = p
  <2>1. order \in Injection(1..c, S)
    BY <1>5, <1>6 DEF Injection, IsInjective
  <2>2. IsFiniteSet(1..c) /\ Cardinality(1..c) = c
    BY <1>2, FS_Interval
  <2>3. order \in Surjection(1..c, S)
    BY <1>2, <2>1, <2>2, FS_Injection DEF c
  <2>4. QED
    BY <2>3 DEF Surjection
<1>8. order \in Seq(S) /\ Len(order) = c
  <2>1. order \in Seq(S)
    BY <1>2, <1>5, SeqDef
  <2>2. Len(order) \in Nat /\ DOMAIN order = 1..Len(order)
    BY <2>1, LenProperties
  <2>3. 1..c = 1..Len(order)
    BY <1>5, <2>2
  <2>4. Len(order) = c
    <3>1. \A a, b \in Nat : 1..a = 1..b => a = b
      OBVIOUS
    <3>2. QED
      BY <1>2, <2>2, <2>3, <3>1
  <2>5. QED
    BY <2>1, <2>4
<1>9. QED
  BY <1>2, <1>5, <1>6, <1>7, <1>8 DEF Lists, Ascends, order, c

(* There is only one way to put the positions in order. *)
LEMMA OneOrder ==
    ASSUME NEW n \in Nat, NEW S \in SUBSET (1..n), NEW c, NEW f, Enumerates(f, c, S)
    PROVE  c = Cardinality(S) /\ f = InOrder(S)
<1> DEFINE g == InOrder(S)
<1> USE DEF Enumerates
<1>1. \A p \in S : p \in Nat
  <2>1. \A p \in 1..n : p \in Nat
    OBVIOUS
  <2>2. QED
    BY <2>1
<1>2. Cardinality(S) = c
  <2>1. \A i, j \in 1..c : f[i] = f[j] => i = j
    <3>1. ASSUME NEW i \in 1..c, NEW j \in 1..c, f[i] = f[j], i # j PROVE FALSE
      <4>1. f[i] \in S /\ f[j] \in S /\ (i < j \/ j < i)
        BY <3>1
      <4>2. f[i] \in Nat /\ f[j] \in Nat
        BY <1>1, <4>1
      <4>3. f[i] < f[j] \/ f[j] < f[i]
        BY <4>1 DEF Ascends
      <4>4. QED
        BY <3>1, <4>2, <4>3
    <3>2. QED
      BY <3>1
  <2>2. f \in Bijection(1..c, S)
    BY <2>1 DEF Bijection, Injection, Surjection, IsInjective
  <2>3. QED
    BY <2>2, FS_CountingElements DEF ExistsBijection
<1>3. /\ g \in [1..c -> S] /\ Ascends(g, c) /\ \A p \in S : \E i \in 1..c : g[i] = p
  BY <1>2, InOrderFacts DEF Lists
<1> HIDE DEF g
<1> DEFINE Differ == {i \in 1..c : f[i] # g[i]}
<1>4. ASSUME Differ # {} PROVE FALSE
  <2>1. PICK m \in Differ : \A q \in Differ : m <= q
    <3>1. Differ \in SUBSET (1..c)
      OBVIOUS
    <3> HIDE DEF Differ
    <3>2. QED
      BY <1>4, <3>1, Least
  <2>2. \A q \in 1..c : q < m => f[q] = g[q]
    BY <2>1
  <2>3. m \in 1..c /\ f[m] # g[m] /\ f[m] \in S /\ g[m] \in S
    BY <1>3, <2>1
  <2>4. f[m] \in Nat /\ g[m] \in Nat
    BY <1>1, <2>3
  <2>5. CASE f[m] < g[m]
    <3>1. PICK i \in 1..c : g[i] = f[m]
      BY <1>3, <2>3
    <3>2. i < m \/ i = m \/ m < i
      BY <2>3
    <3>3. ~(m < i)
      BY <1>3, <2>3, <2>4, <2>5, <3>1 DEF Ascends
    <3>4. i < m => f[i] < f[m] /\ f[i] = f[m]
      BY <2>2, <2>3, <3>1 DEF Ascends
    <3>5. QED
      BY <2>3, <2>4, <3>1, <3>2, <3>3, <3>4
  <2>6. CASE g[m] < f[m]
    <3>1. PICK i \in 1..c : f[i] = g[m]
      BY <2>3
    <3>2. i < m \/ i = m \/ m < i
      BY <2>3
    <3>3. ~(m < i)
      BY <2>3, <2>4, <2>6, <3>1 DEF Ascends
    <3>4. i < m => g[i] < g[m] /\ g[i] = g[m]
      BY <1>3, <2>2, <2>3, <3>1 DEF Ascends
    <3>5. QED
      BY <2>3, <2>4, <3>1, <3>2, <3>3, <3>4
  <2>7. QED
    BY <2>3, <2>4, <2>5, <2>6
<1>5. f = g
  BY <1>3, <1>4
<1>6. QED
  BY <1>2, <1>5 DEF g

(* A function on the numbers up to n is a sequence of that length. *)
LEMMA LenFacts ==
    ASSUME NEW n \in Nat, NEW T, NEW s \in [1..n -> T]
    PROVE  s \in Seq(T) /\ Len(s) = n
<1>1. s \in Seq(T)
  BY SeqDef
<1>2. Len(s) \in Nat /\ DOMAIN s = 1..Len(s)
  BY <1>1, LenProperties
<1>3. 1..n = 1..Len(s)
  BY <1>2
<1>4. \A a, b \in Nat : 1..a = 1..b => a = b
  OBVIOUS
<1>5. QED
  BY <1>1, <1>2, <1>3, <1>4

(* What is selected is a sequence, of as many members as there are positions. *)
Selects(s, S, T, c, f) ==
    /\ c \in Nat /\ f \in [1..c -> S] /\ Ascends(f, c)
    /\ \A p \in S : \E i \in 1..c : f[i] = p
    /\ \A i, j \in 1..c : f[i] = f[j] => i = j
    /\ Selected(s, S) = [i \in 1..c |-> s[f[i]]] /\ Selected(s, S) \in [1..c -> T]
    /\ Selected(s, S) \in Seq(T) /\ Len(Selected(s, S)) = c

(* It is what the positions in order select. *)
LEMMA SelectedFacts ==
    ASSUME NEW n \in Nat, NEW T, NEW s \in [1..n -> T], NEW S \in SUBSET (1..n)
    PROVE  Selects(s, S, T, Cardinality(S), InOrder(S))
<1> DEFINE c == Cardinality(S)
           f == InOrder(S)
<1>1. /\ c \in Nat /\ f \in [1..c -> S] /\ Ascends(f, c)
      /\ \A i, j \in 1..c : f[i] = f[j] => i = j
      /\ \A p \in S : \E i \in 1..c : f[i] = p
  BY InOrderFacts DEF Lists
<1>2. Selected(s, S) = [i \in 1..c |-> s[f[i]]]
  BY DEF Selected
<1> HIDE DEF c, f
<1>3. Selected(s, S) \in [1..c -> T]
  <2>1. \A i \in 1..c : f[i] \in 1..n
    BY <1>1
  <2>2. QED
    BY <1>2, <2>1
<1>4. Selected(s, S) \in Seq(T) /\ Len(Selected(s, S)) = c
  BY <1>1, <1>3, LenFacts
<1>5. QED
  BY <1>1, <1>2, <1>3, <1>4 DEF Selects, c, f

(* What a function makes of the members of a set. *)
Picked(f, K) == {f[i] : i \in K}

(* Selecting twice is selecting once, from the positions selected first. *)
LEMMA SelectedTwice ==
    ASSUME NEW n \in Nat, NEW T, NEW s \in [1..n -> T], NEW A \in SUBSET (1..n),
           NEW K \in SUBSET (1..Cardinality(A))
    PROVE  Selected(Selected(s, A), K) = Selected(s, Picked(InOrder(A), K))
<1> DEFINE a == Cardinality(A)
           f == InOrder(A)
           k == Cardinality(K)
           g == InOrder(K)
           h == [i \in 1..k |-> f[g[i]]]
           both == Picked(f, K)
<1>1. Selects(s, A, T, a, f)
  BY SelectedFacts
<1>2. both = {f[i] : i \in K} /\ K \in SUBSET (1..a)
  BY DEF Picked
<1>3. both = Picked(InOrder(A), K)
  OBVIOUS
<1> HIDE DEF a, f, both
<1>4. Selects(Selected(s, A), K, T, k, g)
  <2>1. a \in Nat /\ Selected(s, A) \in [1..a -> T]
    BY <1>1 DEF Selects
  <2>2. QED
    BY <1>2, <2>1, SelectedFacts
<1> HIDE DEF k, g
<1>5. \A i \in 1..k : g[i] \in K /\ g[i] \in 1..a
  BY <1>2, <1>4 DEF Selects
<1>6. both \in SUBSET A /\ h \in [1..k -> both]
  <2>1. \A i \in 1..a : f[i] \in A
    BY <1>1 DEF Selects
  <2>2. both \subseteq A
    BY <1>2, <2>1
  <2>3. \A i \in 1..k : f[g[i]] \in both
    BY <1>2, <1>5
  <2>4. QED
    BY <2>2, <2>3
<1>7. Ascends(h, k)
  BY <1>1, <1>4, <1>5 DEF Ascends, Selects
<1>8. \A p \in both : \E i \in 1..k : h[i] = p
  <2>1. \A q \in K : \E i \in 1..k : g[i] = q
    BY <1>4 DEF Selects
  <2>2. ASSUME NEW p \in both PROVE \E i \in 1..k : h[i] = p
    <3>1. PICK q \in K : p = f[q]
      BY <1>2
    <3>2. PICK i \in 1..k : g[i] = q
      BY <2>1
    <3>3. h[i] = p
      BY <3>1, <3>2
    <3>4. QED
      BY <3>3
  <2>3. QED
    BY <2>2
<1>9. \A i \in 1..k : Selected(s, A)[g[i]] = s[h[i]]
  BY <1>1, <1>5 DEF Selects
<1> HIDE DEF h
<1>10. Selected(s, both) = [i \in 1..k |-> s[h[i]]]
  <2>1. k \in Nat /\ both \in SUBSET (1..n)
    BY <1>4, <1>6 DEF Selects
  <2>2. Enumerates(h, k, both)
    BY <1>6, <1>7, <1>8, <2>1 DEF Enumerates
  <2>3. k = Cardinality(both) /\ h = InOrder(both)
    BY <2>1, <2>2, OneOrder
  <2>4. QED
    BY <2>3 DEF Selected
<1>11. QED
  <2>1. Selected(Selected(s, A), K) = [i \in 1..k |-> Selected(s, A)[g[i]]]
    BY <1>4 DEF Selects
  <2>2. QED
    BY <1>3, <1>9, <1>10, <2>1

(* An increasing list from both sides: the first and the last of a set. *)
LEMMA Greatest ==
    ASSUME NEW n \in Nat, NEW S \in SUBSET (1..n), S # {}
    PROVE  \E m \in S : \A q \in S : q <= m
<1> DEFINE Back == {n + 1 - q : q \in S}
<1>1. \A q \in S : q \in 1..n /\ q \in Nat /\ n + 1 - q \in 1..n
  <2>1. \A q \in 1..n : q \in Nat /\ n + 1 - q \in 1..n
    OBVIOUS
  <2>2. QED
    BY <2>1
<1>2. Back \in SUBSET (1..n) /\ Back # {}
  BY <1>1
<1>3. PICK b \in Back : \A q \in Back : b <= q
  <2> HIDE DEF Back
  <2>1. QED
    BY <1>2, Least
<1>4. PICK m \in S : b = n + 1 - m
  BY <1>3
<1>5. ASSUME NEW q \in S PROVE q <= m
  <2>1. n + 1 - m <= n + 1 - q
    BY <1>3, <1>4
  <2>2. QED
    BY <1>1, <2>1
<1>6. QED
  BY <1>5

-----------------------------------------------------------------------------
(* The positions of the rows that both cleaning steps leave, if the rows are filtered first. *)
FilteredFirst(rows, subset, keep, exclude) ==
    {i \in DOMAIN rows :
        /\ ~Excluded(rows[i], exclude)
        /\ ~\E j \in DOMAIN rows :
              /\ ~Excluded(rows[j], exclude)
              /\ IF keep = "first" THEN j < i ELSE j > i
              /\ Alike(rows[i], rows[j], subset)}

(* Filtering and then dropping duplicates leaves those. *)
LEMMA FilteredThenDropped ==
    ASSUME NEW n \in Nat, NEW T, NEW rows \in [1..n -> T], NEW subset, NEW keep, NEW exclude
    PROVE  DropDuplicates(FilterRows(rows, exclude), subset, keep)
             = Selected(rows, FilteredFirst(rows, subset, keep, exclude))
<1> DEFINE A == {i \in DOMAIN rows : ~Excluded(rows[i], exclude)}
           c == Cardinality(A)
           f == InOrder(A)
           filtered == FilterRows(rows, exclude)
           K == Kept(filtered, subset, keep)
           left == FilteredFirst(rows, subset, keep, exclude)
<1>1. A \in SUBSET (1..n) /\ filtered = Selected(rows, A)
  BY DEF FilterRows
<1>2. \A i \in 1..n : i \in A <=> ~Excluded(rows[i], exclude)
  OBVIOUS
<1> HIDE DEF A, filtered
<1>3. Selects(rows, A, T, c, f)
  BY <1>1, SelectedFacts
<1>4. /\ c \in Nat /\ f \in [1..c -> A] /\ \A i, j \in 1..c : i < j => f[i] < f[j]
      /\ \A i \in 1..c : f[i] \in 1..n /\ f[i] \in Nat /\ filtered[i] = rows[f[i]]
      /\ \A p \in A : \E i \in 1..c : f[i] = p
      /\ DOMAIN filtered = 1..c
  <2>1. \A p \in 1..n : p \in Nat
    OBVIOUS
  <2>2. QED
    BY <1>1, <1>3, <2>1 DEF Selects, Ascends
<1>5. c = Cardinality(A) /\ f = InOrder(A)
  OBVIOUS
<1> HIDE DEF c, f
<1>6. \A i, j \in 1..c : i < j <=> f[i] < f[j]
  <2>1. ASSUME NEW i \in 1..c, NEW j \in 1..c, f[i] < f[j], ~(i < j) PROVE FALSE
    <3>1. i = j \/ j < i
      BY <1>4, <2>1
    <3>2. f[i] \in Nat /\ f[j] \in Nat /\ (j < i => f[j] < f[i])
      BY <1>4
    <3>3. QED
      BY <2>1, <3>1, <3>2
  <2>2. QED
    BY <1>4, <2>1
<1>7. ASSUME NEW i \in 1..c
      PROVE  i \in K <=> f[i] \in left
  <2> DEFINE Before(x, y) == IF keep = "first" THEN x < y ELSE x > y
  <2>1. i \in K <=> ~\E j \in 1..c : Before(j, i) /\ Alike(filtered[i], filtered[j], subset)
    BY <1>4 DEF Kept
  <2>2. f[i] \in left <=> ~\E p \in 1..n : /\ ~Excluded(rows[p], exclude) /\ Before(p, f[i])
                                           /\ Alike(rows[f[i]], rows[p], subset)
    BY <1>2, <1>4 DEF FilteredFirst
  <2>3. \A j \in 1..c : Before(j, i) <=> Before(f[j], f[i])
    <3>1. \A j \in 1..c : j > i <=> i < j
      BY <1>4
    <3>2. \A j \in 1..c : f[j] > f[i] <=> f[i] < f[j]
      BY <1>4
    <3>3. QED
      BY <1>6, <3>1, <3>2
  <2> HIDE DEF Before
  <2>4. (\E j \in 1..c : Before(j, i) /\ Alike(filtered[i], filtered[j], subset))
        <=> \E p \in 1..n : /\ ~Excluded(rows[p], exclude) /\ Before(p, f[i])
                            /\ Alike(rows[f[i]], rows[p], subset)
    <3>1. ASSUME NEW j \in 1..c, Before(j, i), Alike(filtered[i], filtered[j], subset)
          PROVE  /\ f[j] \in 1..n /\ ~Excluded(rows[f[j]], exclude) /\ Before(f[j], f[i])
                 /\ Alike(rows[f[i]], rows[f[j]], subset)
      BY <1>2, <1>4, <2>3, <3>1
    <3>2. ASSUME NEW p \in 1..n, ~Excluded(rows[p], exclude), Before(p, f[i]),
                 Alike(rows[f[i]], rows[p], subset)
          PROVE  \E j \in 1..c : Before(j, i) /\ Alike(filtered[i], filtered[j], subset)
      <4>1. PICK j \in 1..c : f[j] = p
        BY <1>2, <1>4, <3>2
      <4>2. Before(j, i) /\ Alike(filtered[i], filtered[j], subset)
        BY <1>4, <2>3, <3>2, <4>1
      <4>3. QED
        BY <4>2
    <3>3. QED
      BY <3>1, <3>2
  <2>5. QED
    BY <2>1, <2>2, <2>4
<1>8. K \in SUBSET (1..c)
  BY <1>4 DEF Kept
<1>9. left \subseteq A
  BY <1>1, <1>2 DEF FilteredFirst
<1> HIDE DEF K, left
<1>10. Picked(f, K) = left
  <2>1. ASSUME NEW p \in left PROVE \E i \in K : f[i] = p
    <3>1. PICK i \in 1..c : f[i] = p
      BY <1>4, <1>9
    <3>2. QED
      BY <1>7, <3>1
  <2>2. ASSUME NEW i \in K PROVE f[i] \in left
    BY <1>7, <1>8
  <2>3. QED
    BY <2>1, <2>2 DEF Picked
<1>11. Selected(filtered, K) = Selected(rows, Picked(f, K))
  BY <1>1, <1>5, <1>8, SelectedTwice
<1>12. QED
  BY <1>10, <1>11 DEF DropDuplicates, K, left, filtered

(* Those that are left if duplicates are dropped first. *)
DroppedFirst(rows, subset, keep, exclude) ==
    {i \in Kept(rows, subset, keep) : ~Excluded(rows[i], exclude)}

(* Dropping duplicates and then filtering leaves those. *)
LEMMA DroppedThenFiltered ==
    ASSUME NEW n \in Nat, NEW T, NEW rows \in [1..n -> T], NEW subset, NEW keep, NEW exclude
    PROVE  FilterRows(DropDuplicates(rows, subset, keep), exclude)
             = Selected(rows, DroppedFirst(rows, subset, keep, exclude))
<1> DEFINE A == Kept(rows, subset, keep)
           c == Cardinality(A)
           f == InOrder(A)
           dropped == DropDuplicates(rows, subset, keep)
           K == {i \in DOMAIN dropped : ~Excluded(dropped[i], exclude)}
           left == DroppedFirst(rows, subset, keep, exclude)
<1>1. A \in SUBSET (1..n) /\ dropped = Selected(rows, A)
  BY DEF DropDuplicates, Kept
<1>2. \A i : i \in left <=> i \in A /\ ~Excluded(rows[i], exclude)
  BY DEF DroppedFirst
<1> HIDE DEF A, dropped
<1>3. Selects(rows, A, T, c, f)
  BY <1>1, SelectedFacts
<1>4. /\ \A i \in 1..c : f[i] \in A /\ dropped[i] = rows[f[i]]
      /\ \A p \in A : \E i \in 1..c : f[i] = p
      /\ DOMAIN dropped = 1..c
  BY <1>1, <1>3 DEF Selects
<1>5. c = Cardinality(A) /\ f = InOrder(A)
  OBVIOUS
<1> HIDE DEF c, f
<1>6. K \in SUBSET (1..c) /\ \A i \in 1..c : i \in K <=> f[i] \in left
  BY <1>2, <1>4
<1> HIDE DEF K, left
<1>7. Picked(f, K) = left
  <2>1. ASSUME NEW p \in left PROVE \E i \in K : f[i] = p
    <3>1. PICK i \in 1..c : f[i] = p
      BY <1>2, <1>4
    <3>2. QED
      BY <1>6, <3>1
  <2>2. ASSUME NEW i \in K PROVE f[i] \in left
    BY <1>6
  <2>3. QED
    BY <2>1, <2>2 DEF Picked
<1>8. Selected(dropped, K) = Selected(rows, Picked(f, K))
  BY <1>1, <1>5, <1>6, SelectedTwice
<1>9. QED
  BY <1>7, <1>8 DEF FilterRows, K, left, dropped

(* transforms.py: whatever the rows, dropping summary rows and dropping duplicates can   *)
(* be swapped if the summary is told by the columns compared, and each row that is no    *)
(* summary is left with exactly one of its duplicates.                                   *)
THEOREM CleaningStepsCommute ==
    ASSUME NEW n \in Nat, NEW T, NEW rows \in [1..n -> T], NEW subset, NEW keep, NEW exclude
    PROVE  CleaningCommutes(rows, subset, keep, exclude)
<1> DEFINE filtered == DropDuplicates(FilterRows(rows, exclude), subset, keep)
           dropped  == FilterRows(DropDuplicates(rows, subset, keep), exclude)
           F == FilteredFirst(rows, subset, keep, exclude)
           D == DroppedFirst(rows, subset, keep, exclude)
           Before(x, y) == IF keep = "first" THEN x < y ELSE x > y
           Like(x, y) == Alike(rows[x], rows[y], subset)
           Out(x) == Excluded(rows[x], exclude)
<1>1. filtered = Selected(rows, F) /\ dropped = Selected(rows, D)
  BY FilteredThenDropped, DroppedThenFiltered
<1>2. /\ F \in SUBSET (1..n) /\ D \in SUBSET (1..n)
      /\ \A i \in 1..n : i \in F <=> ~Out(i) /\ ~\E j \in 1..n : ~Out(j) /\ Before(j, i) /\ Like(i, j)
      /\ \A i \in 1..n : i \in D <=> ~Out(i) /\ ~\E j \in 1..n : Before(j, i) /\ Like(i, j)
  BY DEF FilteredFirst, DroppedFirst, Kept
<1>3. \A x, y, z \in 1..n : /\ Like(x, x) /\ (Like(x, y) => Like(y, x))
                            /\ (Like(x, y) /\ Like(y, z) => Like(x, z))
  BY DEF Alike
<1>4. \A x, y \in 1..n : x = y \/ Before(x, y) \/ Before(y, x)
  OBVIOUS
<1>5. DOMAIN exclude \subseteq subset => \A x, y \in 1..n : Like(x, y) => (Out(x) <=> Out(y))
  BY DEF Alike, Excluded
<1>6. ASSUME NEW S \in SUBSET (1..n), S # {}
      PROVE  \E m \in S : \A q \in S : ~Before(q, m)
  <2>1. \A q \in 1..n : q \in Nat
    OBVIOUS
  <2>2. CASE keep = "first"
    <3>1. PICK m \in S : \A q \in S : m <= q
      BY <1>6, Least
    <3>2. QED
      BY <2>1, <2>2, <3>1
  <2>3. CASE keep # "first"
    <3>1. PICK m \in S : \A q \in S : q <= m
      BY <1>6, Greatest
    <3>2. QED
      BY <2>1, <2>3, <3>1
  <2>4. QED
    BY <2>2, <2>3
<1> HIDE DEF filtered, dropped, F, D, Before, Like, Out
<1>7. DOMAIN exclude \subseteq subset => filtered = dropped
  <2>1. ASSUME DOMAIN exclude \subseteq subset, NEW i \in 1..n
        PROVE  i \in F <=> i \in D
    BY <1>2, <1>5, <2>1
  <2>2. DOMAIN exclude \subseteq subset => F = D
    BY <1>2, <2>1
  <2>3. QED
    BY <1>1, <2>2
<1> DEFINE c == Cardinality(F)
           f == InOrder(F)
<1>8. Selects(rows, F, T, c, f)
  BY <1>2, SelectedFacts
<1> HIDE DEF c, f
<1>9. /\ \A k \in 1..c : f[k] \in F /\ filtered[k] = rows[f[k]]
      /\ \A p \in F : \E k \in 1..c : f[k] = p
      /\ \A j, k \in 1..c : f[j] = f[k] => j = k
      /\ DOMAIN filtered = 1..c
  BY <1>1, <1>8 DEF Selects
<1>10. ASSUME NEW i \in 1..n, ~Out(i)
       PROVE  Cardinality({j \in DOMAIN filtered : Alike(filtered[j], rows[i], subset)}) = 1
  <2> DEFINE S == {p \in 1..n : ~Out(p) /\ Like(p, i)}
  <2>1. PICK m \in S : \A q \in S : ~Before(q, m)
    <3>1. i \in S
      BY <1>3, <1>10
    <3>2. S \in SUBSET (1..n) /\ S # {}
      BY <3>1
    <3> HIDE DEF S
    <3>3. QED
      BY <1>6, <3>2
  <2>2. m \in F
    <3>1. \A j \in 1..n : ~Out(j) /\ Like(m, j) => j \in S
      BY <1>3
    <3>2. QED
      BY <1>2, <2>1, <3>1
  <2>3. PICK k \in 1..c : f[k] = m
    BY <1>9, <2>2
  <2>4. ASSUME NEW j \in 1..c, Like(f[j], i) PROVE j = k
    <3>1. /\ f[j] \in 1..n /\ m \in 1..n /\ ~Out(f[j]) /\ ~Out(m) /\ f[j] \in F
          /\ Like(f[j], m) /\ Like(m, f[j])
      <4>1. f[j] \in F /\ f[j] \in 1..n /\ m \in 1..n
        BY <1>2, <1>9
      <4>2. QED
        BY <1>2, <1>3, <2>1, <2>4, <4>1
    <3>2. ~Before(m, f[j]) /\ ~Before(f[j], m)
      BY <1>2, <2>2, <3>1
    <3>3. f[j] = m
      BY <1>4, <3>1, <3>2
    <3>4. QED
      BY <1>9, <2>3, <3>3
  <2>5. \A j \in 1..c : Alike(filtered[j], rows[i], subset) <=> Like(f[j], i)
    BY <1>9 DEF Like
  <2>6. Like(f[k], i)
    BY <2>1, <2>3
  <2>7. {j \in DOMAIN filtered : Alike(filtered[j], rows[i], subset)} = {k}
    BY <1>9, <2>4, <2>5, <2>6
  <2>8. QED
    BY <2>7, FS_Singleton
<1>11. QED
  BY <1>7, <1>10 DEF CleaningCommutes, Excluded, Out, filtered, dropped

-----------------------------------------------------------------------------
(* A frame has as many column names as columns exactly if no two columns share one. *)
LEMMA NamesFacts ==
    ASSUME NEW n \in Nat, NEW frame, DOMAIN frame = 1..n
    PROVE  /\ IsFiniteSet(ColumnNames(frame)) /\ Cardinality(ColumnNames(frame)) \in Nat
           /\ Cardinality(ColumnNames(frame)) <= n
           /\ Cardinality(ColumnNames(frame)) = n
                <=> \A i, j \in 1..n : frame[i].name = frame[j].name => i = j
<1> DEFINE N == ColumnNames(frame)
           names == [i \in 1..n |-> frame[i].name]
<1>1. names \in Surjection(1..n, N)
  BY DEF Surjection, ColumnNames
<1>2. IsFiniteSet(1..n) /\ Cardinality(1..n) = n
  BY FS_Interval
<1> HIDE DEF N
<1>3. (\A i, j \in 1..n : frame[i].name = frame[j].name => i = j) <=> names \in Injection(1..n, N)
  BY <1>1 DEF Injection, Surjection, IsInjective
<1> HIDE DEF names
<1>4. IsFiniteSet(N) /\ Cardinality(N) <= n
  BY <1>1, <1>2, FS_Surjection
<1>5. Cardinality(N) \in Nat
  BY <1>4, FS_CardinalityType
<1>6. names \in Injection(1..n, N) => Cardinality(N) = n
  <2>1. names \in Injection(1..n, N) => n <= Cardinality(N)
    BY <1>2, <1>4, FS_Injection
  <2>2. QED
    BY <1>4, <1>5, <2>1
<1>7. Cardinality(N) = n => names \in Injection(1..n, N)
  BY <1>1, <1>2, FS_SurjSameCardinalityImpliesInj
<1>8. QED
  BY <1>3, <1>4, <1>5, <1>6, <1>7 DEF N

(* transforms.py: whatever the columns of a frame, normalising their names keeps their   *)
(* cells, gives no name twice and changes nothing the second time.                       *)
THEOREM NormalNamesStayApart ==
    ASSUME NEW n \in Nat, NEW frame \in [1..n -> NamedColumns],
           NEW normal, normal = NormalizeColumns(frame), normal # Refusal
    PROVE  /\ Cardinality(ColumnNames(normal)) = Len(frame)
           /\ NormalizeColumns(normal) = normal
           /\ \A i \in DOMAIN frame : normal[i].cells = frame[i].cells
<1> DEFINE out == [i \in 1..n |-> [frame[i] EXCEPT !.name = ToSnakeCase(@)]]
<1>1. /\ out \in [1..n -> {out[i] : i \in 1..n}]
      /\ \A i \in 1..n : /\ out[i].cells = frame[i].cells
                         /\ [out[i] EXCEPT !.name = ToSnakeCase(@)] = out[i]
  <2>1. ASSUME NEW i \in 1..n
        PROVE  /\ out[i].cells = frame[i].cells
               /\ [out[i] EXCEPT !.name = ToSnakeCase(@)] = out[i]
    <3>1. PICK w \in Seq(STRING), s \in STRING, c \in Nat :
              frame[i] = [name |-> [words |-> w, style |-> s], cells |-> c]
      BY DEF NamedColumns
    <3>2. out[i] = [name |-> [words |-> w, style |-> "snake"], cells |-> c]
      BY <3>1 DEF ToSnakeCase
    <3> HIDE DEF out
    <3>3. [out[i] EXCEPT !.name = ToSnakeCase(@)] = [name |-> [words |-> w, style |-> "snake"], cells |-> c]
      BY <3>2 DEF ToSnakeCase
    <3>4. QED
      BY <3>1, <3>2, <3>3
  <2>2. QED
    BY <2>1
<1>2. Len(frame) = n /\ Len(out) = n
  <2> HIDE DEF out
  <2>1. QED
    BY <1>1, LenFacts
<1>3. normal = out /\ ~(Cardinality(ColumnNames(out)) < n)
  BY <1>2 DEF NormalizeColumns
<1> HIDE DEF out
<1>4. Cardinality(ColumnNames(out)) = n
  BY <1>1, <1>3, NamesFacts
<1>5. [i \in DOMAIN out |-> [out[i] EXCEPT !.name = ToSnakeCase(@)]] = out
  BY <1>1
<1>6. NormalizeColumns(out) = out
  <2> DEFINE again == [i \in DOMAIN out |-> [out[i] EXCEPT !.name = ToSnakeCase(@)]]
  <2>1. NormalizeColumns(out)
        = IF Cardinality(ColumnNames(again)) < Len(again) THEN Refusal ELSE again
    BY DEF NormalizeColumns
  <2> HIDE DEF again
  <2>2. again = out /\ ~(n < n)
    BY <1>5 DEF again
  <2>3. QED
    BY <1>2, <1>4, <2>1, <2>2
<1>7. QED
  BY <1>1, <1>2, <1>3, <1>4, <1>6

(* transforms.py: all columns are renamed at once, so that two can trade names; if no    *)
(* new name lands on a column that stays, or on another, no name is there twice, undone  *)
(* renames give the frame back, and dropping the new names drops the same columns.       *)
THEOREM RenamesStayApart ==
    ASSUME NEW n \in Nat, NEW frame \in [1..n -> NamedColumns],
           Cardinality(ColumnNames(frame)) = Len(frame), NEW names,
           NEW renamed, renamed = RenameColumns(frame, names),
           renamed # Refusal, ~Overwrites(frame, names)
    PROVE  LET undone == [new \in Range(names) |-> CHOOSE old \in DOMAIN names : names[old] = new]
           IN  /\ Cardinality(ColumnNames(renamed)) = Len(frame)
               /\ RenameColumns(renamed, undone) = frame
               /\ DropColumns(renamed, Range(names)) = DropColumns(frame, DOMAIN names)
<1> DEFINE old == DOMAIN names
           undone == [new \in Range(names) |-> CHOOSE o \in old : names[o] = new]
           Renamed(i) == IF frame[i].name \in old
                         THEN [frame[i] EXCEPT !.name = names[@]] ELSE frame[i]
<1>1. Len(frame) = n
  BY LenFacts
<1>2. old \subseteq ColumnNames(frame) /\ renamed = [i \in 1..n |-> Renamed(i)]
  BY DEF RenameColumns
<1>3. \A i, j \in 1..n : frame[i].name = frame[j].name => i = j
  BY <1>1, NamesFacts
<1>4. \A o, p \in old : names[o] = names[p] => o = p
  <2>1. IsFiniteSet(ColumnNames(frame))
    BY NamesFacts
  <2>2. IsFiniteSet(old)
    BY <1>2, <2>1, FS_Subset
  <2> DEFINE map == [o \in old |-> names[o]]
  <2>3. map \in Surjection(old, Range(names))
    BY DEF Surjection, Range
  <2> HIDE DEF map, old
  <2>4. IsFiniteSet(Range(names)) /\ Cardinality(Range(names)) <= Cardinality(old)
    BY <2>2, <2>3, FS_Surjection
  <2>5. Cardinality(Range(names)) = Cardinality(old)
    <3>1. ~(Cardinality(Range(names)) < Cardinality(old))
      BY DEF Overwrites, old
    <3>2. Cardinality(Range(names)) \in Nat /\ Cardinality(old) \in Nat
      BY <2>2, <2>4, FS_CardinalityType
    <3>3. QED
      BY <2>4, <3>1, <3>2
  <2>6. map \in Injection(old, Range(names))
    BY <2>2, <2>3, <2>5, FS_SurjSameCardinalityImpliesInj
  <2>7. \A o, p \in old : map[o] = map[p] => o = p
    BY <2>6 DEF Injection, IsInjective
  <2>8. QED
    BY <2>7 DEF map
<1>5. \A i \in 1..n : frame[i].name \notin old => frame[i].name \notin Range(names)
  <2>1. \A i \in 1..n : frame[i].name \in ColumnNames(frame)
    BY DEF ColumnNames
  <2>2. \A o \in old : names[o] \notin ColumnNames(frame) \ old
    BY DEF Overwrites
  <2>3. QED
    BY <2>1, <2>2 DEF Range
<1>6. \A i \in 1..n : /\ frame[i] \in NamedColumns
                      /\ renamed[i] = [name |-> IF frame[i].name \in old THEN names[frame[i].name]
                                                ELSE frame[i].name,
                                       cells |-> frame[i].cells]
                      /\ renamed[i].name = IF frame[i].name \in old THEN names[frame[i].name]
                                           ELSE frame[i].name
  <2>1. ASSUME NEW i \in 1..n
        PROVE  /\ frame[i] = [name |-> frame[i].name, cells |-> frame[i].cells]
               /\ renamed[i] = [name |-> IF frame[i].name \in old THEN names[frame[i].name]
                                         ELSE frame[i].name,
                                cells |-> frame[i].cells]
    BY <1>2 DEF NamedColumns
  <2>2. QED
    BY <2>1
<1>7. \A o \in old : names[o] \in Range(names) /\ undone[names[o]] = o
  <2>1. \A o \in old : names[o] \in Range(names)
    BY DEF Range
  <2>2. ASSUME NEW o \in old PROVE (CHOOSE p \in old : names[p] = names[o]) = o
    BY <1>4
  <2>3. QED
    BY <2>1, <2>2
<1>8. DOMAIN renamed = 1..n /\ DOMAIN undone = Range(names)
  BY <1>2
<1> HIDE DEF old, undone, Renamed
<1>9. \A i \in 1..n : renamed[i].name \in Range(names) <=> frame[i].name \in old
  BY <1>5, <1>6, <1>7
<1>10. Cardinality(ColumnNames(renamed)) = n
  <2>1. ASSUME NEW i \in 1..n, NEW j \in 1..n, renamed[i].name = renamed[j].name
        PROVE  i = j
    <3>1. frame[i].name \in old <=> frame[j].name \in old
      BY <1>9, <2>1
    <3>2. CASE frame[i].name \in old
      <4>1. names[frame[i].name] = names[frame[j].name]
        BY <1>6, <2>1, <3>1, <3>2
      <4>2. QED
        BY <1>3, <1>4, <3>1, <3>2, <4>1
    <3>3. CASE frame[i].name \notin old
      <4>1. frame[i].name = frame[j].name
        BY <1>6, <2>1, <3>1, <3>3
      <4>2. QED
        BY <1>3, <4>1
    <3>4. QED
      BY <3>2, <3>3
  <2>2. QED
    BY <1>8, <2>1, NamesFacts
<1>11. RenameColumns(renamed, undone) = frame
  <2>1. Range(names) \subseteq ColumnNames(renamed)
    <3>1. ASSUME NEW o \in old PROVE \E i \in 1..n : renamed[i].name = names[o]
      <4>1. PICK i \in 1..n : frame[i].name = o
        BY <1>2 DEF ColumnNames
      <4>2. QED
        BY <1>6, <4>1
    <3>2. \A new \in Range(names) : \E o \in old : names[o] = new
      BY DEF Range, old
    <3>3. \A new \in Range(names) : \E i \in 1..n : renamed[i].name = new
      BY <3>1, <3>2
    <3>4. QED
      BY <1>8, <3>3 DEF ColumnNames
  <2>2. ASSUME NEW i \in 1..n
        PROVE  (IF renamed[i].name \in Range(names)
                THEN [renamed[i] EXCEPT !.name = undone[@]] ELSE renamed[i]) = frame[i]
    <3>1. frame[i] = [name |-> frame[i].name, cells |-> frame[i].cells]
      BY DEF NamedColumns
    <3>2. CASE frame[i].name \in old
      <4>1. /\ renamed[i].name \in Range(names)
            /\ renamed[i] = [name |-> names[frame[i].name], cells |-> frame[i].cells]
            /\ undone[names[frame[i].name]] = frame[i].name
        BY <1>6, <1>7, <1>9, <3>2
      <4>2. [renamed[i] EXCEPT !.name = undone[@]]
            = [name |-> frame[i].name, cells |-> frame[i].cells]
        BY <4>1
      <4>3. QED
        BY <3>1, <4>1, <4>2
    <3>3. CASE frame[i].name \notin old
      BY <1>6, <1>9, <3>1, <3>3
    <3>4. QED
      BY <3>2, <3>3
  <2>3. RenameColumns(renamed, undone)
        = [i \in 1..n |-> IF renamed[i].name \in Range(names)
                          THEN [renamed[i] EXCEPT !.name = undone[@]] ELSE renamed[i]]
    BY <1>8, <2>1 DEF RenameColumns
  <2>4. QED
    BY <2>2, <2>3
<1>12. DropColumns(renamed, Range(names)) = DropColumns(frame, old)
  <2> DEFINE S == {i \in 1..n : frame[i].name \notin old}
  <2>1. {i \in DOMAIN renamed : renamed[i].name \notin Range(names)} = S
    BY <1>8, <1>9
  <2>2. Range(names) \subseteq ColumnNames(renamed)
    <3>1. ASSUME NEW o \in old PROVE names[o] \in ColumnNames(renamed)
      <4>1. PICK i \in 1..n : frame[i].name = o
        BY <1>2 DEF ColumnNames
      <4>2. renamed[i].name = names[o]
        BY <1>6, <4>1
      <4>3. QED
        BY <1>8, <4>2 DEF ColumnNames
    <3>2. \A new \in Range(names) : \E o \in old : names[o] = new
      BY DEF Range, old
    <3>3. QED
      BY <3>1, <3>2
  <2>3. DropColumns(renamed, Range(names)) = Selected(renamed, S)
    BY <2>1, <2>2 DEF DropColumns
  <2>4. DropColumns(frame, old) = Selected(frame, S)
    BY <1>2 DEF DropColumns
  <2>5. \A i \in S : renamed[i] = frame[i]
    <3>1. \A i \in S : i \in 1..n /\ frame[i].name \notin old
      OBVIOUS
    <3>2. \A i \in 1..n : frame[i] = [name |-> frame[i].name, cells |-> frame[i].cells]
      BY DEF NamedColumns
    <3>3. QED
      BY <1>6, <3>1, <3>2
  <2>6. S \in SUBSET (1..n)
    OBVIOUS
  <2> HIDE DEF S
  <2> DEFINE c == Cardinality(S)
             f == InOrder(S)
  <2>7. Selects(frame, S, NamedColumns, c, f)
    BY <2>6, SelectedFacts
  <2>8. Selected(renamed, S) = [i \in 1..c |-> renamed[f[i]]]
        /\ Selected(frame, S) = [i \in 1..c |-> frame[f[i]]]
    BY DEF Selected
  <2> HIDE DEF c, f
  <2>9. \A i \in 1..c : renamed[f[i]] = frame[f[i]]
    BY <2>5, <2>7 DEF Selects
  <2>10. QED
    BY <2>3, <2>4, <2>8, <2>9
<1>13. QED
  BY <1>1, <1>10, <1>11, <1>12 DEF old, undone

(* coercion.py: whatever a rename does to the names of any columns, a column that can be *)
(* loaded under its name has its own cells: none is hidden behind another of that name.  *)
THEOREM RenamedColumnsKeepCells ==
    ASSUME NEW n \in Nat, NEW frame \in [1..n -> NamedColumns], NEW names,
           NEW renamed, renamed = RenameColumns(frame, names), renamed # Refusal,
           NEW i \in 1..n, Loadable(renamed, renamed[i].name)
    PROVE  LoadedCells(renamed, renamed[i].name) = frame[i].cells
<1> DEFINE all == Called(renamed, renamed[i].name)
<1>1. /\ DOMAIN renamed = 1..n
      /\ \A k \in 1..n : renamed[k] = IF frame[k].name \in DOMAIN names
                                      THEN [frame[k] EXCEPT !.name = names[@]] ELSE frame[k]
  BY DEF RenameColumns
<1>2. \A k \in 1..n : renamed[k].cells = frame[k].cells
  BY <1>1 DEF NamedColumns
<1>3. i \in all /\ IsFiniteSet(all) /\ Cardinality(all) = 1
  <2>1. all \in SUBSET (1..n) /\ i \in all
    BY <1>1 DEF Called
  <2>2. IsFiniteSet(1..n)
    BY FS_Interval
  <2>3. Cardinality(all) = 1
    BY DEF Loadable
  <2>4. QED
    BY <2>1, <2>2, <2>3, FS_Subset
<1> HIDE DEF all
<1>4. PICK one : all = {one}
  BY <1>3, FS_Singleton
<1>5. (CHOOSE k \in all : TRUE) = i
  BY <1>3, <1>4
<1>6. QED
  BY <1>2, <1>5 DEF LoadedCells, all

-----------------------------------------------------------------------------
(* A pivot that does not refuse its rows has no two of them in one place, and no null key. *)
LEMMA PlacesFacts ==
    ASSUME NEW n \in Nat, NEW rows \in [1..n -> LongRows], NEW aggregate, ~Refuses(rows, aggregate)
    PROVE  /\ \A i \in 1..n : rows[i].index # Null /\ rows[i].metric # Null
           /\ aggregate = "none" =>
                 \A i, j \in 1..n : rows[i].index = rows[j].index /\ rows[i].metric = rows[j].metric
                                    => i = j
<1> DEFINE P == Pairs(rows)
           place == [i \in 1..n |-> <<rows[i].index, rows[i].metric>>]
<1>1. \A i \in 1..n : rows[i].index # Null /\ rows[i].metric # Null
  BY DEF Refuses, HasNullKey
<1>2. Len(rows) = n
  BY LenFacts
<1>3. ASSUME aggregate = "none"
      PROVE  \A i, j \in 1..n : rows[i].index = rows[j].index /\ rows[i].metric = rows[j].metric
                                => i = j
  <2>1. place \in Surjection(1..n, P)
    BY DEF Surjection, Pairs
  <2>2. IsFiniteSet(1..n) /\ Cardinality(1..n) = n
    BY FS_Interval
  <2> HIDE DEF P, place
  <2>3. IsFiniteSet(P) /\ Cardinality(P) <= n
    BY <2>1, <2>2, FS_Surjection
  <2>4. Cardinality(P) = n
    <3>1. ~(Cardinality(P) < n)
      BY <1>2, <1>3 DEF Refuses, Ambiguous, P
    <3>2. Cardinality(P) \in Nat
      BY <2>3, FS_CardinalityType
    <3>3. QED
      BY <2>3, <3>1, <3>2
  <2>5. place \in Injection(1..n, P)
    BY <2>1, <2>2, <2>4, FS_SurjSameCardinalityImpliesInj
  <2>6. \A i, j \in 1..n : place[i] = place[j] => i = j
    BY <2>5 DEF Injection, IsInjective
  <2>7. QED
    BY <2>6 DEF place
<1>4. QED
  BY <1>1, <1>3

(* Nothing is selected at no position. *)
LEMMA SelectedNone ==
    ASSUME NEW s
    PROVE  Selected(s, {}) = <<>>
<1>1. Cardinality({}) = 0
  BY FS_EmptySet
<1>2. Selected(s, {}) = [i \in 1..0 |-> s[InOrder({})[i]]]
  BY <1>1 DEF Selected
<1>3. QED
  BY <1>2

(* The first and the last of what is selected stand at selected positions. *)
SelectsEnds(s, S) ==
    /\ Selected(s, S) # <<>>
    /\ \E p \in S : Selected(s, S)[1] = s[p]
    /\ \E p \in S : Selected(s, S)[Len(Selected(s, S))] = s[p]

(* What is selected at some position is some of what stands at them. *)
LEMMA SelectedSome ==
    ASSUME NEW n \in Nat, NEW T, NEW s \in [1..n -> T], NEW S \in SUBSET (1..n), S # {}
    PROVE  SelectsEnds(s, S)
<1> DEFINE c == Cardinality(S)
           f == InOrder(S)
<1>1. Selects(s, S, T, c, f)
  BY SelectedFacts
<1> HIDE DEF c, f
<1>2. c \in Nat /\ c # 0
  <2>1. c \in Nat /\ \A p \in S : \E i \in 1..c : f[i] = p
    BY <1>1 DEF Selects
  <2>2. c = 0 => 1..c = {}
    OBVIOUS
  <2>3. QED
    BY <2>1, <2>2
<1>3. f[1] \in S /\ f[c] \in S /\ 1 \in 1..c /\ c \in 1..c
  BY <1>1, <1>2 DEF Selects
<1>4. Selected(s, S) # <<>>
  BY <1>1, <1>2 DEF Selects
<1>5. QED
  BY <1>1, <1>3, <1>4 DEF Selects, SelectsEnds

(* The aggregate of a group is one of its values, or null if it has none. *)
LEMMA AggregatedFacts ==
    ASSUME NEW c \in Nat, NEW group \in [1..c -> LongRows], NEW aggregate
    PROVE  LET values == {group[k].value : k \in 1..c} \ {Null}
           IN  /\ values = {} => Aggregated(aggregate, group) = Null
               /\ values # {} => Aggregated(aggregate, group) \in values
<1> DEFINE K == {k \in DOMAIN group : group[k].value # Null}
           values == {group[k].value : k \in 1..c} \ {Null}
           end == IF aggregate = "last" THEN Len(Present(group)) ELSE 1
<1>1. Present(group) = Selected(group, K)
  BY DEF Present
<1>2. K \in SUBSET (1..c)
  OBVIOUS
<1>3. CASE K = {}
  <2>1. Aggregated(aggregate, group) = Null
    BY <1>1, <1>3, SelectedNone DEF Aggregated
  <2>2. values = {}
    BY <1>3
  <2>3. QED
    BY <2>1, <2>2
<1>4. CASE K # {}
  <2>2. end = 1 \/ end = Len(Selected(group, K))
    BY <1>1
  <2> HIDE DEF K, end, values
  <2>1. SelectsEnds(group, K)
    BY <1>2, <1>4, SelectedSome
  <2>3. PICK p \in K : Selected(group, K)[end] = group[p]
    BY <2>1, <2>2 DEF SelectsEnds
  <2>4. Aggregated(aggregate, group) = group[p].value
    BY <1>1, <2>1, <2>3 DEF Aggregated, end, SelectsEnds
  <2>5. p \in 1..c /\ group[p].value # Null
    BY <2>3 DEF K
  <2>6. QED
    BY <2>4, <2>5 DEF values
<1>5. QED
  BY <1>3, <1>4

(* A cell of the wide frame holds one of the values the rows have for it.              *)
LEMMA CellFacts ==
    ASSUME NEW n \in Nat, NEW rows \in [1..n -> LongRows], NEW aggregate, NEW fill, NEW x, NEW m
    PROVE  IF Held(rows, x, m) = {} THEN WideCell(rows, aggregate, fill, x, m) = fill
           ELSE WideCell(rows, aggregate, fill, x, m) \in Held(rows, x, m)
<1> DEFINE S == {i \in DOMAIN rows : rows[i].index = x /\ rows[i].metric = m}
           group == Group(rows, x, m)
           c == Cardinality(S)
           f == InOrder(S)
<1>1. S \in SUBSET (1..n) /\ group = Selected(rows, S)
  BY DEF Group
<1>2. Held(rows, x, m) = {rows[i].value : i \in S} \ {Null}
  BY DEF Held
<1>3. <<x, m>> \in Pairs(rows) <=> S # {}
  BY DEF Pairs
<1> HIDE DEF S, group
<1>4. Selects(rows, S, LongRows, c, f)
  BY <1>1, SelectedFacts
<1> HIDE DEF c, f
<1>5. c \in Nat /\ group \in [1..c -> LongRows] /\ group = [k \in 1..c |-> rows[f[k]]]
  BY <1>1, <1>4 DEF Selects
<1>6. {group[k].value : k \in 1..c} = {rows[i].value : i \in S}
  <2>1. \A k \in 1..c : f[k] \in S /\ group[k].value = rows[f[k]].value
    BY <1>4, <1>5 DEF Selects
  <2>2. \A i \in S : \E k \in 1..c : f[k] = i
    BY <1>4 DEF Selects
  <2>3. QED
    BY <2>1, <2>2
<1>7. /\ Held(rows, x, m) = {} => Aggregated(aggregate, group) = Null
      /\ Held(rows, x, m) # {} => Aggregated(aggregate, group) \in Held(rows, x, m)
  <2> DEFINE values == {group[k].value : k \in 1..c} \ {Null}
  <2>1. /\ values = {} => Aggregated(aggregate, group) = Null
        /\ values # {} => Aggregated(aggregate, group) \in values
    BY <1>5, AggregatedFacts
  <2>2. values = Held(rows, x, m)
    BY <1>2, <1>6
  <2>3. QED
    BY <2>1, <2>2
<1>8. Null \notin Held(rows, x, m) /\ (S = {} => Held(rows, x, m) = {})
  BY <1>2
<1>9. WideCell(rows, aggregate, fill, x, m)
      = LET cell == IF S # {} THEN Aggregated(aggregate, group) ELSE Null
        IN  IF cell = Null THEN fill ELSE cell
  BY <1>3 DEF WideCell, group
<1>10. QED
  BY <1>7, <1>8, <1>9

(* transforms.py: a pivot that does not refuse its rows, however many, holds in each     *)
(* place a value the rows have for it, or the fill value if they have none; without an   *)
(* aggregate no row's value is replaced by that of another.                              *)
THEOREM PivotLosesNothing ==
    ASSUME NEW n \in Nat, NEW rows \in [1..n -> LongRows], NEW aggregate, NEW fill
    PROVE  PivotIsLossless(rows, aggregate, fill)
<1> SUFFICES ASSUME ~Refuses(rows, aggregate) PROVE PivotIsLossless(rows, aggregate, fill)
  BY DEF PivotIsLossless
<1> DEFINE wide == Pivot(rows, aggregate, fill)
           Cell(x, m) == WideCell(rows, aggregate, fill, x, m)
<1>1. /\ \A i \in 1..n : rows[i].index # Null /\ rows[i].metric # Null
      /\ aggregate = "none" =>
            \A i, j \in 1..n : rows[i].index = rows[j].index /\ rows[i].metric = rows[j].metric => i = j
  BY PlacesFacts
<1>2. /\ DOMAIN wide = Indexes(rows) \ {Null}
      /\ \A x \in Indexes(rows) \ {Null}, m \in Metrics(rows) \ {Null} : wide[x][m] = Cell(x, m)
  BY DEF Pivot
<1> HIDE DEF wide
<1>3. \A i \in 1..n : rows[i].index \in DOMAIN wide /\ rows[i].metric \in Metrics(rows)
  BY <1>1, <1>2 DEF Indexes, Metrics
<1>4. ASSUME NEW x \in DOMAIN wide, NEW m \in Metrics(rows)
      PROVE  IF Held(rows, x, m) = {} THEN wide[x][m] = fill ELSE wide[x][m] \in Held(rows, x, m)
  <2>1. m # Null /\ x \in Indexes(rows) \ {Null}
    BY <1>1, <1>2 DEF Metrics
  <2>2. wide[x][m] = Cell(x, m)
    BY <1>2, <2>1
  <2>3. QED
    BY <2>2, CellFacts
<1>5. ASSUME NEW i \in 1..n, rows[i].value # Null, aggregate = "none"
      PROVE  wide[rows[i].index][rows[i].metric] = rows[i].value
  <2>1. Held(rows, rows[i].index, rows[i].metric) = {rows[i].value}
    BY <1>1, <1>5 DEF Held
  <2>2. QED
    BY <1>3, <1>4, <2>1
<1>6. QED
  BY <1>3, <1>4, <1>5 DEF PivotIsLossless, wide

-----------------------------------------------------------------------------
(* A cell is converted exactly if its column can hold it, to the value it stands for.  *)
LEMMA ConvertFacts ==
    ASSUME NEW column, NEW cell \in Int \cup {Missing, NoNumber}
    PROVE  LET result == Convert(cell, column)
           IN  /\ Holds(column, cell) => /\ result.kind = "value"
                                         /\ IF cell = Missing THEN result.value = Missing
                                            ELSE /\ result.value \in Int
                                                 /\ cell = result.value * Ten[Fraction]
               /\ ~Holds(column, cell) => result.kind = "rejected"
<1> DEFINE F == Ten[Fraction]
           S == Low(column.bits, column.signed)..High(column.bits, column.signed)
<1>1. CASE cell = Missing
  <2>1. CASE column.nullable
    <3>1. Convert(cell, column) = [kind |-> "value", value |-> Missing]
      BY <1>1, <2>1, CoercionAssumption DEF Convert, Value
    <3>2. Holds(column, cell)
      BY <1>1, <2>1 DEF Holds
    <3>3. QED
      BY <1>1, <3>1, <3>2
  <2>2. CASE ~column.nullable
    BY <1>1, <2>2, CoercionAssumption DEF Convert, Holds, Rejected
  <2>3. QED
    BY <2>1, <2>2
<1>2. CASE cell # Missing /\ cell = NoNumber
  BY <1>2 DEF Convert, Holds, Rejected
<1>3. CASE cell # Missing /\ cell # NoNumber
  <2>1. F \in Nat \ {0} /\ cell \in Int /\ \A v \in S : v \in Int
    <3>1. \A low, high : \A v \in low..high : v \in Int
      OBVIOUS
    <3>2. F \in Nat \ {0} /\ cell \in Int
      BY <1>3, TenFacts, CoercionAssumption
    <3>3. QED
      BY <3>1, <3>2
  <2>2. Convert(cell, column) = IF cell % F = 0 /\ cell \div F \in S
                                THEN [kind |-> "value", value |-> cell \div F]
                                ELSE [kind |-> "rejected"]
    BY <1>3 DEF Convert, ToInteger, Value, Rejected
  <2>3. Holds(column, cell) <=> \E v \in S : cell = v * F
    BY <1>3 DEF Holds
  <2> HIDE DEF F, S
  <2>4. Holds(column, cell) <=> cell % F = 0 /\ cell \div F \in S
    BY <2>1, <2>3, Multiples
  <2>5. cell % F = 0 => cell = (cell \div F) * F /\ cell \div F \in Int
    BY <2>1, Multiples
  <2>6. QED
    BY <1>3, <2>2, <2>4, <2>5 DEF F
<1>4. QED
  BY <1>1, <1>2, <1>3

(* The rows without error are the clean ones, and they keep their natural keys.        *)
LEMMA RowFacts ==
    ASSUME NEW columns, NEW frame \in FrameOf(columns), NEW rules,
           NEW key \in SUBSET DOMAIN columns
    PROVE  LET coerced == CoerceFrame(frame, columns)
               errors  == Errors(coerced.frame, coerced.spoiled, rules)
               clean   == CleanRows(frame, columns, rules)
           IN  /\ \A p \in DOMAIN frame : errors[p] = {} <=> p \in clean
               /\ \A p, q \in clean :
                     SameKey(coerced.frame[p], coerced.frame[q], key)
                     <=> SameKey(frame[p], frame[q], key)
<1> DEFINE coerced == CoerceFrame(frame, columns)
           errors  == Errors(coerced.frame, coerced.spoiled, rules)
           clean   == CleanRows(frame, columns, rules)
<1>1. \A p \in DOMAIN frame, c \in DOMAIN columns : frame[p][c] \in Int \cup {Missing, NoNumber}
  <2>1. DOMAIN frame = 1..Len(frame)
    BY LenProperties DEF FrameOf
  <2>2. \A p \in DOMAIN frame : frame[p] \in [DOMAIN columns -> Int \cup {Missing, NoNumber}]
    BY <2>1, ElementOfSeq DEF FrameOf
  <2>3. QED
    BY <2>2
<1>2. /\ coerced.frame = [p \in DOMAIN frame |-> Coerced(frame[p], columns)]
      /\ coerced.spoiled = [p \in DOMAIN frame |->
            {c \in DOMAIN columns : Convert(frame[p][c], columns[c]).kind = "rejected"}]
  BY DEF CoerceFrame
<1>3. ASSUME NEW p \in DOMAIN frame
      PROVE  errors[p] = {} <=> p \in clean
  <2>1. errors[p] = {c \in DOMAIN columns : Convert(frame[p][c], columns[c]).kind = "rejected"}
                    \cup {rule.column : rule \in
                            {r \in rules : Violated(r, Coerced(frame[p], columns)[r.column])}}
    BY <1>2 DEF Errors
  <2>2. \A c \in DOMAIN columns :
            Convert(frame[p][c], columns[c]).kind = "rejected" <=> ~Holds(columns[c], frame[p][c])
    BY <1>1, ConvertFacts
  <2>3. p \in clean <=> Clean(frame[p], columns, rules)
    BY DEF CleanRows
  <2>4. QED
    BY <2>1, <2>2, <2>3 DEF Clean
<1>4. ASSUME NEW p \in clean, NEW q \in clean, NEW c \in key
      PROVE  coerced.frame[p][c] = coerced.frame[q][c] <=> frame[p][c] = frame[q][c]
  <2>1. /\ p \in DOMAIN frame /\ Holds(columns[c], frame[p][c]) /\ c \in DOMAIN columns
        /\ q \in DOMAIN frame /\ Holds(columns[c], frame[q][c])
    BY DEF CleanRows, Clean
  <2> DEFINE x == Convert(frame[p][c], columns[c])
             y == Convert(frame[q][c], columns[c])
  <2>2. /\ x.kind = "value"
        /\ IF frame[p][c] = Missing THEN x.value = Missing
           ELSE x.value \in Int /\ frame[p][c] = x.value * Ten[Fraction]
    BY <1>1, <2>1, ConvertFacts
  <2>3. /\ y.kind = "value"
        /\ IF frame[q][c] = Missing THEN y.value = Missing
           ELSE y.value \in Int /\ frame[q][c] = y.value * Ten[Fraction]
    BY <1>1, <2>1, ConvertFacts
  <2>4. coerced.frame[p][c] = x.value /\ coerced.frame[q][c] = y.value
    BY <1>2, <2>1, <2>2, <2>3 DEF Coerced
  <2> HIDE DEF x, y, coerced
  <2>5. x.value = y.value <=> frame[p][c] = frame[q][c]
    <3>1. CASE frame[p][c] = Missing \/ frame[q][c] = Missing
      BY <2>2, <2>3, <3>1, CoercionAssumption
    <3>2. CASE frame[p][c] # Missing /\ frame[q][c] # Missing
      <4>1. \A a, b \in Int : a * Ten[Fraction] = b * Ten[Fraction] => a = b
        <5>1. ASSUME NEW F \in Nat \ {0}, NEW a \in Int, NEW b \in Int, a * F = b * F
              PROVE  a = b
          <6>1. a * F \in Int
            OBVIOUS
          <6>2. (a * F) \div F = a /\ (a * F) \div F = b
            BY <5>1, <6>1, Multiples
          <6>3. QED
            BY <6>2
        <5>2. QED
          BY <5>1, TenFacts, CoercionAssumption
      <4>2. QED
        BY <2>2, <2>3, <3>2, <4>1
    <3>3. QED
      BY <3>1, <3>2
  <2>6. QED
    BY <2>4, <2>5
<1> HIDE DEF coerced, errors, clean
<1>5. \A p, q \in clean : SameKey(coerced.frame[p], coerced.frame[q], key)
                          <=> SameKey(frame[p], frame[q], key)
  BY <1>4 DEF SameKey
<1>6. QED
  BY <1>3, <1>5 DEF coerced, errors, clean

(* What the stage answers: the unclean rows, the clean ones that share their key with  *)
(* another, or all clean rows, each of them once, with all keys different.             *)
LEMMA Evaluated ==
    ASSUME NEW columns, NEW frame \in FrameOf(columns), NEW config,
           NEW key \in SUBSET DOMAIN columns
    PROVE  LET result == Validated(frame, columns, config, key)
               clean  == CleanRows(frame, columns, config.rules)
               twins  == {p \in clean : \E q \in clean \ {p} : SameKey(frame[p], frame[q], key)}
           IN  \/ /\ result.kind \in {"invalid", "ratio", "few"}
                  /\ result.named = DOMAIN frame \ clean
               \/ result.kind = "duplicates" /\ result.named = twins /\ twins # {}
               \/ /\ result.kind = "valid" /\ twins = {}
                  /\ DOMAIN result.rejected = DOMAIN frame \ clean
                  /\ \A p \in DOMAIN result.rejected : result.rejected[p] # {}
                  /\ \E positions : /\ Lists(positions, clean)
                                    /\ result.valid = [i \in 1..Cardinality(clean) |->
                                                          Coerced(frame[positions[i]], columns)]
<1> DEFINE coerced   == CoerceFrame(frame, columns)
           errors    == Errors(coerced.frame, coerced.spoiled, config.rules)
           clean     == CleanRows(frame, columns, config.rules)
           twins     == {p \in clean : \E q \in clean \ {p} : SameKey(frame[p], frame[q], key)}
           rejected  == {p \in DOMAIN coerced.frame : errors[p] # {}}
           positions == ValidPositions(coerced.frame, errors)
           valid     == [i \in DOMAIN positions |-> coerced.frame[positions[i]]]
           doubled   == Duplicated(valid, key)
           c         == Cardinality(clean)
           result    == Validated(frame, columns, config, key)
<1>1. /\ DOMAIN frame = 1..Len(frame) /\ Len(frame) \in Nat
      /\ DOMAIN coerced.frame = DOMAIN frame
      /\ \A p \in DOMAIN frame : coerced.frame[p] = Coerced(frame[p], columns)
  <2>1. coerced.frame = [p \in DOMAIN frame |-> Coerced(frame[p], columns)]
    BY DEF CoerceFrame
  <2>2. DOMAIN frame = 1..Len(frame) /\ Len(frame) \in Nat
    BY LenProperties DEF FrameOf
  <2> HIDE DEF coerced
  <2>3. QED
    BY <2>1, <2>2
<1>2. /\ \A p \in DOMAIN frame : errors[p] = {} <=> p \in clean
      /\ \A p, q \in clean : SameKey(coerced.frame[p], coerced.frame[q], key)
                             <=> SameKey(frame[p], frame[q], key)
      /\ clean \subseteq DOMAIN frame
  <2>1. clean \subseteq DOMAIN frame
    BY DEF CleanRows
  <2>2. QED
    BY <2>1, RowFacts
<1>3. result = IF rejected # {} /\ config.onInvalid = "fail" THEN Refused("invalid", rejected)
               ELSE IF TooMany(rejected, coerced.frame, config.maxRatio)
                    THEN Refused("ratio", rejected)
               ELSE IF Len(valid) < config.minRows THEN Refused("few", rejected)
               ELSE IF doubled # {} THEN Refused("duplicates", {positions[i] : i \in doubled})
               ELSE Passed(valid, [p \in rejected |-> errors[p]])
  BY DEF Validated, Evaluate
<1> HIDE DEF coerced, errors, clean, result
<1>4. rejected = DOMAIN frame \ clean /\ {p \in DOMAIN coerced.frame : errors[p] = {}} = clean
  BY <1>1, <1>2
<1>5. /\ Lists(positions, clean)
      /\ positions \in [1..c -> clean] /\ DOMAIN positions = 1..c /\ c \in Nat
      /\ \A i, j \in 1..c : positions[i] = positions[j] => i = j
      /\ \A p \in clean : \E i \in 1..c : positions[i] = p
  <2>1. PICK n \in Nat : DOMAIN coerced.frame = 1..n
    BY <1>1
  <2>2. Lists(positions, clean)
    <3>1. clean \in SUBSET (1..n)
      BY <1>4, <2>1
    <3>2. positions = InOrder(clean)
      BY <1>4 DEF ValidPositions
    <3>3. QED
      BY <3>1, <3>2, InOrderFacts
  <2> HIDE DEF positions
  <2>3. QED
    BY <2>2 DEF Lists, c
<1>6. valid = [i \in 1..c |-> Coerced(frame[positions[i]], columns)]
  <2> HIDE DEF positions, c
  <2>1. \A i \in 1..c : positions[i] \in clean
    BY <1>5
  <2>2. QED
    BY <1>1, <1>2, <1>5, <2>1
<1> HIDE DEF positions, c
<1>7. {positions[i] : i \in doubled} = twins
  <2>1. \A i, j \in 1..c : SameKey(valid[i], valid[j], key)
                           <=> SameKey(frame[positions[i]], frame[positions[j]], key)
    <3>1. \A i \in 1..c : positions[i] \in clean /\ valid[i] = coerced.frame[positions[i]]
      BY <1>5, <1>6
    <3> HIDE DEF valid
    <3>2. QED
      BY <1>2, <3>1
  <2>2. DOMAIN valid = 1..c
    BY <1>5
  <2> HIDE DEF valid
  <2>3. \A i \in 1..c : i \in doubled <=> \E j \in (1..c) \ {i} : SameKey(valid[i], valid[j], key)
    BY <2>2 DEF Duplicated
  <2>4. doubled \subseteq 1..c
    BY <2>2 DEF Duplicated
  <2> HIDE DEF doubled
  <2>5. ASSUME NEW i \in 1..c PROVE i \in doubled <=> positions[i] \in twins
    <3>1. i \in doubled => positions[i] \in twins
      BY <1>5, <1>6, <2>1, <2>3
    <3>2. ASSUME positions[i] \in twins PROVE i \in doubled
      <4>1. PICK q \in clean \ {positions[i]} : SameKey(frame[positions[i]], frame[q], key)
        BY <3>2
      <4>2. PICK j \in 1..c : positions[j] = q
        BY <1>5
      <4>3. QED
        BY <2>1, <2>3, <4>1, <4>2
    <3>3. QED
      BY <3>1, <3>2
  <2>6. twins \subseteq clean
    OBVIOUS
  <2> HIDE DEF twins
  <2>7. QED
    BY <1>5, <2>4, <2>5, <2>6
<1>8. doubled = {} <=> twins = {}
  <2> HIDE DEF doubled, twins
  <2>1. QED
    BY <1>7
<1> HIDE DEF rejected, valid, doubled, twins
<1>9. CASE \E why \in {"invalid", "ratio", "few"} : result = Refused(why, rejected)
  BY <1>4, <1>9 DEF Refused, clean, result
<1>10. CASE doubled # {} /\ result = Refused("duplicates", {positions[i] : i \in doubled})
  <2>1. result.kind = "duplicates" /\ result.named = twins /\ twins # {}
    BY <1>7, <1>8, <1>10 DEF Refused
  <2>2. QED
    BY <2>1 DEF twins, clean, result
<1>11. CASE doubled = {} /\ result = Passed(valid, [p \in rejected |-> errors[p]])
  <2>1. /\ result.kind = "valid" /\ twins = {}
        /\ DOMAIN result.rejected = DOMAIN frame \ clean
        /\ result.rejected = [p \in rejected |-> errors[p]]
        /\ result.valid = valid
    BY <1>4, <1>8, <1>11 DEF Passed
  <2>2. \A p \in DOMAIN result.rejected : result.rejected[p] # {}
    BY <1>2, <1>4, <2>1
  <2>3. /\ Lists(positions, clean)
        /\ result.valid = [i \in 1..c |-> Coerced(frame[positions[i]], columns)]
    BY <1>5, <1>6, <2>1
  <2>4. QED
    BY <1>5, <1>6, <2>1, <2>2, <2>3 DEF twins, clean, c, result
<1>12. QED
  BY <1>3, <1>9, <1>10, <1>11

(* The quality stage loses no row and counts none twice: of every report, of any length  *)
(* and any columns, under any rules, what is loaded and what is set aside are together   *)
(* the rows of the report, the loaded ones clean, with natural keys that all differ, the *)
(* others with a reason.                                                                 *)
THEOREM RowsAreAccounted ==
    ASSUME NEW columns, NEW frame \in FrameOf(columns), NEW config,
           NEW key \in SUBSET DOMAIN columns
    PROVE  AccountsForRows(frame, columns, config, key)
<1> DEFINE result == Validated(frame, columns, config, key)
           clean  == CleanRows(frame, columns, config.rules)
           twins  == {p \in clean : \E q \in clean \ {p} : SameKey(frame[p], frame[q], key)}
           c      == Cardinality(clean)
<1>1. SUFFICES ASSUME result.kind = "valid"
      PROVE  /\ DOMAIN result.rejected = DOMAIN frame \ clean
             /\ \A p \in DOMAIN result.rejected : result.rejected[p] # {}
             /\ Len(result.valid) = Cardinality(clean)
             /\ \A p \in clean : Contains(result.valid, Coerced(frame[p], columns))
             /\ \A i, j \in DOMAIN result.valid :
                   SameKey(result.valid[i], result.valid[j], key) => i = j
  BY DEF AccountsForRows
<1>2. /\ twins = {} /\ DOMAIN result.rejected = DOMAIN frame \ clean
      /\ \A p \in DOMAIN result.rejected : result.rejected[p] # {}
      /\ \E positions : /\ Lists(positions, clean)
                        /\ result.valid = [i \in 1..c |-> Coerced(frame[positions[i]], columns)]
  BY <1>1, Evaluated
<1>3. \A p, q \in clean : /\ p \in DOMAIN frame /\ q \in DOMAIN frame
                          /\ SameKey(Coerced(frame[p], columns), Coerced(frame[q], columns), key)
                             => SameKey(frame[p], frame[q], key)
  <2>1. clean \subseteq DOMAIN frame
    BY DEF CleanRows
  <2>2. \A p, q \in clean :
            SameKey(CoerceFrame(frame, columns).frame[p], CoerceFrame(frame, columns).frame[q], key)
            <=> SameKey(frame[p], frame[q], key)
    BY RowFacts
  <2>3. \A p \in clean : CoerceFrame(frame, columns).frame[p] = Coerced(frame[p], columns)
    BY <2>1 DEF CoerceFrame
  <2> HIDE DEF clean
  <2>4. QED
    BY <2>1, <2>2, <2>3
<1> HIDE DEF clean, result
<1>4. PICK positions : /\ Lists(positions, clean)
                       /\ result.valid = [i \in 1..c |-> Coerced(frame[positions[i]], columns)]
  BY <1>2
<1>5. /\ c \in Nat /\ positions \in [1..c -> clean]
      /\ \A i, j \in 1..c : positions[i] = positions[j] => i = j
      /\ \A p \in clean : \E i \in 1..c : positions[i] = p
  BY <1>4 DEF Lists
<1> HIDE DEF c
<1>6. Len(result.valid) = c /\ DOMAIN result.valid = 1..c
  BY <1>4, <1>5
<1>7. \A p \in clean : Contains(result.valid, Coerced(frame[p], columns))
  <2>1. ASSUME NEW p \in clean PROVE \E i \in 1..Len(result.valid) :
                                        result.valid[i] = Coerced(frame[p], columns)
    BY <1>4, <1>5, <1>6
  <2>2. QED
    BY <2>1 DEF Contains
<1>8. ASSUME NEW i \in DOMAIN result.valid, NEW j \in DOMAIN result.valid,
             SameKey(result.valid[i], result.valid[j], key)
      PROVE  i = j
  <2>1. /\ i \in 1..c /\ result.valid[i] = Coerced(frame[positions[i]], columns)
        /\ j \in 1..c /\ result.valid[j] = Coerced(frame[positions[j]], columns)
        /\ positions[i] \in clean /\ positions[j] \in clean
    BY <1>4, <1>5, <1>6, <1>8
  <2>2. SameKey(frame[positions[i]], frame[positions[j]], key)
    BY <1>3, <1>8, <2>1
  <2>3. positions[i] = positions[j]
    BY <1>2, <2>1, <2>2
  <2>4. QED
    BY <1>5, <2>1, <2>3
<1>9. QED
  BY <1>2, <1>6, <1>7, <1>8 DEF c

(* A report is refused only for the reason given: the rows named are the unclean ones,   *)
(* or the clean ones that share their natural key with another.                          *)
THEOREM CulpritsAreNamed ==
    ASSUME NEW columns, NEW frame \in FrameOf(columns), NEW config,
           NEW key \in SUBSET DOMAIN columns
    PROVE  NamesTheCulprits(frame, columns, config, key)
<1> DEFINE result == Validated(frame, columns, config, key)
           clean  == CleanRows(frame, columns, config.rules)
           twins  == {p \in clean : \E q \in clean \ {p} : SameKey(frame[p], frame[q], key)}
<1>1. \/ result.kind \in {"invalid", "ratio", "few"} /\ result.named = DOMAIN frame \ clean
      \/ result.kind = "duplicates" /\ result.named = twins /\ twins # {}
      \/ result.kind = "valid" /\ twins = {}
  BY Evaluated
<1>2. NamesTheCulprits(frame, columns, config, key)
      = CASE result.kind = "valid"      -> twins = {}
          [] result.kind = "duplicates" -> result.named = twins /\ twins # {}
          [] OTHER                      -> result.named = DOMAIN frame \ clean
  BY DEF NamesTheCulprits
<1> HIDE DEF result, clean, twins
<1>3. QED
  BY <1>1, <1>2

=============================================================================
