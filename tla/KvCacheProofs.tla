--------------------------- MODULE KvCacheProofs ----------------------------
(***************************************************************************)
(* Lemmas about KvCache: what a launch does to the rows of a cache, and    *)
(* that the buckets hold what is asked of them.  The buckets are doublings *)
(* counted by a recursive function, so induction comes first; it is stated *)
(* for sets of numbers.                                                    *)
(***************************************************************************)
EXTENDS KvCache, WellFoundedInduction, TLAPS

USE TokenAssumption

-----------------------------------------------------------------------------
(* Induction and recursion over the numbers.                               *)

\* A set of numbers has a least one.
LEMMA Minimum ==
  ASSUME NEW T, T \subseteq Nat, T # {}
  PROVE  \E x \in T : \A y \in T : x <= y
<1> DEFINE R == OpToRel(<, Nat)
<1>1. IsWellFoundedOn(R, Nat)
  BY NatLessThanWellFounded
<1> HIDE DEF R
<1>2. PICK x \in T : \A y \in T : <<y, x>> \notin R
  BY <1>1, WFMin
<1>3. ASSUME NEW y \in T PROVE x <= y
  <2>1. x \in Nat /\ y \in Nat /\ <<y, x>> \notin R
    BY <1>2
  <2>2. y < x => <<y, x>> \in R
    BY <2>1 DEF R, OpToRel
  <2> QED
    BY <2>1, <2>2
<1> QED
  BY <1>3

\* Induction.
LEMMA Induction ==
  ASSUME NEW S, 0 \in S, \A n \in Nat : n \in S => n + 1 \in S
  PROVE  Nat \subseteq S
<1> DEFINE T == Nat \ S
<1> SUFFICES ASSUME T # {} PROVE FALSE
  OBVIOUS
<1>1. T \subseteq Nat
  OBVIOUS
<1>2. PICK x \in T : \A y \in T : x <= y
  <2> HIDE DEF T
  <2> QED
    BY <1>1, Minimum
<1>3. x \in Nat /\ x # 0
  BY <1>2
<1>4. x - 1 \in Nat /\ x - 1 \notin T
  BY <1>2, <1>3
<1> QED
  BY <1>3, <1>4

\* The first k steps of the iteration of g from a.
Steps(S, g, a, k, t) ==
  /\ t \in [0 .. k -> S]
  /\ t[0] = a
  /\ \A i \in 0 .. k - 1 : t[i + 1] = g[t[i]]

LEMMA StepsExist ==
  ASSUME NEW S, NEW g \in [S -> S], NEW a \in S
  PROVE  \A k \in Nat : \E t : Steps(S, g, a, k, t)
<1> DEFINE T == {k \in Nat : \E t : Steps(S, g, a, k, t)}
<1>1. 0 \in T
  <2>1. Steps(S, g, a, 0, [i \in 0 .. 0 |-> a])
    BY DEF Steps
  <2> QED
    BY <2>1
<1>2. ASSUME NEW k \in Nat, k \in T PROVE k + 1 \in T
  <2>1. PICK t : Steps(S, g, a, k, t)
    BY <1>2
  <2> DEFINE u == [i \in 0 .. k + 1 |-> IF i <= k THEN t[i] ELSE g[t[k]]]
  <2>2. t[k] \in S /\ g[t[k]] \in S
    BY <2>1 DEF Steps
  <2>3. u \in [0 .. k + 1 -> S] /\ u[0] = a
    BY <2>1, <2>2 DEF Steps
  <2>4. ASSUME NEW i \in 0 .. k PROVE u[i + 1] = g[u[i]]
    <3>1. CASE i = k
      BY <3>1
    <3>2. CASE i # k
      <4>1. i \in 0 .. k - 1 /\ i + 1 \in 0 .. k
        BY <3>2
      <4> QED
        BY <2>1, <4>1 DEF Steps
    <3> QED
      BY <3>1, <3>2
  <2>5. k + 1 - 1 = k
    OBVIOUS
  <2> HIDE DEF u
  <2>6. Steps(S, g, a, k + 1, u)
    BY <2>3, <2>4, <2>5 DEF Steps
  <2> QED
    BY <2>6
<1> HIDE DEF T
<1>3. Nat \subseteq T
  BY <1>1, <1>2, Induction
<1> QED
  BY <1>3 DEF T

\* Two such beginnings agree.
LEMMA StepsAgree ==
  ASSUME NEW S, NEW g, NEW a,
         NEW k \in Nat, NEW t, Steps(S, g, a, k, t),
         NEW l \in Nat, NEW u, Steps(S, g, a, l, u), k <= l
  PROVE  \A i \in 0 .. k : t[i] = u[i]
<1> DEFINE T == {i \in Nat : i <= k => t[i] = u[i]}
<1>1. 0 \in T
  BY DEF Steps
<1>2. ASSUME NEW i \in Nat, i \in T PROVE i + 1 \in T
  <2>1. SUFFICES ASSUME i + 1 <= k PROVE t[i + 1] = u[i + 1]
    OBVIOUS
  <2>2. i \in 0 .. k - 1 /\ i \in 0 .. l - 1 /\ t[i] = u[i]
    BY <1>2, <2>1
  <2> QED
    BY <2>2 DEF Steps
<1> HIDE DEF T
<1>3. Nat \subseteq T
  BY <1>1, <1>2, Induction
<1> QED
  BY <1>3 DEF T

\* The iteration of g from a.
Iterates(S, g, a, f) ==
  /\ f \in [Nat -> S]
  /\ f[0] = a
  /\ \A k \in Nat : f[k + 1] = g[f[k]]

LEMMA Iteration ==
  ASSUME NEW S, NEW g \in [S -> S], NEW a \in S
  PROVE  \E f : Iterates(S, g, a, f)
<1> DEFINE table(k) == CHOOSE t : Steps(S, g, a, k, t)
           f == [k \in Nat |-> table(k)[k]]
<1>1. \A k \in Nat : Steps(S, g, a, k, table(k))
  BY StepsExist
<1> HIDE DEF table
<1>2. \A k \in Nat : table(k)[k] \in S
  BY <1>1 DEF Steps
<1>3. f[0] = a
  BY <1>1 DEF Steps
<1>4. ASSUME NEW k \in Nat PROVE f[k + 1] = g[f[k]]
  <2>1. k + 1 \in Nat /\ k <= k + 1 /\ k \in 0 .. k /\ k \in 0 .. (k + 1) - 1
    OBVIOUS
  <2>2. Steps(S, g, a, k, table(k)) /\ Steps(S, g, a, k + 1, table(k + 1))
    BY <1>1, <2>1
  <2>3. table(k)[k] = table(k + 1)[k]
    BY <2>1, <2>2, StepsAgree
  <2>4. table(k + 1)[k + 1] = g[table(k + 1)[k]]
    BY <2>1, <2>2 DEF Steps
  <2> QED
    BY <2>1, <2>3, <2>4
<1>5. f \in [Nat -> S]
  BY <1>2
<1> HIDE DEF f
<1>6. Iterates(S, g, a, f)
  BY <1>3, <1>4, <1>5 DEF Iterates
<1> QED
  BY <1>6

-----------------------------------------------------------------------------
(* Buckets.                                                                *)

\* Doubled is what its recursive definition says.
LEMMA DoubledIs ==
  ASSUME NEW n \in Nat
  PROVE  /\ Doubled(n) \in [Nat -> Nat]
         /\ Doubled(n)[0] = n
         /\ \A k \in Nat : Doubled(n)[k + 1] = 2 * Doubled(n)[k]
<1> DEFINE D(d) == [k \in Nat |-> IF k = 0 THEN n ELSE 2 * d[k - 1]]
<1> DEFINE g == [x \in Nat |-> 2 * x]
<1>1. PICK f : Iterates(Nat, g, n, f)
  <2>1. g \in [Nat -> Nat]
    OBVIOUS
  <2> HIDE DEF g
  <2> QED
    BY <2>1, Iteration
<1>2. f \in [Nat -> Nat] /\ f[0] = n /\ \A k \in Nat : f[k + 1] = 2 * f[k]
  BY <1>1 DEF Iterates
<1>3. f = D(f)
  <2>1. ASSUME NEW k \in Nat PROVE f[k] = IF k = 0 THEN n ELSE 2 * f[k - 1]
    <3>1. CASE k = 0
      BY <1>2, <3>1
    <3>2. CASE k # 0
      <4>1. k - 1 \in Nat /\ (k - 1) + 1 = k
        BY <3>2
      <4> QED
        BY <1>2, <3>2, <4>1
    <3> QED
      BY <3>1, <3>2
  <2> QED
    BY <1>2, <2>1
<1>4. Doubled(n) = CHOOSE d : d = D(d)
  BY DEF Doubled
<1>5. Doubled(n) = D(Doubled(n))
  <2> HIDE DEF D
  <2> QED
    BY <1>3, <1>4
<1>6. Doubled(n)[0] = n
  BY <1>5
<1>7. \A k \in Nat : Doubled(n)[k + 1] = 2 * Doubled(n)[k]
  <2>1. ASSUME NEW k \in Nat PROVE Doubled(n)[k + 1] = 2 * Doubled(n)[k]
    <3>1. k + 1 \in Nat /\ k + 1 # 0 /\ (k + 1) - 1 = k
      OBVIOUS
    <3> QED
      BY <1>5, <3>1
  <2> QED
    BY <2>1
<1>8. Doubled(n) \in [Nat -> Nat]
  <2> DEFINE T == {k \in Nat : Doubled(n)[k] \in Nat}
  <2>1. 0 \in T /\ \A k \in Nat : k \in T => k + 1 \in T
    BY <1>6, <1>7
  <2> HIDE DEF T
  <2>2. Nat \subseteq T
    BY <2>1, Induction
  <2>3. \A k \in Nat : Doubled(n)[k] \in Nat
    BY <2>2 DEF T
  <2>4. DOMAIN Doubled(n) = Nat /\ Doubled(n) = [k \in Nat |-> Doubled(n)[k]]
    BY <1>5
  <2> QED
    BY <2>3, <2>4
<1> QED
  BY <1>6, <1>7, <1>8

\* A number doubled k times is more than k.
LEMMA DoubledExceeds ==
  ASSUME NEW n \in Nat \ {0}
  PROVE  \A k \in Nat : Doubled(n)[k] > k
<1> DEFINE T == {k \in Nat : Doubled(n)[k] > k}
<1>0. n \in Nat
  OBVIOUS
<1>1. 0 \in T
  <2>1. Doubled(n)[0] = n
    BY <1>0, DoubledIs
  <2> QED
    BY <2>1
<1>2. ASSUME NEW k \in Nat, k \in T PROVE k + 1 \in T
  <2>1. Doubled(n)[k + 1] = 2 * Doubled(n)[k] /\ Doubled(n)[k] \in Nat
    BY <1>0, DoubledIs
  <2> QED
    BY <1>2, <2>1
<1> HIDE DEF T
<1>3. Nat \subseteq T
  BY <1>1, <1>2, Induction
<1> QED
  BY <1>3 DEF T

\* The number of doublings CacheBucket chooses: the first that reaches need.
LEMMA FirstDoubling ==
  ASSUME NEW need \in Nat, NEW minCap \in Nat \ {0}
  PROVE  \E k \in 0 .. need : /\ Doubled(minCap)[k] >= need
                              /\ \A j \in Span(k) : Doubled(minCap)[j] < need
<1> DEFINE T == {k \in Nat : Doubled(minCap)[k] >= need}
<1>0. minCap \in Nat
  OBVIOUS
<1>1. Doubled(minCap) \in [Nat -> Nat] /\ need \in T
  <2>1. Doubled(minCap) \in [Nat -> Nat] /\ Doubled(minCap)[need] > need
    BY <1>0, DoubledIs, DoubledExceeds
  <2> QED
    BY <2>1
<1>2. T \subseteq Nat /\ T # {}
  BY <1>1
<1>3. PICK k \in T : \A j \in T : k <= j
  <2> HIDE DEF T
  <2> QED
    BY <1>2, Minimum
<1>4. k \in 0 .. need
  BY <1>1, <1>3
<1>5. ASSUME NEW j \in Span(k) PROVE Doubled(minCap)[j] < need
  <2>1. j \in Nat /\ j < k /\ k \in Nat
    BY <1>3, <1>5 DEF Span
  <2> QED
    BY <1>1, <1>3, <2>1
<1> QED
  BY <1>3, <1>4, <1>5

\* A bucket holds what is asked of it, within the ceiling.
LEMMA CacheBucketHolds ==
  ASSUME NEW need \in Nat, NEW minCap \in Nat \ {0}, NEW full \in Nat, need <= full
  PROVE  CacheBucket(need, minCap, full) \in need .. full
<1> DEFINE d == Doubled(minCap)
           c == CHOOSE k \in 0 .. need : d[k] >= need /\ \A j \in Span(k) : d[j] < need
<1>1. CacheBucket(need, minCap, full) = Least(d[c], full)
  BY DEF CacheBucket
<1>2. \E k \in 0 .. need : d[k] >= need /\ \A j \in Span(k) : d[j] < need
  BY FirstDoubling
<1>3. d \in [Nat -> Nat]
  BY DoubledIs
<1> HIDE DEF d
<1>4. c \in 0 .. need /\ d[c] >= need
  BY <1>2
<1> HIDE DEF c
<1> QED
  BY <1>1, <1>3, <1>4 DEF Least

-----------------------------------------------------------------------------
(* Launches.                                                               *)

\* Extending keeps what was there and has the right length.
LEMMA ExtendPrefix ==
  ASSUME NEW f, NEW n \in Nat, NEW toks, Len(toks) \in Nat,
         NEW m \in 0 .. n
  PROVE  Prefix(Extend(f, n, toks), m) = Prefix(f, m)
<1>1. \A i \in Span(m) : i \in Span(n + Len(toks)) /\ i < n
  BY DEF Span
<1> QED
  BY <1>1 DEF Prefix, Extend

\* Only the first n tokens matter to Extend.
LEMMA ExtendOfPrefix ==
  ASSUME NEW f, NEW n \in Nat, NEW toks, Len(toks) \in Nat
  PROVE  Extend(Prefix(f, n), n, toks) = Extend(f, n, toks)
<1>1. \A i \in Span(n + Len(toks)) : i < n => i \in Span(n)
  BY DEF Span
<1> QED
  BY <1>1 DEF Prefix, Extend

\* A sequence fed tokens is a sequence.
LEMMA ExtendType ==
  ASSUME NEW S, NEW f, NEW n \in Nat, NEW toks, Len(toks) \in Nat,
         \A i \in Span(n) : f[i] \in S,
         \A i \in 1 .. Len(toks) : toks[i] \in S
  PROVE  Extend(f, n, toks) \in [Span(n + Len(toks)) -> S]
  BY DEF Extend, Span

\* Rows that are those of one sequence are seen as that sequence.
LEMMA SeenRows ==
  ASSUME NEW buf, NEW f, NEW n \in Nat,
         RowsOf(buf, n, f)
  PROVE  Seen(buf, n) = Prefix(f, n)
<1> USE DEF RowsOf
<1>1. CASE n = 0
  <2>1. Span(n) = {}
    BY <1>1 DEF Span
  <2> QED
    BY <1>1, <2>1 DEF Seen, Junk, Prefix
<1>2. CASE n > 0
  <2>1. n - 1 \in Span(n) /\ n - 1 + 1 = n
    BY <1>2 DEF Span
  <2>2. buf[n - 1] = Prefix(f, n)
    BY <2>1
  <2>3. \A i \in Span(n) : Prefix(Prefix(f, n), i + 1) = Prefix(f, i + 1)
    <3>1. \A i \in Span(n) : \A k \in Span(i + 1) : k \in Span(n)
      BY DEF Span
    <3> QED
      BY <3>1 DEF Prefix
  <2> QED
    BY <1>2, <2>2, <2>3 DEF Seen
<1> QED
  BY <1>1, <1>2

\* A launch whose recipe attends to its whole block, over the rows of f,
\* leaves the rows of f with the block after it.
LEMMA ScatterRows ==
  ASSUME NEW buf, NEW f, NEW p \in Nat, NEW toks, Len(toks) \in Nat,
         NEW cap \in Nat, p + Len(toks) <= cap,
         NEW keys \in Int, p + Len(toks) <= keys,
         RowsOf(buf, p, f)
  PROVE  RowsOf(Scatter(buf, p, toks, cap, keys), p + Len(toks), Extend(f, p, toks))
<1> USE DEF RowsOf
<1> SUFFICES ASSUME NEW i \in Span(p + Len(toks))
             PROVE  Scatter(buf, p, toks, cap, keys)[i]
                      = Prefix(Extend(f, p, toks), i + 1)
  OBVIOUS
<1>0. i \in 0 .. cap /\ i \in Nat
  BY DEF Span
<1>1. CASE i < p
  <2>1. i \in Span(p) /\ i + 1 \in 0 .. p
    BY <1>0, <1>1 DEF Span
  <2>2. Scatter(buf, p, toks, cap, keys)[i] = buf[i]
    BY <1>0, <1>1 DEF Scatter
  <2> QED
    BY <2>1, <2>2, ExtendPrefix
<1>2. CASE i >= p
  <2>1. i < p + Len(toks)
    BY DEF Span
  <2>2. Scatter(buf, p, toks, cap, keys)[i]
          = BlockRow(buf, p, toks, i - p, cap, keys)
    BY <1>0, <1>2, <2>1 DEF Scatter
  <2>3. Visible(p, i - p, cap, keys) = p + (i - p) + 1 /\ p + (i - p) + 1 = i + 1
    BY <1>0, <1>2, <2>1 DEF Visible, Least
  <2>4. Extend(Seen(buf, p), p, toks) = Extend(f, p, toks)
    <3>1. Seen(buf, p) = Prefix(f, p)
      BY SeenRows
    <3> QED
      BY <3>1, ExtendOfPrefix
  <2> QED
    BY <2>2, <2>3, <2>4 DEF BlockRow
<1> QED
  BY <1>0, <1>1, <1>2

\* Whatever a launch reads, it leaves a buffer.
LEMMA ScatterType ==
  ASSUME NEW cap \in Nat, NEW buf \in Buffer(cap), NEW p \in Nat,
         NEW toks, Len(toks) \in Nat, p + Len(toks) <= cap,
         \A i \in 1 .. Len(toks) : toks[i] \in Word,
         NEW keys \in Int
  PROVE  Scatter(buf, p, toks, cap, keys) \in Buffer(cap)
<1> DEFINE Rows0 == UNION {[Span(k) -> Word] : k \in 0 .. cap + 1}
<1>1. \A n \in Nat : Junk(n) \in [Span(n) -> Word]
  BY DEF Junk, Word
<1>2. \A i \in 0 .. cap : buf[i] \in Rows0
  BY DEF Buffer
<1>3. ASSUME NEW i \in 0 .. cap, i >= p, i < p + Len(toks)
      PROVE  BlockRow(buf, p, toks, i - p, cap, keys) \in Rows0
  <2>1. i - p \in Nat /\ p + (i - p) + 1 = i + 1 /\ i + 1 \in 0 .. cap + 1
    BY <1>3
  <2>2. CASE Visible(p, i - p, cap, keys) = p + (i - p) + 1
    <3>1. \A k \in Span(p) : Seen(buf, p)[k] \in Word
      <4>1. CASE p > 0 /\ \A j \in Span(p) : buf[j] = Prefix(buf[p - 1], j + 1)
        <5>1. p - 1 \in Span(p) /\ p - 1 \in 0 .. cap /\ p - 1 + 1 = p
          BY <4>1, <1>3 DEF Span
        <5>2. buf[p - 1] = Prefix(buf[p - 1], p)
          BY <4>1, <5>1
        <5>3. DOMAIN buf[p - 1] = Span(p)
          BY <5>2 DEF Prefix
        <5>4. PICK m \in 0 .. cap + 1 : buf[p - 1] \in [Span(m) -> Word]
          BY <1>2, <5>1
        <5> QED
          BY <4>1, <5>3, <5>4 DEF Seen, RowsOf
      <4>2. CASE ~(p > 0 /\ \A j \in Span(p) : buf[j] = Prefix(buf[p - 1], j + 1))
        BY <4>2, <1>1 DEF Seen, RowsOf
      <4> QED
        BY <4>1, <4>2
    <3>2. Extend(Seen(buf, p), p, toks) \in [Span(p + Len(toks)) -> Word]
      BY <3>1, ExtendType
    <3>3. Span(i + 1) \subseteq Span(p + Len(toks))
      BY <1>3, <2>1 DEF Span
    <3>4. Prefix(Extend(Seen(buf, p), p, toks), i + 1) \in [Span(i + 1) -> Word]
      BY <3>2, <3>3 DEF Prefix
    <3> QED
      BY <2>1, <2>2, <3>4 DEF BlockRow
  <2>3. CASE Visible(p, i - p, cap, keys) # p + (i - p) + 1
    BY <1>1, <2>1, <2>3 DEF BlockRow
  <2> QED
    BY <2>2, <2>3
<1> QED
  BY <1>2, <1>3 DEF Scatter, Buffer

\* A key bucket holds what was asked for.
LEMMA BucketHolds ==
  ASSUME NEW need \in Nat \ {0}, NEW step \in Nat \ {0}, NEW full \in Nat,
         need <= full
  PROVE  KeyBucket(need, step, full) \in Int /\ KeyBucket(need, step, full) >= need
<1> DEFINE q == (need + step - 1) \div step
           r == (need + step - 1) % step
<1>1. q \in Int /\ r \in 0 .. step - 1 /\ need + step - 1 = step * q + r
  OBVIOUS
<1>2. step * q \in Int /\ step * q = q * step
  BY <1>1
<1>3. q * step >= need /\ q * step \in Int
  BY <1>1, <1>2
<1>4. Greatest(need, 1) = need
  BY DEF Greatest
<1>5. DivCeil(need, step) * step = q * step
  BY DEF DivCeil
<1> HIDE DEF q
<1> QED
  BY <1>3, <1>4, <1>5 DEF KeyBucket, Least
=============================================================================
