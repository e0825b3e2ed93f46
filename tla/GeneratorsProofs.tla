-------------------------- MODULE GeneratorsProofs --------------------------
(***************************************************************************)
(* Proofs about Generators and CachePlans, for every set of plans, every   *)
(* smallest bucket and number of wide recipes: the card is accounted for,  *)
(* what a refusal names is the largest capacity that fits, and what was    *)
(* approved fits at every step of a growth.                                *)
(***************************************************************************)
EXTENDS Generators, FiniteSetTheorems, SequenceTheorems, TLAPS

K == INSTANCE KvCacheProofs WITH Token <- {0}, Garbage <- 1

-----------------------------------------------------------------------------
(* Recursion and sums.                                                     *)

LEMMA Minimum ==
  ASSUME NEW T, T \subseteq Nat, T # {}
  PROVE  \E x \in T : \A y \in T : x <= y
<1>1. {0} # {} /\ 1 \notin {0}
  OBVIOUS
<1> QED
  BY <1>1, K!Minimum, Zenon

LEMMA Induction ==
  ASSUME NEW S, 0 \in S, \A n \in Nat : n \in S => n + 1 \in S
  PROVE  Nat \subseteq S
BY K!Induction

LEMMA SameDoubled == \A n : Shape!Doubled(n) = K!Doubled(n)
BY DEF Shape!Doubled, K!Doubled

LEMMA BucketHolds ==
  ASSUME NEW need \in Nat, NEW minCap \in Nat \ {0}, NEW full \in Nat, need <= full
  PROVE  Shape!CacheBucket(need, minCap, full) \in need .. full
<1>1. K!CacheBucket(need, minCap, full) \in need .. full
  BY K!CacheBucketHolds
<1>2. Shape!CacheBucket(need, minCap, full) = K!CacheBucket(need, minCap, full)
  BY DEF Shape!CacheBucket, K!CacheBucket, Shape!Least, K!Least, Shape!Span, K!Span,
         Shape!Doubled, K!Doubled
<1> QED
  BY <1>1, <1>2

LEMMA DoubledIs ==
  ASSUME NEW n \in Nat
  PROVE  /\ Shape!Doubled(n) \in [Nat -> Nat]
         /\ Shape!Doubled(n)[0] = n
         /\ \A k \in Nat : Shape!Doubled(n)[k + 1] = 2 * Shape!Doubled(n)[k]
BY K!DoubledIs DEF Shape!Doubled, K!Doubled

\* f is computed by recursion along g, below n in the measure m: out where s is
\* done, else c of s and of what it is at g[s].
Solves(S, done, out, g, c, m, n, f) ==
  \A s \in S : m[s] < n => f[s] = IF s \in done THEN out[s] ELSE c[<<s, f[g[s]]>>]

LEMMA SolutionsExist ==
  ASSUME NEW S, NEW V, NEW done, NEW out \in [S -> V], NEW g \in [S -> S],
         NEW c \in [S \X V -> V], NEW m \in [S -> Nat],
         \A s \in S : s \notin done => m[g[s]] < m[s]
  PROVE  \A n \in Nat : \E f \in [S -> V] : Solves(S, done, out, g, c, m, n, f)
<1> DEFINE T == {n \in Nat : \E f \in [S -> V] : Solves(S, done, out, g, c, m, n, f)}
<1>1. 0 \in T
  <2>1. \A s \in S : ~(m[s] < 0)
    OBVIOUS
  <2> QED
    BY <2>1 DEF Solves
<1>2. ASSUME NEW n \in Nat, n \in T PROVE n + 1 \in T
  <2>1. PICK f \in [S -> V] : Solves(S, done, out, g, c, m, n, f)
    BY <1>2
  <2> DEFINE h == [s \in S |-> IF s \in done THEN out[s] ELSE c[<<s, f[g[s]]>>]]
  <2>2. h \in [S -> V]
    OBVIOUS
  <2>3. ASSUME NEW s \in S, m[s] < n + 1, s \notin done PROVE h[s] = c[<<s, h[g[s]]>>]
    <3>1. g[s] \in S /\ m[g[s]] < n
      BY <2>3
    <3>2. f[g[s]] = h[g[s]]
      BY <2>1, <3>1 DEF Solves
    <3> QED
      BY <2>3, <3>2
  <2>4. \A s \in S : s \in done => h[s] = out[s]
    OBVIOUS
  <2> HIDE DEF h
  <2>5. Solves(S, done, out, g, c, m, n + 1, h)
    BY <2>3, <2>4 DEF Solves
  <2> QED
    BY <2>2, <2>5
<1> HIDE DEF T
<1>3. Nat \subseteq T
  BY <1>1, <1>2, Induction
<1> QED
  BY <1>3 DEF T

LEMMA SolutionsAgree ==
  ASSUME NEW S, NEW done, NEW out, NEW g \in [S -> S], NEW c, NEW m \in [S -> Nat],
         \A s \in S : s \notin done => m[g[s]] < m[s],
         NEW n \in Nat, NEW f, Solves(S, done, out, g, c, m, n, f),
         NEW l \in Nat, NEW h, Solves(S, done, out, g, c, m, l, h)
  PROVE  \A s \in S : m[s] < n /\ m[s] < l => f[s] = h[s]
<1> DEFINE T == {k \in Nat : \A s \in S : m[s] < k /\ m[s] < n /\ m[s] < l => f[s] = h[s]}
<1>1. 0 \in T
  OBVIOUS
<1>2. ASSUME NEW k \in Nat, k \in T PROVE k + 1 \in T
  <2> SUFFICES ASSUME NEW s \in S, m[s] < k + 1, m[s] < n, m[s] < l PROVE f[s] = h[s]
    OBVIOUS
  <2>1. CASE s \in done
    BY <2>1 DEF Solves
  <2>2. CASE s \notin done
    <3>1. g[s] \in S /\ m[g[s]] < m[s] /\ m[g[s]] \in Nat /\ m[s] \in Nat
      BY <2>2
    <3>2. m[g[s]] < k /\ m[g[s]] < n /\ m[g[s]] < l
      BY <3>1
    <3>3. f[g[s]] = h[g[s]]
      BY <1>2, <3>1, <3>2
    <3> QED
      BY <2>2, <3>3 DEF Solves
  <2> QED
    BY <2>1, <2>2
<1> HIDE DEF T
<1>3. Nat \subseteq T
  BY <1>1, <1>2, Induction
<1> QED
  <2> TAKE s \in S
  <2>1. m[s] + 1 \in T /\ m[s] < m[s] + 1
    BY <1>3
  <2> QED
    BY <2>1 DEF T

\* The functions defined by such a recursion: there is one, and only one.
Recursive(S, done, out, g, c, f) ==
  \A s \in S : f[s] = IF s \in done THEN out[s] ELSE c[<<s, f[g[s]]>>]

LEMMA Recursion ==
  ASSUME NEW S, NEW V, NEW done, NEW out \in [S -> V], NEW g \in [S -> S],
         NEW c \in [S \X V -> V], NEW m \in [S -> Nat],
         \A s \in S : s \notin done => m[g[s]] < m[s]
  PROVE  \E f \in [S -> V] : Recursive(S, done, out, g, c, f)
<1> DEFINE F(n) == CHOOSE f \in [S -> V] : Solves(S, done, out, g, c, m, n, f)
           f == [s \in S |-> F(m[s] + 1)[s]]
<1>1. \A n \in Nat : F(n) \in [S -> V] /\ Solves(S, done, out, g, c, m, n, F(n))
  BY SolutionsExist
<1> HIDE DEF F
<1>2. ASSUME NEW s \in S PROVE m[s] \in Nat /\ m[s] + 1 \in Nat /\ F(m[s] + 1) \in [S -> V]
  BY <1>1
<1>3. f \in [S -> V]
  BY <1>2
<1>4. ASSUME NEW s \in S PROVE f[s] = IF s \in done THEN out[s] ELSE c[<<s, f[g[s]]>>]
  <2>1. Solves(S, done, out, g, c, m, m[s] + 1, F(m[s] + 1)) /\ m[s] < m[s] + 1
    BY <1>1, <1>2
  <2>2. CASE s \in done
    BY <2>1, <2>2 DEF Solves
  <2>3. CASE s \notin done
    <3>1. g[s] \in S /\ m[g[s]] < m[s]
      BY <2>3
    <3>2. m[g[s]] + 1 \in Nat /\ m[g[s]] < m[g[s]] + 1 /\ m[g[s]] < m[s] + 1
      BY <1>2, <3>1
    <3>3. Solves(S, done, out, g, c, m, m[g[s]] + 1, F(m[g[s]] + 1))
      BY <1>1, <3>2
    <3>4. F(m[s] + 1)[g[s]] = F(m[g[s]] + 1)[g[s]]
      BY <1>2, <2>1, <3>1, <3>2, <3>3, SolutionsAgree
    <3>5. F(m[s] + 1)[s] = c[<<s, F(m[s] + 1)[g[s]]>>]
      BY <2>1, <2>3 DEF Solves
    <3> QED
      BY <2>3, <3>1, <3>4, <3>5
  <2> QED
    BY <2>2, <2>3
<1> HIDE DEF f
<1> QED
  BY <1>3, <1>4 DEF Recursive

LEMMA RecursionAgrees ==
  ASSUME NEW S, NEW done, NEW out, NEW g \in [S -> S], NEW c, NEW m \in [S -> Nat],
         \A s \in S : s \notin done => m[g[s]] < m[s],
         NEW f, Recursive(S, done, out, g, c, f),
         NEW h, Recursive(S, done, out, g, c, h)
  PROVE  \A s \in S : f[s] = h[s]
<1> TAKE s \in S
<1>1. m[s] + 1 \in Nat /\ m[s] < m[s] + 1
  OBVIOUS
<1>2. /\ Solves(S, done, out, g, c, m, m[s] + 1, f)
      /\ Solves(S, done, out, g, c, m, m[s] + 1, h)
  BY DEF Solves, Recursive
<1> QED
  BY <1>1, <1>2, SolutionsAgree

LEMMA Pairs ==
  ASSUME NEW A, NEW B
  PROVE  /\ \A x \in A \X B : x[1] \in A /\ x[2] \in B
         /\ \A u \in A, v \in B : <<u, v>> \in A \X B
OBVIOUS

\* f is the sum of b over each set of elements of C.
Sums(b, C, f) ==
  \A S \in SUBSET C :
    f[S] = IF S = {} THEN 0
           ELSE b[CHOOSE r \in S : TRUE] + f[S \ {CHOOSE r \in S : TRUE}]

\* A set without one of its elements.
LEMMA Without ==
  ASSUME NEW C, IsFiniteSet(C), NEW S \in SUBSET C, NEW r \in S
  PROVE  /\ S \ {r} \in SUBSET C
         /\ IsFiniteSet(S) /\ Cardinality(S) \in Nat /\ Cardinality(S \ {r}) \in Nat
         /\ Cardinality(S) = Cardinality(S \ {r}) + 1
<1>1. IsFiniteSet(S)
  BY FS_Subset
<1>2. IsFiniteSet(S \ {r})
  BY <1>1, FS_Subset
<1>3. Cardinality(S) \in Nat /\ Cardinality(S \ {r}) \in Nat
  BY <1>1, <1>2, FS_CardinalityType
<1>4. Cardinality(S \ {r}) = Cardinality(S) - 1
  BY <1>1, FS_RemoveElement
<1> QED
  BY <1>1, <1>3, <1>4

LEMMA SumExists ==
  ASSUME NEW C, IsFiniteSet(C), NEW b, \A r \in C : b[r] \in Nat
  PROVE  \E f \in [SUBSET C -> Nat] : Sums(b, C, f)
<1> DEFINE pick(S) == CHOOSE r \in S : TRUE
           out == [S \in SUBSET C |-> 0]
           g == [S \in SUBSET C |-> IF S = {} THEN S ELSE S \ {pick(S)}]
           c == [x \in (SUBSET C) \X Nat |-> IF x[1] = {} THEN 0 ELSE b[pick(x[1])] + x[2]]
           m == [S \in SUBSET C |-> Cardinality(S)]
<1>1. \A S \in SUBSET C : S # {} => pick(S) \in S /\ pick(S) \in C
  OBVIOUS
<1>2. \A S \in SUBSET C : S # {} => /\ S \ {pick(S)} \in SUBSET C
                                     /\ Cardinality(S \ {pick(S)}) < Cardinality(S)
  <2> TAKE S \in SUBSET C
  <2> HAVE S # {}
  <2>1. pick(S) \in S
    BY <1>1
  <2> HIDE DEF pick
  <2> QED
    BY <2>1, Without
<1>3. \A S \in SUBSET C : Cardinality(S) \in Nat
  BY FS_Subset, FS_CardinalityType
<1> HIDE DEF pick
<1>4. out \in [SUBSET C -> Nat] /\ g \in [SUBSET C -> SUBSET C] /\ m \in [SUBSET C -> Nat]
  BY <1>2, <1>3
<1>5. c \in [(SUBSET C) \X Nat -> Nat]
  <2>1. ASSUME NEW x \in (SUBSET C) \X Nat
        PROVE  (IF x[1] = {} THEN 0 ELSE b[pick(x[1])] + x[2]) \in Nat
    <3>1. x[1] \in SUBSET C /\ x[2] \in Nat
      BY Pairs, Zenon
    <3>2. x[1] # {} => b[pick(x[1])] \in Nat
      BY <1>1, <3>1
    <3> QED
      BY <3>1, <3>2
  <2> QED
    BY <2>1
<1>6. \A S \in SUBSET C : S \notin {{}} => m[g[S]] < m[S]
  BY <1>2
<1>7. PICK f \in [SUBSET C -> Nat] : Recursive(SUBSET C, {{}}, out, g, c, f)
  <2> DEFINE P == SUBSET C
             D == {{}}
  <2>1. out \in [P -> Nat] /\ g \in [P -> P] /\ m \in [P -> Nat]
    BY <1>4
  <2>2. c \in [P \X Nat -> Nat]
    BY <1>5
  <2>3. \A S \in P : S \notin D => m[g[S]] < m[S]
    BY <1>6
  <2> HIDE DEF out, g, c, m, P, D
  <2>4. \E f \in [P -> Nat] : Recursive(P, D, out, g, c, f)
    BY <2>1, <2>2, <2>3, Recursion
  <2> QED
    BY <2>4 DEF P, D
<1>8. ASSUME NEW S \in SUBSET C
      PROVE  f[S] = IF S = {} THEN 0 ELSE b[pick(S)] + f[S \ {pick(S)}]
  <2>1. f[S] = IF S \in {{}} THEN out[S] ELSE c[<<S, f[g[S]]>>]
    BY <1>7 DEF Recursive
  <2>2. CASE S = {}
    BY <2>1, <2>2
  <2>3. CASE S # {}
    <3>1. g[S] = S \ {pick(S)} /\ g[S] \in SUBSET C
      BY <1>2, <2>3
    <3>2. <<S, f[g[S]]>> \in (SUBSET C) \X Nat
      <4>1. f[g[S]] \in Nat
        BY <3>1
      <4> QED
        BY <4>1, Pairs, Zenon
    <3>3. c[<<S, f[g[S]]>>] = b[pick(S)] + f[g[S]]
      BY <2>3, <3>2
    <3> QED
      BY <2>1, <2>3, <3>1, <3>3
  <2> QED
    BY <2>2, <2>3
<1> QED
  BY <1>8 DEF Sums, pick

LEMMA SumsAgree ==
  ASSUME NEW C, IsFiniteSet(C), NEW b, NEW f, Sums(b, C, f), NEW h, Sums(b, C, h)
  PROVE  f[C] = h[C]
<1> DEFINE T == {n \in Nat : \A S \in SUBSET C : Cardinality(S) = n => f[S] = h[S]}
<1>0. \A S \in SUBSET C : IsFiniteSet(S)
  BY FS_Subset
<1>1. 0 \in T
  <2> SUFFICES ASSUME NEW S \in SUBSET C, Cardinality(S) = 0 PROVE f[S] = h[S]
    OBVIOUS
  <2>1. S = {}
    BY <1>0, FS_EmptySet
  <2> QED
    BY <2>1 DEF Sums
<1>2. ASSUME NEW n \in Nat, n \in T PROVE n + 1 \in T
  <2> SUFFICES ASSUME NEW S \in SUBSET C, Cardinality(S) = n + 1 PROVE f[S] = h[S]
    OBVIOUS
  <2>1. S # {}
    BY FS_EmptySet
  <2> DEFINE r == CHOOSE r \in S : TRUE
  <2>2. r \in S
    BY <2>1
  <2>3. f[S] = b[r] + f[S \ {r}] /\ h[S] = b[r] + h[S \ {r}]
    BY <2>1 DEF Sums
  <2> HIDE DEF r
  <2>4. S \ {r} \in SUBSET C /\ Cardinality(S \ {r}) = n
    BY <2>2, Without
  <2> QED
    BY <1>2, <2>3, <2>4
<1> HIDE DEF T
<1>3. Nat \subseteq T
  BY <1>1, <1>2, Induction
<1> QED
  BY <1>0, <1>3, FS_CardinalityType DEF T

\* b is a weight of each element of C, and f their sums.
Summed(b, C, f) ==
  IsFiniteSet(C) /\ (\A r \in C : b[r] \in Nat) /\ f \in [SUBSET C -> Nat] /\ Sums(b, C, f)

\* The sum does not depend on the order of the elements.
LEMMA SumAdds ==
  ASSUME NEW C, NEW b, NEW f, Summed(b, C, f)
  PROVE  \A S \in SUBSET C : \A x \in C : x \notin S => f[S \cup {x}] = f[S] + b[x]
<1> USE DEF Summed
<1> DEFINE T == {n \in Nat : \A S \in SUBSET C : Cardinality(S) = n =>
                     \A x \in C : x \notin S => f[S \cup {x}] = f[S] + b[x]}
<1>0. \A S \in SUBSET C : IsFiniteSet(S) /\ f[S] \in Nat
  BY FS_Subset
<1>1. 0 \in T
  <2> SUFFICES ASSUME NEW S \in SUBSET C, Cardinality(S) = 0, NEW x \in C
               PROVE  f[S \cup {x}] = f[S] + b[x]
    OBVIOUS
  <2>1. S = {} /\ S \cup {x} = {x} /\ {x} \in SUBSET C /\ {} \in SUBSET C
    BY <1>0, FS_EmptySet
  <2>2. (CHOOSE r \in {x} : TRUE) = x /\ {x} \ {x} = {} /\ {x} # {}
    OBVIOUS
  <2>3. f[{x}] = b[x] + f[{}] /\ f[{}] = 0
    BY <2>1, <2>2 DEF Sums
  <2> QED
    BY <2>1, <2>3
<1>2. ASSUME NEW n \in Nat, n \in T PROVE n + 1 \in T
  <2> SUFFICES ASSUME NEW S \in SUBSET C, Cardinality(S) = n + 1, NEW x \in C, x \notin S
               PROVE  f[S \cup {x}] = f[S] + b[x]
    OBVIOUS
  <2>1. S \cup {x} \in SUBSET C /\ S \cup {x} # {}
    OBVIOUS
  <2> DEFINE r == CHOOSE r \in S \cup {x} : TRUE
  <2>2. r \in S \cup {x}
    BY <2>1
  <2>3. f[S \cup {x}] = b[r] + f[(S \cup {x}) \ {r}]
    BY <2>1 DEF Sums
  <2> HIDE DEF r
  <2>4. CASE r = x
    <3>1. (S \cup {x}) \ {r} = S
      BY <2>4
    <3>2. f[S \cup {x}] = b[x] + f[S]
      BY <2>3, <2>4, <3>1
    <3>3. b[x] \in Nat /\ f[S] \in Nat
      BY <1>0
    <3> QED
      BY <3>2, <3>3
  <2>5. CASE r \in S
    <3>1. S \ {r} \in SUBSET C /\ Cardinality(S \ {r}) = n
      BY <2>5, Without
    <3>2. (S \cup {x}) \ {r} = (S \ {r}) \cup {x} /\ (S \ {r}) \cup {r} = S
      BY <2>5
    <3>3. f[(S \ {r}) \cup {x}] = f[S \ {r}] + b[x]
      BY <1>2, <3>1
    <3>4. f[(S \ {r}) \cup {r}] = f[S \ {r}] + b[r]
      BY <1>2, <2>5, <3>1
    <3>5. b[x] \in Nat /\ b[r] \in Nat /\ f[S \ {r}] \in Nat
      BY <1>0, <2>5, <3>1
    <3>6. f[S] = f[S \ {r}] + b[r]
      BY <3>2, <3>4
    <3>7. f[S \cup {x}] = b[r] + (f[S \ {r}] + b[x])
      BY <2>3, <3>2, <3>3
    <3> QED
      BY <3>5, <3>6, <3>7
  <2> QED
    BY <2>2, <2>4, <2>5
<1> HIDE DEF T
<1>3. Nat \subseteq T
  BY <1>1, <1>2, Induction
<1> QED
  <2> TAKE S \in SUBSET C
  <2>1. Cardinality(S) \in Nat
    BY <1>0, FS_CardinalityType
  <2> QED
    BY <1>3, <2>1 DEF T

LEMMA SumAddsOne ==
  ASSUME NEW C, NEW b, NEW f, Summed(b, C, f), NEW S \in SUBSET C, NEW x \in C, x \notin S
  PROVE  f[S \cup {x}] = f[S] + b[x]
BY SumAdds

LEMMA SumGrows ==
  ASSUME NEW C, NEW b, NEW f, Summed(b, C, f)
  PROVE  \A S \in SUBSET C : f[S] <= f[C]
<1> USE DEF Summed
<1> DEFINE T == {n \in Nat : \A S \in SUBSET C : Cardinality(C \ S) = n => f[S] <= f[C]}
<1>0. \A S \in SUBSET C : IsFiniteSet(C \ S) /\ Cardinality(C \ S) \in Nat /\ f[S] \in Nat
  BY FS_Subset, FS_CardinalityType
<1>1. 0 \in T
  <2> SUFFICES ASSUME NEW S \in SUBSET C, Cardinality(C \ S) = 0 PROVE f[S] <= f[C]
    OBVIOUS
  <2>1. C \ S = {}
    BY <1>0, FS_EmptySet
  <2>2. S = C
    BY <2>1
  <2> QED
    BY <1>0, <2>2
<1>2. ASSUME NEW n \in Nat, n \in T PROVE n + 1 \in T
  <2> SUFFICES ASSUME NEW S \in SUBSET C, Cardinality(C \ S) = n + 1 PROVE f[S] <= f[C]
    OBVIOUS
  <2>1. C \ S # {}
    <3> SUFFICES ASSUME C \ S = {} PROVE FALSE
      OBVIOUS
    <3>1. Cardinality(C \ S) = 0
      BY FS_EmptySet
    <3> QED
      BY <3>1
  <2>2. PICK x : x \in C \ S
    BY <2>1
  <2>3. C \ S \in SUBSET C /\ (C \ S) \ {x} = C \ (S \cup {x}) /\ S \cup {x} \in SUBSET C
    BY <2>2
  <2>4. Cardinality(C \ (S \cup {x})) = n
    BY <2>2, <2>3, Without
  <2>5. f[S \cup {x}] <= f[C]
    BY <1>2, <2>3, <2>4
  <2>6. f[S \cup {x}] = f[S] + b[x] /\ b[x] \in Nat
    <3>1. x \in C /\ x \notin S
      BY <2>2
    <3>2. \A U \in SUBSET C : \A y \in C : y \notin U => f[U \cup {y}] = f[U] + b[y]
      <4> HIDE DEF Summed
      <4> QED
        BY SumAdds
    <3> QED
      BY <3>1, <3>2
  <2>7. f[S] \in Nat /\ f[C] \in Nat
    BY <1>0
  <2> QED
    BY <2>5, <2>6, <2>7
<1> HIDE DEF T
<1>3. Nat \subseteq T
  BY <1>1, <1>2, Induction
<1> QED
  BY <1>0, <1>3 DEF T

-----------------------------------------------------------------------------
(* The card.                                                               *)

LEMMA Products ==
  /\ \A a, b \in Nat : a * b \in Nat
  /\ \A a, b, x \in Nat : a <= b => a * x <= b * x /\ x * a <= x * b
  /\ \A a, b \in Nat \ {0} : a * b \in Nat \ {0}
<1>1. \A a, b \in Nat : a * b \in Nat
  OBVIOUS
<1>2. ASSUME NEW a \in Nat, NEW b \in Nat, NEW x \in Nat, a <= b
      PROVE  a * x <= b * x /\ x * a <= x * b
  <2>1. (b - a) * x >= 0 /\ b * x = a * x + (b - a) * x /\ x * a = a * x /\ x * b = b * x
    BY <1>2
  <2> QED
    BY <2>1
<1>3. \A a, b \in Nat \ {0} : a * b \in Nat \ {0}
  OBVIOUS
<1> QED
  BY <1>1, <1>2, <1>3

LEMMA PositionIs == ASSUME NEW p \in Plan PROVE BytesPerPosition(p) \in Nat \ {0}
<1>1. {p.layers, p.n_kv_heads, p.head_dim} \subseteq Nat \ {0}
  BY DEF Plan
<1>2. p.n_kv_heads * p.head_dim \in Nat \ {0}
  BY <1>1, Products
<1>3. 2 * p.n_kv_heads * p.head_dim * 2 \in Nat \ {0}
  BY <1>1, <1>2
<1> QED
  BY <1>1, <1>3, Products DEF BytesPerPosition

LEMMA RuntimeIs ==
  ASSUME NEW p \in Plan
  PROVE  \A r \in Held : RuntimeBytes(p, r) \in Nat
<1> TAKE r \in Held
<1>2. BytesPerPosition(p) \in Nat
  BY PositionIs
<1>3. r.cap + 1 \in Nat /\ Slots(p, r) \in Nat /\ p.weight_bytes \in Nat
  BY DEF Held, Slots, Plan
<1>4. BytesPerPosition(p) * (r.cap + 1) * Slots(p, r) \in Nat
  BY <1>2, <1>3, Products
<1> QED
  BY <1>3, <1>4 DEF RuntimeBytes

Weights(p) == [r \in Held |-> RuntimeBytes(p, r)]

\* BytesOf is the sum its definition says.
LEMMA BytesOfIs ==
  ASSUME NEW p \in Plan, NEW C \in SUBSET Held, IsFiniteSet(C), NEW f, Sums(Weights(p), C, f)
  PROVE  BytesOf(p, C) = f[C]
<1> DEFINE D(s) == [S \in SUBSET C |->
                      IF S = {} THEN 0
                      ELSE LET r == CHOOSE r \in S : TRUE IN RuntimeBytes(p, r) + s[S \ {r}]]
           sum == CHOOSE s : s = D(s)
<1>1. BytesOf(p, C) = sum[C]
  BY DEF BytesOf
<1>2. \A r \in C : Weights(p)[r] \in Nat /\ Weights(p)[r] = RuntimeBytes(p, r)
  BY RuntimeIs DEF Weights
<1>3. PICK h \in [SUBSET C -> Nat] : Sums(Weights(p), C, h)
  BY <1>2, SumExists
<1>4. h = D(h)
  <2>1. ASSUME NEW S \in SUBSET C
        PROVE  h[S] = IF S = {} THEN 0
                      ELSE LET r == CHOOSE r \in S : TRUE IN RuntimeBytes(p, r) + h[S \ {r}]
    <3>1. S # {} => (CHOOSE r \in S : TRUE) \in C
      OBVIOUS
    <3> QED
      BY <1>2, <1>3, <3>1 DEF Sums
  <2> QED
    BY <2>1
<1>5. sum = D(sum)
  <2> HIDE DEF D
  <2> QED
    BY <1>4
<1> HIDE DEF sum
<1>6. Sums(Weights(p), C, sum)
  <2> SUFFICES ASSUME NEW S \in SUBSET C
               PROVE  sum[S] = IF S = {} THEN 0
                               ELSE Weights(p)[CHOOSE r \in S : TRUE] + sum[S \ {CHOOSE r \in S : TRUE}]
    BY DEF Sums
  <2>1. S # {} => (CHOOSE r \in S : TRUE) \in C
    OBVIOUS
  <2> QED
    BY <1>2, <1>5, <2>1
<1> QED
  BY <1>1, <1>6, SumsAgree

\* What is built is added, and what is dropped taken off.
LEMMA BytesAdd ==
  ASSUME NEW p \in Plan, NEW C \in SUBSET Held, IsFiniteSet(C)
  PROVE  /\ BytesOf(p, C) \in Nat
         /\ \A x \in Held : BytesOf(p, C \cup {x}) = BytesOf(p, C) + (IF x \in C THEN 0 ELSE RuntimeBytes(p, x))
         /\ \A S \in SUBSET C : BytesOf(p, S) <= BytesOf(p, C)
<1>1. \A D \in SUBSET Held : \A r \in D : Weights(p)[r] \in Nat /\ Weights(p)[r] = RuntimeBytes(p, r)
  BY RuntimeIs DEF Weights
<1>2. PICK f \in [SUBSET C -> Nat] : Sums(Weights(p), C, f)
  BY <1>1, SumExists
<1>3. BytesOf(p, C) = f[C] /\ f[C] \in Nat
  BY <1>2, BytesOfIs
<1>4. ASSUME NEW x \in Held, x \notin C PROVE BytesOf(p, C \cup {x}) = BytesOf(p, C) + RuntimeBytes(p, x)
  <2>1. C \cup {x} \in SUBSET Held /\ IsFiniteSet(C \cup {x})
    BY FS_AddElement
  <2>2. PICK h : h \in [SUBSET (C \cup {x}) -> Nat] /\ Sums(Weights(p), C \cup {x}, h)
    BY <1>1, <2>1, SumExists
  <2>3. BytesOf(p, C \cup {x}) = h[C \cup {x}]
    BY <2>1, <2>2, BytesOfIs
  <2>4. Sums(Weights(p), C, h)
    BY <2>2 DEF Sums
  <2>5. BytesOf(p, C) = h[C]
    BY <2>4, BytesOfIs
  <2>6. h[C \cup {x}] = h[C] + Weights(p)[x]
    <3> DEFINE D == C \cup {x}
    <3>1. D \in SUBSET Held /\ IsFiniteSet(D) /\ C \in SUBSET D /\ x \in D /\ D = C \cup {x}
      BY <2>1
    <3>2. h \in [SUBSET D -> Nat] /\ Sums(Weights(p), D, h)
      BY <2>2
    <3> HIDE DEF D
    <3>3. \A r \in D : Weights(p)[r] \in Nat
      BY <1>1, <3>1
    <3>4. Summed(Weights(p), D, h)
      BY <3>1, <3>2, <3>3 DEF Summed
    <3> QED
      BY <1>4, <3>1, <3>4, SumAddsOne
  <2> QED
    BY <1>1, <2>1, <2>3, <2>5, <2>6
<1>5. ASSUME NEW x \in C PROVE BytesOf(p, C \cup {x}) = BytesOf(p, C)
  <2>1. C \cup {x} = C
    OBVIOUS
  <2> QED
    BY <2>1
<1>6. ASSUME NEW S \in SUBSET C PROVE BytesOf(p, S) <= BytesOf(p, C)
  <2>1. S \in SUBSET Held /\ IsFiniteSet(S) /\ Sums(Weights(p), S, f)
    BY <1>2, FS_Subset DEF Sums
  <2>2. BytesOf(p, S) = f[S]
    BY <2>1, BytesOfIs
  <2>3. f[S] <= f[C]
    <3>1. Summed(Weights(p), C, f)
      BY <1>1, <1>2 DEF Summed
    <3> QED
      BY <3>1, SumGrows
  <2> QED
    BY <1>3, <2>2, <2>3
<1> QED
  BY <1>3, <1>4, <1>5, <1>6

-----------------------------------------------------------------------------
(* What a step leaves of the definitions that read the state.              *)

USE PlanAssumption, BucketAssumption

LEMMA PlanIs ==
  ASSUME NEW p \in Plan
  PROVE  /\ p.capacity \in Nat \ {0} /\ p.batch \in Nat /\ p.device_bytes \in Nat
         /\ p.weight_bytes \in Nat /\ p.reserve_bytes \in Nat
         /\ p.rows \in Nat \ {0}
BY DEF Plan

\* The bucket a call reaches holds what it asks for, within the ceiling.
LEMMA Allocated ==
  ASSUME NEW p \in Plan, NEW need \in 1 .. p.capacity
  PROVE  AllocatedCapacity(p, need) \in need .. p.capacity
<1>1. p.capacity \in Nat
  BY PlanIs
<1>2. CASE Single(p)
  BY <1>1, <1>2 DEF AllocatedCapacity
<1>3. CASE ~Single(p)
  <2>1. Shape!CacheBucket(need, MinCapacity, p.capacity) \in need .. p.capacity
    <3>1. need \in Nat /\ MinCapacity \in Nat \ {0} /\ need <= p.capacity
      BY <1>1
    <3> QED
      BY <1>1, <3>1, BucketHolds
  <2> QED
    BY <1>3, <2>1 DEF AllocatedCapacity
<1> QED
  BY <1>2, <1>3

LEMMA AllocatedIsBucket ==
  ASSUME plan \in Plan, NEW need \in 1 .. plan.capacity
  PROVE  IsBucket(AllocatedCapacity(plan, need))
<1>1. CASE Single(plan)
  BY <1>1 DEF AllocatedCapacity, IsBucket
<1>2. CASE ~Single(plan)
  <2> DEFINE d == Shape!Doubled(MinCapacity)
             k == CHOOSE k \in 0 .. need : d[k] >= need /\ \A j \in Shape!Span(k) : d[j] < need
  <2>1. \E n \in 0 .. need : d[n] >= need /\ \A j \in Shape!Span(n) : d[j] < need
    <3>1. need \in Nat /\ MinCapacity \in Nat \ {0}
      BY PlanIs
    <3>2. \E n \in 0 .. need : /\ K!Doubled(MinCapacity)[n] >= need
                               /\ \A j \in K!Span(n) : K!Doubled(MinCapacity)[j] < need
      BY <3>1, K!FirstDoubling
    <3> QED
      BY <3>2 DEF Shape!Doubled, K!Doubled, Shape!Span, K!Span
  <2> HIDE DEF d
  <2>2. k \in 0 .. need
    BY <2>1
  <2>3. AllocatedCapacity(plan, need) = Shape!Least(d[k], plan.capacity)
    BY <1>2 DEF AllocatedCapacity, Shape!CacheBucket, d
  <2> HIDE DEF k
  <2>4. k \in 0 .. plan.capacity
    BY <2>2, PlanIs
  <2> QED
    BY <1>2, <2>3, <2>4 DEF IsBucket, d
<1> QED
  BY <1>1, <1>2

LEMMA FirstIs ==
  ASSUME plan \in Plan
  PROVE  FirstCapacity \in 1 .. plan.capacity
<1>1. 1 \in 1 .. plan.capacity
  BY PlanIs
<1> QED
  BY <1>1, Allocated DEF FirstCapacity

\* What a call that asks for n positions finds afterwards.
LEMMA ReachedIs ==
  ASSUME plan \in Plan, cap \in Nat, NEW n \in 1 .. plan.capacity
  PROVE  /\ Reached(n) \in Nat /\ n <= Reached(n) /\ cap <= Reached(n)
         /\ IsBucket(cap) => IsBucket(Reached(n))
<1>1. plan.capacity \in Nat /\ AllocatedCapacity(plan, n) \in n .. plan.capacity
  BY PlanIs, Allocated
<1>2. IsBucket(AllocatedCapacity(plan, n))
  BY AllocatedIsBucket
<1> QED
  BY <1>1, <1>2 DEF Reached

LEMMA SamePlan ==
  ASSUME plan' = plan
  PROVE  /\ FirstCapacity' = FirstCapacity
         /\ \A c : RuntimesOf(c)' = RuntimesOf(c)
         /\ \A c : IsBucket(c)' = IsBucket(c)
         /\ Firsts' = Firsts
         /\ cap' = cap => /\ Now' = Now
                          /\ \A n : Growth(n)' = Growth(n) /\ Reached(n)' = Reached(n)
<1>1. FirstCapacity' = FirstCapacity
  BY DEF FirstCapacity
<1>2. \A c : RuntimesOf(c)' = RuntimesOf(c)
  BY <1>1 DEF RuntimesOf
<1>3. \A c : IsBucket(c)' = IsBucket(c)
  BY DEF IsBucket
<1>4. Firsts' = Firsts
  BY <1>1 DEF Firsts
<1>5. ASSUME cap' = cap
      PROVE  /\ Now' = Now
             /\ \A n : Growth(n)' = Growth(n) /\ Reached(n)' = Reached(n)
  <2>1. Now' = Now
    BY <1>2, <1>5 DEF Now
  <2>2. \A n : Growth(n)' = Growth(n)
    BY <1>5 DEF Growth
  <2>3. \A n : Reached(n)' = Reached(n)
    BY <1>5 DEF Reached
  <2> QED
    BY <2>1, <2>2, <2>3
<1> QED
  BY <1>1, <1>2, <1>3, <1>4, <1>5

-----------------------------------------------------------------------------
(* Each call and each build preserves the invariant.                       *)

LEMMA TypeFacts ==
  ASSUME TypeOK
  PROVE  /\ plan \in Plan /\ cap \in Nat /\ leaked \in Nat
         /\ plan.capacity \in Nat \ {0} /\ plan.batch \in Nat /\ plan.device_bytes \in Nat
         /\ FirstCapacity \in 1 .. plan.capacity
         /\ card \in SUBSET Held /\ IsFiniteSet(card)
         /\ BytesOf(plan, card) \in Nat /\ InUse = leaked + BytesOf(plan, card)
         /\ ~Single(plan) => plan.batch \in Nat \ {0}
         /\ cap > 0 => pos \in [1 .. plan.batch -> 0 .. cap]
<1>1. plan \in Plan
  BY DEF TypeOK
<1>2. BytesOf(plan, card) \in Nat
  BY <1>1, BytesAdd DEF TypeOK
<1> QED
  BY <1>1, <1>2, PlanIs, FirstIs DEF TypeOK, InUse, Single

\* A runtime is on the card's books.
LEMMA RuntimesAreHeld ==
  ASSUME NEW c \in Nat, plan \in Plan
  PROVE  RuntimesOf(c) \in SUBSET Held /\ IsFiniteSet(RuntimesOf(c))
<1>1. FirstCapacity \in Nat
  BY FirstIs, PlanIs
<1>2. {Runtime("base", c), Runtime("base", FirstCapacity), Runtime("prefill", c),
       Runtime("decode", c)} \in SUBSET Held
  BY <1>1 DEF Runtime, Held
<1>3. RuntimesOf(c) \subseteq {Runtime("base", c), Runtime("base", FirstCapacity),
                               Runtime("prefill", c), Runtime("decode", c)}
  BY DEF RuntimesOf
<1>4. IsFiniteSet({Runtime("base", c), Runtime("base", FirstCapacity), Runtime("prefill", c),
                   Runtime("decode", c)})
  <2>1. IsFiniteSet({})
    BY FS_EmptySet
  <2>2. IsFiniteSet({Runtime("base", c)})
    BY FS_Singleton
  <2>3. IsFiniteSet({Runtime("base", c)} \cup {Runtime("base", FirstCapacity)})
    BY <2>2, FS_AddElement
  <2>4. IsFiniteSet(({Runtime("base", c)} \cup {Runtime("base", FirstCapacity)})
                    \cup {Runtime("prefill", c)})
    BY <2>3, FS_AddElement
  <2>5. IsFiniteSet((({Runtime("base", c)} \cup {Runtime("base", FirstCapacity)})
                    \cup {Runtime("prefill", c)}) \cup {Runtime("decode", c)})
    BY <2>4, FS_AddElement
  <2>6. {Runtime("base", c), Runtime("base", FirstCapacity), Runtime("prefill", c),
         Runtime("decode", c)}
        = (({Runtime("base", c)} \cup {Runtime("base", FirstCapacity)})
                    \cup {Runtime("prefill", c)}) \cup {Runtime("decode", c)}
    OBVIOUS
  <2> QED
    BY <2>5, <2>6
<1> QED
  BY <1>2, <1>3, <1>4, FS_Subset

\* What there is to build is a sequence of runtimes, at most two.
LEMMA GrowthIs ==
  ASSUME plan \in Plan, NEW n \in 1 .. plan.capacity
  PROVE  /\ Growth(n) \in Seq(Held)
         /\ \/ n <= cap /\ Growth(n) = <<>> /\ Reached(n) = cap
            \/ /\ ~(n <= cap) /\ Reached(n) = AllocatedCapacity(plan, n)
               /\ Growth(n) = <<Runtime("decode", Reached(n)), Runtime("prefill", Reached(n))>>
<1>1. AllocatedCapacity(plan, n) \in Nat
  BY Allocated, PlanIs
<1>2. Runtime("decode", AllocatedCapacity(plan, n)) \in Held
      /\ Runtime("prefill", AllocatedCapacity(plan, n)) \in Held
  BY <1>1 DEF Held, Runtime
<1> QED
  BY <1>1, <1>2 DEF Growth, Reached

LEMMA FirstsIs ==
  ASSUME plan \in Plan
  PROVE  /\ Firsts \in Seq(Held)
         /\ Firsts = IF Single(plan) THEN <<Runtime("base", FirstCapacity)>>
                     ELSE <<Runtime("base", FirstCapacity), Runtime("prefill", FirstCapacity)>>
<1>1. FirstCapacity \in Nat
  BY FirstIs, PlanIs
<1>2. Runtime("base", FirstCapacity) \in Held /\ Runtime("prefill", FirstCapacity) \in Held
  BY <1>1 DEF Held, Runtime
<1>3. Firsts = IF Single(plan) THEN <<Runtime("base", FirstCapacity)>>
               ELSE <<Runtime("base", FirstCapacity), Runtime("prefill", FirstCapacity)>>
  <2>1. ASSUME NEW x \in Held, NEW y \in Held
        PROVE  <<x>> \o <<>> = <<x>> /\ <<x>> \o <<y>> = <<x, y>>
    <3>1. <<x>> \in Seq(Held) /\ <<x>> \o <<y>> = Append(<<x>>, y)
      BY AppendIsConcat
    <3>2. Append(<<x>>, y) = <<x, y>>
      <4> DEFINE s == Append(<<x>>, y)
                 t == <<x, y>>
      <4>1. s \in Seq(Held) /\ t \in Seq(Held) /\ Len(s) = 2 /\ Len(t) = 2
        OBVIOUS
      <4>2. s[1] = t[1] /\ s[2] = t[2]
        OBVIOUS
      <4> HIDE DEF s, t
      <4>3. \A i \in 1 .. Len(s) : s[i] = t[i]
        BY <4>1, <4>2
      <4>4. s = t
        BY <4>1, <4>3, SeqEqual
      <4> QED
        BY <4>4 DEF s, t
    <3>3. \A s \in Seq(Held) : s \o <<>> = s
      BY ConcatEmptySeq
    <3> QED
      BY <3>1, <3>2, <3>3, Zenon
  <2> QED
    BY <1>2, <2>1, Zenon DEF Firsts
<1> QED
  BY <1>2, <1>3

\* Nothing has been built at first,
LEMMA NoneBuilt ==
  ASSUME NEW all, all \in Seq(Held), todo' = all, card' = Now'
  PROVE  Building(all)'
<1>1. 0 \in 0 .. Len(all) /\ Len(todo') = Len(all) - 0 /\ Len(all) \in Nat
  OBVIOUS
<1>2. \A i \in 1 .. Len(todo') : todo'[i] = all[0 + i]
  OBVIOUS
<1>3. card' = Now' \cup {all[i] : i \in 1 .. 0}
  OBVIOUS
<1> QED
  BY <1>1, <1>2, <1>3 DEF Building

\* one more after each build,
LEMMA OneBuilt ==
  ASSUME NEW all, all \in Seq(Held), todo \in Seq(Held), todo # <<>>, Building(all),
         todo' = Tail(todo), card' = card \cup {Head(todo)}, Now' = Now
  PROVE  Building(all)'
<1>1. PICK k \in 0 .. Len(all) : /\ Len(todo) = Len(all) - k
                                 /\ \A i \in 1 .. Len(todo) : todo[i] = all[k + i]
                                 /\ card = Now \cup {all[i] : i \in 1 .. k}
  BY DEF Building
<1>2. Len(all) \in Nat /\ Len(todo) \in Nat \ {0} /\ k \in Nat /\ Head(todo) = todo[1]
  OBVIOUS
<1>3. k + 1 \in 0 .. Len(all) /\ Len(todo') = Len(all) - (k + 1)
  BY <1>1, <1>2
<1>4. ASSUME NEW i \in 1 .. Len(todo') PROVE todo'[i] = all[(k + 1) + i]
  <2>1. todo'[i] = todo[i + 1] /\ i + 1 \in 1 .. Len(todo)
    BY <1>2
  <2>2. todo[i + 1] = all[k + (i + 1)] /\ k + (i + 1) = (k + 1) + i
    BY <1>1, <1>2, <2>1
  <2> QED
    BY <2>1, <2>2
<1>5. card' = Now' \cup {all[i] : i \in 1 .. k + 1}
  <2>1. Head(todo) = all[k + 1]
    BY <1>1, <1>2
  <2>2. 1 .. k + 1 = (1 .. k) \cup {k + 1}
    BY <1>2
  <2>3. {all[i] : i \in 1 .. k + 1} = {all[i] : i \in 1 .. k} \cup {all[k + 1]}
    BY <2>2
  <2> QED
    BY <1>1, <2>1, <2>3
<1> QED
  BY <1>3, <1>4, <1>5 DEF Building

\* and all of them at last.
LEMMA AllBuilt ==
  ASSUME NEW all, all \in Seq(Held), todo = <<>>, Building(all)
  PROVE  card = Now \cup {all[i] : i \in 1 .. Len(all)}
<1>1. PICK k \in 0 .. Len(all) : /\ Len(todo) = Len(all) - k
                                 /\ card = Now \cup {all[i] : i \in 1 .. k}
  BY DEF Building
<1>2. Len(all) \in Nat /\ Len(todo) = 0 /\ k \in Nat
  OBVIOUS
<1>3. k = Len(all)
  BY <1>1, <1>2
<1> QED
  BY <1>1, <1>3

\* What was there stays, and what comes is to be built.
LEMMA BuildingKeeps == ASSUME NEW all, Building(all) PROVE Now \subseteq card
BY DEF Building

LEMMA NoBytes == ASSUME NEW p \in Plan PROVE BytesOf(p, {}) = 0
<1>1. Sums(Weights(p), {}, [S \in SUBSET {} |-> 0])
  BY DEF Sums
<1>2. {} \in SUBSET Held /\ {} \in SUBSET {} /\ IsFiniteSet({})
  BY FS_EmptySet
<1> QED
  BY <1>1, <1>2, BytesOfIs

LEMMA Initially == Init => IInv
<1> SUFFICES ASSUME Init PROVE IInv
  OBVIOUS
<1> USE DEF Init
<1>1. plan \in Plan
  OBVIOUS
<1>2. IsFiniteSet(card)
  BY FS_EmptySet
<1>3. TypeOK
  BY <1>2 DEF TypeOK
<1>4. BytesOf(plan, {}) = 0
  BY <1>1, NoBytes
<1>5. WithinCard
  BY <1>1, <1>4, PlanIs DEF WithinCard, InUse
<1> QED
  BY <1>3, <1>5 DEF IInv, Bucketed, UnderWay, Now, Idle

\* A step of a call that is only asked for touches neither card nor bucket.
LEMMA AskedStep ==
  ASSUME IInv, plan' = plan, cap' = cap, card' = card, leaked' = leaked, failures' = failures,
         pos' \in IF cap = 0 THEN {<<>>} ELSE [1 .. plan.batch -> 0 .. cap],
         todo' \in Seq(Held), told' \in {{}, {MaxCapacity(plan)}}
  PROVE  /\ TypeOK' /\ Bucketed' /\ WithinCard'
         /\ Now' = Now /\ FirstCapacity' = FirstCapacity
<1>1. TypeOK'
  BY DEF IInv, TypeOK
<1>2. FirstCapacity' = FirstCapacity /\ (\A c : IsBucket(c)' = IsBucket(c)) /\ Now' = Now
  BY SamePlan
<1>3. Bucketed'
  BY <1>2 DEF IInv, Bucketed
<1>4. WithinCard'
  BY DEF IInv, WithinCard, InUse
<1> QED
  BY <1>1, <1>2, <1>3, <1>4

\* A model that is ready holds what Now says.
LEMMA WhenReady ==
  ASSUME UnderWay, Ready
  PROVE  card = Now
<1>1. ask.kind = "idle"
  BY DEF Ready, Idle
<1> QED
  BY <1>1 DEF UnderWay, Idle

LEMMA RefusedStep ==
  ASSUME IInv, Ready, NEW c, Refused(c)
  PROVE  IInv'
<1>1. /\ plan' = plan /\ cap' = cap /\ card' = card /\ leaked' = leaked /\ failures' = failures
      /\ pos' = pos /\ todo' = todo /\ ask' = ask /\ told' = {MaxCapacity(plan)}
  BY DEF Refused
<1>2. TypeOK' /\ Bucketed' /\ WithinCard' /\ Now' = Now
  BY <1>1, AskedStep DEF IInv, TypeOK
<1>3. ask = Idle /\ todo = <<>> /\ card = Now
  BY WhenReady DEF Ready, IInv
<1> QED
  BY <1>1, <1>2, <1>3 DEF IInv, UnderWay

LEMMA ConstructStep == ASSUME IInv, Construct PROVE IInv'
<1>1. Ready /\ cap = 0
  BY DEF Construct
<1>2. CASE Refused(FirstCapacity)
  BY <1>1, <1>2, RefusedStep
<1>3. CASE /\ FitsAt(plan, FirstCapacity)
           /\ ask' = [kind |-> "new", cap |-> FirstCapacity]
           /\ todo' = Firsts
           /\ told' = {}
           /\ UNCHANGED <<plan, pos, cap, card, leaked, failures>>
  <2>1. TypeOK /\ UnderWay /\ plan \in Plan
    BY DEF IInv, TypeOK
  <2>2. Firsts \in Seq(Held)
    BY <2>1, FirstsIs
  <2>3. TypeOK' /\ Bucketed' /\ WithinCard' /\ Now' = Now /\ FirstCapacity' = FirstCapacity
    BY <1>3, <2>1, <2>2, AskedStep DEF TypeOK
  <2>4. Firsts' = Firsts
    BY <1>3, SamePlan
  <2>5. card = Now
    BY <1>1, <2>1, WhenReady
  <2>6. Building(Firsts)'
    BY <1>3, <2>2, <2>3, <2>4, <2>5, NoneBuilt DEF Building
  <2> QED
    BY <1>1, <1>3, <2>3, <2>6 DEF IInv, UnderWay
<1> QED
  BY <1>2, <1>3 DEF Construct, Firsts

LEMMA PrefillStep ==
  ASSUME IInv, NEW s \in DOMAIN pos, NEW n \in 1 .. plan.capacity, Prefill(s, n)
  PROVE  IInv'
<1>1. Loaded /\ Ready /\ cap > 0 /\ ~Single(plan)
  BY DEF Prefill, Loaded
<1>2. CASE Refused(AllocatedCapacity(plan, n))
  BY <1>1, <1>2, RefusedStep
<1>3. CASE /\ FitsAt(plan, AllocatedCapacity(plan, n))
           /\ pos' = [pos EXCEPT ![s] = 0]
           /\ todo' = Growth(n)
           /\ ask' = [kind |-> "prefill", s |-> s, n |-> n, cap |-> Reached(n)]
           /\ told' = {}
           /\ UNCHANGED <<plan, cap, card, leaked, failures>>
  <2>1. TypeOK /\ UnderWay /\ plan \in Plan /\ pos \in [1 .. plan.batch -> 0 .. cap] /\ cap \in Nat
    BY <1>1, TypeFacts DEF IInv
  <2>2. Growth(n) \in Seq(Held)
    BY <2>1, GrowthIs
  <2>3. pos' \in [1 .. plan.batch -> 0 .. cap] /\ s \in 1 .. plan.batch
    BY <1>3, <2>1
  <2>4. TypeOK' /\ Bucketed' /\ WithinCard' /\ Now' = Now
    <3>1. pos' \in IF cap = 0 THEN {<<>>} ELSE [1 .. plan.batch -> 0 .. cap]
      BY <1>1, <2>3
    <3> QED
      BY <1>3, <2>2, <3>1, AskedStep
  <2>5. Growth(n)' = Growth(n) /\ Reached(n)' = Reached(n)
    BY <1>3, SamePlan
  <2>6. card = Now
    BY <1>1, <2>1, WhenReady
  <2>7. Building(Growth(n))'
    BY <1>3, <2>2, <2>4, <2>5, <2>6, NoneBuilt DEF Building
  <2> QED
    BY <1>1, <1>3, <2>3, <2>4, <2>5, <2>7 DEF IInv, UnderWay
<1> QED
  BY <1>2, <1>3 DEF Prefill

\* The furthest sequence is one of them.
LEMMA FurthestIs ==
  ASSUME TypeOK, cap > 0, ~Single(plan)
  PROVE  Furthest \in 0 .. cap /\ \A s \in DOMAIN pos : pos[s] <= Furthest
<1>1. pos \in [1 .. plan.batch -> 0 .. cap] /\ plan.batch \in Nat \ {0} /\ cap \in Nat
  BY TypeFacts
<1> DEFINE T == {cap - pos[s] : s \in 1 .. plan.batch}
<1>2. T \subseteq Nat /\ T # {}
  <2>1. 1 \in 1 .. plan.batch
    BY <1>1
  <2> QED
    BY <1>1, <2>1
<1>3. PICK s \in 1 .. plan.batch : \A t \in 1 .. plan.batch : cap - pos[s] <= cap - pos[t]
  <2>1. \E x \in T : \A y \in T : x <= y
    <3> HIDE DEF T
    <3> QED
      BY <1>2, Minimum
  <2> QED
    BY <2>1
<1>4. \A t \in 1 .. plan.batch : pos[t] <= pos[s]
  BY <1>1, <1>3
<1>5. \E p \in {pos[t] : t \in DOMAIN pos} : \A t \in DOMAIN pos : pos[t] <= p
  BY <1>1, <1>4
<1>6. Furthest \in {pos[t] : t \in DOMAIN pos} /\ \A t \in DOMAIN pos : pos[t] <= Furthest
  BY <1>5 DEF Furthest
<1> QED
  BY <1>1, <1>6

LEMMA GenerateStep ==
  ASSUME IInv, NEW m \in 1 .. plan.capacity, Generate(m)
  PROVE  IInv'
<1>1. Loaded /\ Ready /\ cap > 0 /\ ~Single(plan)
  BY DEF Generate, Loaded
<1>2. CASE Refused(AllocatedCapacity(plan, Wanted(m)))
  BY <1>1, <1>2, RefusedStep
<1>3. CASE /\ FitsAt(plan, AllocatedCapacity(plan, Wanted(m)))
           /\ todo' = Growth(Wanted(m))
           /\ ask' = [kind |-> "generate", n |-> m, cap |-> Reached(Wanted(m))]
           /\ told' = {}
           /\ UNCHANGED <<plan, pos, cap, card, leaked, failures>>
  <2>1. /\ TypeOK /\ UnderWay /\ plan \in Plan /\ pos \in [1 .. plan.batch -> 0 .. cap]
        /\ cap \in Nat /\ plan.capacity \in Nat
    BY <1>1, TypeFacts DEF IInv
  <2>2. Furthest \in 0 .. cap /\ \A s \in 1 .. plan.batch : pos[s] <= Furthest
    BY <1>1, <2>1, FurthestIs
  <2>3. Furthest + m \in 1 .. plan.capacity
    BY <2>1, <2>2 DEF Generate, Wanted
  <2>4. PICK n \in 1 .. plan.capacity : n = Wanted(m)
    BY <2>3 DEF Wanted
  <2>5. m \in 1 .. n /\ \A s \in 1 .. plan.batch : pos[s] + m <= n
    BY <2>1, <2>2, <2>4 DEF Wanted
  <2>6. Growth(n) \in Seq(Held)
    BY <2>1, GrowthIs
  <2>7. TypeOK' /\ Bucketed' /\ WithinCard' /\ Now' = Now
    <3>1. pos' \in IF cap = 0 THEN {<<>>} ELSE [1 .. plan.batch -> 0 .. cap]
      BY <1>1, <1>3, <2>1
    <3>2. todo' \in Seq(Held)
      BY <1>3, <2>4, <2>6
    <3> QED
      BY <1>3, <3>1, <3>2, AskedStep
  <2>8. Growth(n)' = Growth(n) /\ Reached(n)' = Reached(n)
    BY <1>3, SamePlan
  <2>9. card = Now
    BY <1>1, <2>1, WhenReady
  <2>10. Building(Growth(n))'
    BY <1>3, <2>4, <2>6, <2>7, <2>8, <2>9, NoneBuilt DEF Building
  <2>11. ask' = [kind |-> "generate", n |-> m, cap |-> Reached(n)'] /\ FitsAt(plan', AllocatedCapacity(plan', n))
    BY <1>3, <2>4, <2>8
  <2> QED
    BY <1>1, <1>3, <2>1, <2>5, <2>7, <2>10, <2>11 DEF IInv, UnderWay
<1> QED
  BY <1>2, <1>3 DEF Generate

LEMMA BuildStep == ASSUME IInv, Build PROVE IInv'
<1>1. /\ todo # <<>> /\ RuntimeBytes(plan, Head(todo)) <= Room
      /\ card' = card \cup {Head(todo)} /\ todo' = Tail(todo)
      /\ plan' = plan /\ pos' = pos /\ cap' = cap /\ leaked' = leaked /\ ask' = ask
      /\ told' = told /\ failures' = failures
  BY DEF Build
<1>2. /\ TypeOK /\ UnderWay /\ Bucketed /\ WithinCard
      /\ plan \in Plan /\ cap \in Nat /\ leaked \in Nat /\ plan.device_bytes \in Nat
      /\ card \in SUBSET Held /\ IsFiniteSet(card) /\ todo \in Seq(Held)
      /\ BytesOf(plan, card) \in Nat /\ InUse = leaked + BytesOf(plan, card)
  BY TypeFacts DEF IInv, TypeOK
<1>3. Head(todo) \in Held /\ Tail(todo) \in Seq(Held)
  BY <1>1, <1>2
<1>4. IsFiniteSet(card')
  BY <1>1, <1>2, FS_AddElement
<1>5. /\ FirstCapacity' = FirstCapacity /\ (\A c : IsBucket(c)' = IsBucket(c)) /\ Now' = Now
      /\ Firsts' = Firsts /\ \A n : Growth(n)' = Growth(n) /\ Reached(n)' = Reached(n)
  BY <1>1, SamePlan
<1>6. TypeOK'
  BY <1>1, <1>2, <1>3, <1>4 DEF TypeOK
<1>7. Bucketed'
  BY <1>1, <1>2, <1>5 DEF Bucketed
<1>8. WithinCard'
  <2> DEFINE b == RuntimeBytes(plan, Head(todo))
  <2>1. b \in Nat
    BY <1>2, <1>3, RuntimeIs
  <2>2. BytesOf(plan, card') \in {BytesOf(plan, card), BytesOf(plan, card) + b}
    <3>1. BytesOf(plan, card \cup {Head(todo)})
            = BytesOf(plan, card) + (IF Head(todo) \in card THEN 0 ELSE b)
      BY <1>2, <1>3, BytesAdd
    <3> QED
      BY <1>1, <1>2, <3>1
  <2>3. b <= plan.device_bytes - (leaked + BytesOf(plan, card))
    BY <1>1, <1>2 DEF Room
  <2> HIDE DEF b
  <2>4. leaked + BytesOf(plan, card') <= plan.device_bytes
    BY <1>2, <2>1, <2>2, <2>3 DEF WithinCard
  <2> QED
    BY <1>1, <2>4 DEF WithinCard, InUse
<1>9. UnderWay'
  <2>1. \A all \in Seq(Held) : Building(all) => Building(all)'
    BY <1>1, <1>2, <1>5, OneBuilt
  <2>2. CASE /\ ask = [kind |-> "new", cap |-> FirstCapacity] /\ cap = 0
             /\ FitsAt(plan, FirstCapacity)
             /\ Building(Firsts)
    <3>1. PICK all \in Seq(Held) : all = Firsts
      BY <1>2, FirstsIs
    <3>2. Building(all)'
      BY <2>1, <2>2, <3>1
    <3>3. Building(Firsts)'
      BY <1>5, <3>1, <3>2
    <3> QED
      BY <1>1, <1>5, <2>2, <3>3 DEF UnderWay
  <2>3. CASE /\ cap > 0 /\ ~Single(plan)
             /\ \E n \in 1 .. plan.capacity :
                  /\ FitsAt(plan, AllocatedCapacity(plan, n))
                  /\ Building(Growth(n))
                  /\ \/ \E s \in 1 .. plan.batch :
                          ask = [kind |-> "prefill", s |-> s, n |-> n, cap |-> Reached(n)]
                     \/ \E m \in 1 .. n :
                          /\ ask = [kind |-> "generate", n |-> m, cap |-> Reached(n)]
                          /\ \A s \in 1 .. plan.batch : pos[s] + m <= n
    <3>1. PICK n \in 1 .. plan.capacity :
                  /\ FitsAt(plan, AllocatedCapacity(plan, n))
                  /\ Building(Growth(n))
                  /\ \/ \E s \in 1 .. plan.batch :
                          ask = [kind |-> "prefill", s |-> s, n |-> n, cap |-> Reached(n)]
                     \/ \E m \in 1 .. n :
                          /\ ask = [kind |-> "generate", n |-> m, cap |-> Reached(n)]
                          /\ \A s \in 1 .. plan.batch : pos[s] + m <= n
      BY <2>3
    <3>2. PICK all \in Seq(Held) : all = Growth(n)
      BY <1>2, GrowthIs
    <3>3. Building(all)'
      BY <2>1, <3>1, <3>2
    <3>4. Building(Growth(n))'
      BY <1>5, <3>2, <3>3
    <3> QED
      BY <1>1, <1>5, <2>3, <3>1, <3>4 DEF UnderWay
  <2> QED
    BY <1>1, <1>2, <2>2, <2>3 DEF UnderWay
<1> QED
  BY <1>6, <1>7, <1>8, <1>9 DEF IInv

LEMMA LeastIs ==
  ASSUME NEW a \in Nat, NEW b \in Nat
  PROVE  Least(a, b) \in Nat /\ Least(a, b) <= a /\ Least(a, b) <= b
BY DEF Least

\* No bucket is below the first.
LEMMA FirstIsLeast ==
  ASSUME plan \in Plan, NEW o \in Nat, IsBucket(o)
  PROVE  FirstCapacity <= o
<1> DEFINE d == Shape!Doubled(MinCapacity)
           T == {k \in Nat : MinCapacity <= d[k]}
<1>1. /\ plan.capacity \in Nat \ {0} /\ MinCapacity \in Nat \ {0}
      /\ d \in [Nat -> Nat] /\ d[0] = MinCapacity /\ \A k \in Nat : d[k + 1] = 2 * d[k]
  BY PlanIs, DoubledIs
<1> HIDE DEF d
<1>2. 0 \in T
  BY <1>1
<1>3. ASSUME NEW k \in Nat, k \in T PROVE k + 1 \in T
  <2>1. d[k] \in Nat /\ d[k + 1] = 2 * d[k]
    BY <1>1
  <2> QED
    BY <1>1, <1>3, <2>1
<1> HIDE DEF T
<1>4. Nat \subseteq T
  BY <1>2, <1>3, Induction
<1>5. CASE Single(plan)
  BY <1>1, <1>5 DEF FirstCapacity, AllocatedCapacity, IsBucket
<1>6. CASE ~Single(plan)
  <2>1. PICK k \in 0 .. plan.capacity : o = Shape!Least(d[k], plan.capacity)
    BY <1>6 DEF IsBucket, d
  <2>2. k \in Nat /\ MinCapacity <= d[k] /\ d[k] \in Nat
    BY <1>1, <1>4, <2>1 DEF T
  <2> DEFINE First(i) == d[i] >= 1 /\ \A j \in Shape!Span(i) : d[j] < 1
             f == CHOOSE i \in 0 .. 1 : First(i)
  <2>3. f = 0
    <3>1. First(0)
      BY <1>1 DEF Shape!Span
    <3>2. ~First(1)
      BY <1>1 DEF Shape!Span
    <3>3. \A i \in 0 .. 1 : First(i) => i = 0
      <4>1. 0 .. 1 = {0, 1}
        OBVIOUS
      <4> HIDE DEF First
      <4> QED
        BY <3>2, <4>1
    <3> HIDE DEF First
    <3> QED
      BY <3>1, <3>3
  <2>4. FirstCapacity = Shape!Least(d[f], plan.capacity)
    BY <1>6 DEF FirstCapacity, AllocatedCapacity, Shape!CacheBucket, d
  <2>5. FirstCapacity = Shape!Least(MinCapacity, plan.capacity)
    BY <1>1, <2>3, <2>4
  <2> QED
    BY <1>1, <2>1, <2>2, <2>5 DEF Shape!Least
<1> QED
  BY <1>5, <1>6

\* A build that fails takes with it what its call had built, and no more.
LEMMA FailureLeavesNow ==
  ASSUME IInv, todo # <<>>
  PROVE  {r \in card : r.cap # ask.cap} = Now
<1>1. /\ TypeOK /\ UnderWay /\ Bucketed /\ plan \in Plan /\ cap \in Nat
      /\ FirstCapacity \in 1 .. plan.capacity /\ plan.capacity \in Nat
  BY TypeFacts DEF IInv
<1>2. ASSUME NEW all \in Seq(Held), Building(all),
             \A i \in 1 .. Len(all) : all[i].cap = ask.cap,
             \A r \in Now : r.cap # ask.cap
      PROVE  {r \in card : r.cap # ask.cap} = Now
  <2>1. PICK k \in 0 .. Len(all) : card = Now \cup {all[i] : i \in 1 .. k}
    BY <1>2 DEF Building
  <2>2. 1 .. k \subseteq 1 .. Len(all)
    OBVIOUS
  <2> QED
    BY <1>2, <2>1, <2>2
<1>3. CASE /\ ask = [kind |-> "new", cap |-> FirstCapacity] /\ cap = 0
           /\ FitsAt(plan, FirstCapacity)
           /\ Building(Firsts)
  <2>1. PICK all \in Seq(Held) : all = Firsts
    BY <1>1, FirstsIs
  <2>2. \A i \in 1 .. Len(all) : all[i].cap = FirstCapacity
    <3>1. CASE Single(plan)
      <4>1. all = <<Runtime("base", FirstCapacity)>>
        BY <1>1, <2>1, <3>1, FirstsIs
      <4> QED
        BY <4>1 DEF Runtime
    <3>2. CASE ~Single(plan)
      <4>1. all = <<Runtime("base", FirstCapacity), Runtime("prefill", FirstCapacity)>>
        BY <1>1, <2>1, <3>2, FirstsIs
      <4>2. Len(all) = 2 /\ all[1].cap = FirstCapacity /\ all[2].cap = FirstCapacity
        BY <4>1 DEF Runtime
      <4> QED
        BY <4>2
    <3> QED
      BY <3>1, <3>2
  <2>3. Now = {} /\ ask.cap = FirstCapacity /\ Building(all)
    BY <1>3, <2>1 DEF Now
  <2> QED
    BY <1>2, <2>2, <2>3
<1>4. CASE /\ cap > 0 /\ ~Single(plan)
           /\ \E n \in 1 .. plan.capacity :
                /\ FitsAt(plan, AllocatedCapacity(plan, n))
                /\ Building(Growth(n))
                /\ \/ \E s \in 1 .. plan.batch :
                        ask = [kind |-> "prefill", s |-> s, n |-> n, cap |-> Reached(n)]
                   \/ \E m \in 1 .. n :
                        /\ ask = [kind |-> "generate", n |-> m, cap |-> Reached(n)]
                        /\ \A s \in 1 .. plan.batch : pos[s] + m <= n
  <2>1. PICK n \in 1 .. plan.capacity : Building(Growth(n)) /\ ask.cap = Reached(n)
    BY <1>4
  <2>2. PICK all \in Seq(Held) : all = Growth(n)
    BY <1>1, GrowthIs
  <2>3. Building(all)
    BY <2>1, <2>2
  <2>4. all # <<>>
    <3>1. PICK k \in 0 .. Len(all) : Len(todo) = Len(all) - k
      BY <2>3 DEF Building
    <3>2. Len(todo) \in Nat \ {0}
      BY <1>1 DEF TypeOK
    <3> QED
      BY <3>1, <3>2
  <2>5. /\ ~(n <= cap) /\ Reached(n) = AllocatedCapacity(plan, n)
        /\ all = <<Runtime("decode", Reached(n)), Runtime("prefill", Reached(n))>>
    BY <1>1, <2>2, <2>4, GrowthIs
  <2>6. \A i \in 1 .. Len(all) : all[i].cap = ask.cap
    <3>1. Len(all) = 2 /\ all[1].cap = Reached(n) /\ all[2].cap = Reached(n)
      BY <2>5 DEF Runtime
    <3> QED
      BY <2>1, <3>1
  <2>7. cap < Reached(n) /\ FirstCapacity <= cap /\ Reached(n) \in Nat
    <3>1. n <= Reached(n) /\ Reached(n) \in Nat /\ n \in Nat
      BY <1>1, ReachedIs
    <3>2. FirstCapacity <= cap
      BY <1>1, <1>4, FirstIsLeast DEF Bucketed
    <3> QED
      BY <1>1, <2>5, <3>1, <3>2
  <2>8. \A r \in Now : r.cap \in {cap, FirstCapacity}
    BY DEF Now, RuntimesOf, Runtime
  <2>9. \A r \in Now : r.cap # ask.cap
    BY <1>1, <2>1, <2>7, <2>8
  <2> QED
    BY <1>2, <2>3, <2>6, <2>9
<1> QED
  BY <1>1, <1>3, <1>4 DEF UnderWay

LEMMA BuildFailsStep == ASSUME IInv, BuildFails PROVE IInv'
<1>1. /\ todo # <<>> /\ failures' = Least(failures + 1, MaxFailures)
      /\ card' = {r \in card : r.cap # ask.cap}
      /\ todo' = <<>> /\ ask' = Idle
      /\ plan' = plan /\ pos' = pos /\ cap' = cap /\ told' = told
  BY DEF BuildFails
<1>2. /\ TypeOK /\ UnderWay /\ Bucketed /\ WithinCard
      /\ plan \in Plan /\ cap \in Nat /\ leaked \in Nat /\ plan.device_bytes \in Nat
      /\ card \in SUBSET Held /\ IsFiniteSet(card) /\ todo \in Seq(Held)
      /\ BytesOf(plan, card) \in Nat /\ InUse = leaked + BytesOf(plan, card)
  BY TypeFacts DEF IInv, TypeOK
<1>3. /\ FirstCapacity' = FirstCapacity /\ (\A c : IsBucket(c)' = IsBucket(c)) /\ Now' = Now
  BY <1>1, SamePlan
<1>4. card' = Now /\ Now \in SUBSET card
  <2>1. card' = Now
    BY <1>1, FailureLeavesNow
  <2>2. Now \subseteq card
    BY <1>1, <1>2, BuildingKeeps DEF UnderWay
  <2> QED
    BY <2>1, <2>2
<1>5. Room \in Nat
  BY <1>2 DEF Room, WithinCard
<1>6. leaked' \in Nat /\ leaked' <= leaked + Room
  <2>1. Head(todo) \in Held
    BY <1>1, <1>2
  <2>2. RuntimeBytes(plan, Head(todo)) \in Nat
    BY <1>2, <2>1, RuntimeIs
  <2>3. PICK part \in {0, RuntimeBytes(plan, Head(todo)) \div 2} : leaked' = leaked + Least(part, Room)
    BY DEF BuildFails
  <2>4. part \in Nat
    BY <2>2
  <2>5. Least(part, Room) \in Nat /\ Least(part, Room) <= Room
    BY <1>5, <2>4, LeastIs
  <2> QED
    BY <1>2, <1>5, <2>3, <2>5
<1>7. TypeOK'
  <2>1. card' \in SUBSET Held /\ IsFiniteSet(card')
    BY <1>2, <1>4, FS_Subset
  <2>2. failures' \in 0 .. MaxFailures
    <3>1. failures + 1 \in Nat /\ MaxFailures \in Nat
      BY <1>2 DEF TypeOK
    <3> QED
      BY <1>1, <3>1, LeastIs
  <2>3. todo' \in Seq(Held)
    BY <1>1
  <2> QED
    BY <1>1, <1>2, <1>6, <2>1, <2>2, <2>3 DEF TypeOK
<1>8. Bucketed'
  BY <1>1, <1>2, <1>3 DEF Bucketed
<1>9. WithinCard'
  <2>1. BytesOf(plan, card') \in Nat /\ BytesOf(plan, card') <= BytesOf(plan, card)
    <3>1. card' \in SUBSET card /\ card' \in SUBSET Held /\ IsFiniteSet(card')
      BY <1>2, <1>4, FS_Subset
    <3> QED
      BY <1>2, <3>1, BytesAdd
  <2>2. leaked' + BytesOf(plan, card') <= plan.device_bytes
    BY <1>2, <1>6, <2>1 DEF Room
  <2> QED
    BY <1>1, <2>2 DEF WithinCard, InUse
<1>10. UnderWay'
  BY <1>1, <1>3, <1>4 DEF UnderWay, Idle
<1> QED
  BY <1>7, <1>8, <1>9, <1>10 DEF IInv

\* What stays of the card is what a model of the bucket has.
LEMMA ReturnKeeps ==
  ASSUME IInv, Return
  PROVE  /\ card' = RuntimesOf(ask.cap) /\ ask.cap \in Nat \ {0}
         /\ IsBucket(ask.cap) /\ FitsAt(plan, ask.cap) /\ FitsAt(plan, FirstCapacity)
         /\ pos' \in [1 .. plan.batch -> 0 .. ask.cap]
<1>1. todo = <<>> /\ ask # Idle /\ card' = card \cap RuntimesOf(ask.cap)
  BY DEF Return, Kept
<1>2. /\ TypeOK /\ UnderWay /\ Bucketed /\ plan \in Plan /\ cap \in Nat
      /\ plan.capacity \in Nat /\ FirstCapacity \in 1 .. plan.capacity
  BY TypeFacts DEF IInv, TypeOK
<1>3. CASE /\ ask = [kind |-> "new", cap |-> FirstCapacity] /\ cap = 0
           /\ FitsAt(plan, FirstCapacity)
           /\ Building(Firsts)
  <2>1. card = {Firsts[i] : i \in 1 .. Len(Firsts)}
    <3>1. PICK all \in Seq(Held) : all = Firsts
      BY <1>2, FirstsIs
    <3>2. card = Now \cup {all[i] : i \in 1 .. Len(all)}
      BY <1>1, <1>3, <3>1, AllBuilt
    <3> QED
      BY <1>3, <3>1, <3>2 DEF Now
  <2>2. card = RuntimesOf(FirstCapacity)
    <3>1. Single(plan) => Firsts = <<Runtime("base", FirstCapacity)>>
      BY <1>2, FirstsIs
    <3>2. ~Single(plan) => Firsts = <<Runtime("base", FirstCapacity), Runtime("prefill", FirstCapacity)>>
      BY <1>2, FirstsIs
    <3>3. CASE Single(plan)
      <4>1. Len(Firsts) = 1 /\ Firsts[1] = Runtime("base", FirstCapacity)
        BY <3>1, <3>3
      <4>2. FirstCapacity = plan.capacity /\ card = {Runtime("base", FirstCapacity)}
        BY <2>1, <3>3, <4>1 DEF FirstCapacity, AllocatedCapacity
      <4> QED
        BY <3>3, <4>2 DEF RuntimesOf
    <3>4. CASE ~Single(plan)
      <4>1. /\ Len(Firsts) = 2 /\ Firsts[1] = Runtime("base", FirstCapacity)
            /\ Firsts[2] = Runtime("prefill", FirstCapacity)
        BY <3>2, <3>4
      <4>2. card = {Runtime("base", FirstCapacity), Runtime("prefill", FirstCapacity)}
        BY <2>1, <4>1
      <4> QED
        BY <3>4, <4>2 DEF RuntimesOf
    <3> QED
      BY <3>3, <3>4
  <2>3. IsBucket(FirstCapacity)
    BY <1>2, AllocatedIsBucket DEF FirstCapacity
  <2>4. pos' = [s \in 1 .. plan.batch |-> 0]
    BY <1>3 DEF Return
  <2> QED
    BY <1>1, <1>2, <1>3, <2>2, <2>3, <2>4
<1>4. CASE /\ cap > 0 /\ ~Single(plan)
           /\ \E n \in 1 .. plan.capacity :
                /\ FitsAt(plan, AllocatedCapacity(plan, n))
                /\ Building(Growth(n))
                /\ \/ \E s \in 1 .. plan.batch :
                        ask = [kind |-> "prefill", s |-> s, n |-> n, cap |-> Reached(n)]
                   \/ \E m \in 1 .. n :
                        /\ ask = [kind |-> "generate", n |-> m, cap |-> Reached(n)]
                        /\ \A s \in 1 .. plan.batch : pos[s] + m <= n
  <2>1. PICK n \in 1 .. plan.capacity :
                /\ FitsAt(plan, AllocatedCapacity(plan, n))
                /\ Building(Growth(n))
                /\ \/ \E s \in 1 .. plan.batch :
                        ask = [kind |-> "prefill", s |-> s, n |-> n, cap |-> Reached(n)]
                   \/ \E m \in 1 .. n :
                        /\ ask = [kind |-> "generate", n |-> m, cap |-> Reached(n)]
                        /\ \A s \in 1 .. plan.batch : pos[s] + m <= n
    BY <1>4
  <2>2. /\ ask.cap = Reached(n) /\ n <= Reached(n) /\ cap <= Reached(n) /\ Reached(n) \in Nat
        /\ IsBucket(Reached(n)) /\ FitsAt(plan, FirstCapacity) /\ n \in Nat \ {0}
    BY <1>2, <1>4, <2>1, ReachedIs DEF Bucketed
  <2>3. Growth(n) \in Seq(Held)
    BY <1>2, GrowthIs
  <2>4. card = Now \cup {Growth(n)[i] : i \in 1 .. Len(Growth(n))}
    <3>1. PICK all \in Seq(Held) : all = Growth(n)
      BY <2>3
    <3>2. card = Now \cup {all[i] : i \in 1 .. Len(all)}
      BY <1>1, <2>1, <3>1, AllBuilt
    <3> QED
      BY <3>1, <3>2
  <2>5. Now = RuntimesOf(cap)
    BY <1>4 DEF Now
  <2>6. RuntimesOf(Reached(n)) \subseteq card /\ FitsAt(plan, Reached(n))
    <3>1. CASE n <= cap /\ Growth(n) = <<>> /\ Reached(n) = cap
      BY <1>2, <1>4, <2>4, <2>5, <3>1 DEF Bucketed
    <3>2. CASE /\ Reached(n) = AllocatedCapacity(plan, n)
               /\ Growth(n) = <<Runtime("decode", Reached(n)), Runtime("prefill", Reached(n))>>
      <4>1. \A x, y : {<<x, y>>[i] : i \in 1 .. Len(<<x, y>>)} = {x, y}
        OBVIOUS
      <4>2. card = RuntimesOf(cap) \cup {Runtime("decode", Reached(n)), Runtime("prefill", Reached(n))}
        BY <2>4, <2>5, <3>2, <4>1
      <4>3. RuntimesOf(Reached(n)) \subseteq card
        BY <1>4, <4>2 DEF RuntimesOf
      <4> QED
        BY <2>1, <3>2, <4>3
    <3> QED
      BY <1>2, <3>1, <3>2, GrowthIs
  <2>7. card' = RuntimesOf(ask.cap)
    BY <1>1, <2>2, <2>6
  <2>8. pos' \in [1 .. plan.batch -> 0 .. ask.cap]
    <3>1. pos \in [1 .. plan.batch -> 0 .. cap]
      BY <1>2, <1>4, TypeFacts
    <3>2. CASE \E s \in 1 .. plan.batch :
                 ask = [kind |-> "prefill", s |-> s, n |-> n, cap |-> Reached(n)]
      <4>1. PICK s \in 1 .. plan.batch :
                 ask = [kind |-> "prefill", s |-> s, n |-> n, cap |-> Reached(n)]
        BY <3>2
      <4>2. pos' = [pos EXCEPT ![s] = n]
        BY <4>1 DEF Return
      <4> QED
        BY <1>2, <2>2, <3>1, <4>2
    <3>3. CASE \E m \in 1 .. n :
                 /\ ask = [kind |-> "generate", n |-> m, cap |-> Reached(n)]
                 /\ \A s \in 1 .. plan.batch : pos[s] + m <= n
      <4>1. PICK m \in 1 .. n :
                 /\ ask = [kind |-> "generate", n |-> m, cap |-> Reached(n)]
                 /\ \A s \in 1 .. plan.batch : pos[s] + m <= n
        BY <3>3
      <4>2. pos' = [s \in 1 .. plan.batch |-> pos[s] + m]
        BY <3>1, <4>1 DEF Return
      <4> QED
        BY <1>2, <2>2, <3>1, <4>1, <4>2
    <3> QED
      BY <2>1, <3>2, <3>3
  <2> QED
    BY <2>2, <2>6, <2>7, <2>8
<1> QED
  BY <1>1, <1>2, <1>3, <1>4 DEF UnderWay

LEMMA ReturnStep == ASSUME IInv, Return PROVE IInv'
<1>1. /\ todo = <<>> /\ cap' = ask.cap /\ ask' = Idle /\ card' = card \cap RuntimesOf(ask.cap)
      /\ plan' = plan /\ leaked' = leaked /\ todo' = todo /\ told' = told /\ failures' = failures
  BY DEF Return, Kept
<1>2. /\ TypeOK /\ WithinCard /\ plan \in Plan /\ plan.device_bytes \in Nat /\ leaked \in Nat
      /\ card \in SUBSET Held /\ IsFiniteSet(card) /\ todo \in Seq(Held)
      /\ BytesOf(plan, card) \in Nat /\ InUse = leaked + BytesOf(plan, card)
  BY TypeFacts DEF IInv, TypeOK
<1>3. /\ card' = RuntimesOf(ask.cap) /\ ask.cap \in Nat \ {0}
      /\ IsBucket(ask.cap) /\ FitsAt(plan, ask.cap) /\ FitsAt(plan, FirstCapacity)
      /\ pos' \in [1 .. plan.batch -> 0 .. ask.cap]
  BY ReturnKeeps
<1>4. /\ FirstCapacity' = FirstCapacity /\ (\A c : IsBucket(c)' = IsBucket(c))
      /\ \A c : RuntimesOf(c)' = RuntimesOf(c)
  BY <1>1, SamePlan
<1>5. card' \in SUBSET card /\ card' \in SUBSET Held /\ IsFiniteSet(card')
  BY <1>1, <1>2, FS_Subset
<1>6. TypeOK'
  BY <1>1, <1>2, <1>3, <1>5 DEF TypeOK
<1>7. IsBucket(cap)'
  <2>1. PICK c \in Nat : c = ask.cap
    BY <1>3
  <2>2. IsBucket(c)'
    BY <1>3, <1>4, <2>1
  <2> QED
    BY <1>1, <2>1, <2>2
<1>8. Bucketed'
  BY <1>1, <1>3, <1>4, <1>7 DEF Bucketed
<1>9. WithinCard'
  <2>1. BytesOf(plan, card') \in Nat /\ BytesOf(plan, card') <= BytesOf(plan, card)
    BY <1>2, <1>5, BytesAdd
  <2> QED
    BY <1>1, <1>2, <2>1 DEF WithinCard, InUse
<1>10. UnderWay'
  <2>1. PICK c \in Nat \ {0} : c = ask.cap
    BY <1>3
  <2>2. RuntimesOf(cap)' = RuntimesOf(c)
    BY <1>1, <1>4, <2>1
  <2>3. card' = Now'
    BY <1>1, <1>3, <2>1, <2>2 DEF Now
  <2> QED
    BY <1>1, <2>3 DEF UnderWay
<1> QED
  BY <1>6, <1>8, <1>9, <1>10 DEF IInv

LEMMA StutterStep == ASSUME IInv, UNCHANGED vars PROVE IInv'
<1>1. /\ plan' = plan /\ cap' = cap /\ card' = card /\ leaked' = leaked /\ failures' = failures
      /\ pos' = pos /\ todo' = todo /\ ask' = ask /\ told' = told
  BY DEF vars
<1>2. TypeOK' /\ Bucketed' /\ WithinCard' /\ Now' = Now /\ FirstCapacity' = FirstCapacity
  BY <1>1, AskedStep DEF IInv, TypeOK
<1>3. /\ Firsts' = Firsts
      /\ \A n : Growth(n)' = Growth(n) /\ Reached(n)' = Reached(n)
  BY <1>1, SamePlan
<1>4. \A all \in Seq(Held) : Building(all) => Building(all)'
  BY <1>1, <1>2 DEF Building
<1>5. Building(Firsts) => Building(Firsts)'
  <2>1. PICK all \in Seq(Held) : all = Firsts
    BY FirstsIs DEF IInv, TypeOK
  <2>2. Building(Firsts) => Building(all)'
    BY <1>4, <2>1
  <2> QED
    BY <1>3, <2>1, <2>2
<1>6. \A n \in 1 .. plan.capacity : Building(Growth(n)) => Building(Growth(n))'
  <2> TAKE n \in 1 .. plan.capacity
  <2>1. PICK all \in Seq(Held) : all = Growth(n)
    BY GrowthIs DEF IInv, TypeOK
  <2>2. Building(Growth(n)) => Building(all)'
    BY <1>4, <2>1
  <2> QED
    BY <1>3, <2>1, <2>2
<1>7. UnderWay'
  <2>1. CASE ask = Idle /\ todo = <<>> /\ card = Now
    BY <1>1, <1>2, <2>1 DEF UnderWay
  <2>2. CASE /\ ask = [kind |-> "new", cap |-> FirstCapacity] /\ cap = 0
             /\ FitsAt(plan, FirstCapacity)
             /\ Building(Firsts)
    BY <1>1, <1>2, <1>5, <2>2 DEF UnderWay
  <2>3. CASE /\ cap > 0 /\ ~Single(plan)
             /\ \E n \in 1 .. plan.capacity :
                  /\ FitsAt(plan, AllocatedCapacity(plan, n))
                  /\ Building(Growth(n))
                  /\ \/ \E s \in 1 .. plan.batch :
                          ask = [kind |-> "prefill", s |-> s, n |-> n, cap |-> Reached(n)]
                     \/ \E m \in 1 .. n :
                          /\ ask = [kind |-> "generate", n |-> m, cap |-> Reached(n)]
                          /\ \A s \in 1 .. plan.batch : pos[s] + m <= n
    BY <1>1, <1>3, <1>6, <2>3 DEF UnderWay
  <2> QED
    BY <2>1, <2>2, <2>3 DEF IInv, UnderWay
<1> QED
  BY <1>2, <1>7 DEF IInv

-----------------------------------------------------------------------------
(* The theorems.                                                           *)

\* Whatever calls are made and builds fail: the runtimes on the card are those
\* of the current bucket and what the call under way has built, that call was
\* approved, and what is in use is never more than the card has.
THEOREM Invariant == Spec => []IInv
<1>1. IInv /\ [Next]_vars => IInv'
  <2> SUFFICES ASSUME IInv, [Next]_vars PROVE IInv'
    OBVIOUS
  <2>1. CASE Construct
    BY <2>1, ConstructStep
  <2>2. ASSUME NEW s \in DOMAIN pos, NEW n \in 1 .. plan.capacity, Prefill(s, n) PROVE IInv'
    BY <2>2, PrefillStep
  <2>3. ASSUME NEW n \in 1 .. plan.capacity, Generate(n) PROVE IInv'
    BY <2>3, GenerateStep
  <2>4. CASE Build
    BY <2>4, BuildStep
  <2>5. CASE BuildFails
    BY <2>5, BuildFailsStep
  <2>6. CASE Return
    BY <2>6, ReturnStep
  <2>7. CASE Finished
    BY <2>7, StutterStep DEF Finished
  <2>8. CASE UNCHANGED vars
    BY <2>8, StutterStep
  <2> QED
    BY <2>1, <2>2, <2>3, <2>4, <2>5, <2>6, <2>7, <2>8 DEF Next
<1> QED
  BY Initially, <1>1, PTL DEF Spec

\* Between calls the card holds the runtimes of the current bucket and no
\* others, also after a growth that failed half-way, and no position is
\* without a slot.
THEOREM CardIsAccounted == Spec => []CardAccounted
<1>1. IInv => CardAccounted
  <2> SUFFICES ASSUME IInv PROVE CardAccounted
    OBVIOUS
  <2>1. Ready => card = IF cap = 0 THEN {} ELSE RuntimesOf(cap)
    BY WhenReady DEF IInv, Now
  <2>2. \A s \in DOMAIN pos : pos[s] <= cap
    <3>1. cap = 0 => pos = <<>> /\ DOMAIN pos = {}
      BY DEF IInv, TypeOK
    <3>2. cap \in Nat /\ (cap > 0 => pos \in [1 .. plan.batch -> 0 .. cap])
      BY TypeFacts DEF IInv
    <3> TAKE s \in DOMAIN pos
    <3>3. cap > 0
      BY <3>1, <3>2
    <3> QED
      BY <3>2, <3>3
  <2> QED
    BY <2>1, <2>2 DEF CardAccounted
<1> QED
  BY <1>1, Invariant, PTL

-----------------------------------------------------------------------------
(* What a capacity costs.                                                  *)

LEMMA Quotient ==
  ASSUME NEW a \in Nat, NEW d \in Nat \ {0}
  PROVE  /\ a \div d \in Nat
         /\ d * (a \div d) <= a /\ a < d * (a \div d) + d
OBVIOUS

LEMMA QuotientIs ==
  ASSUME NEW a \in Nat, NEW d \in Nat \ {0}, NEW q \in Nat, q * d <= a, a < q * d + d
  PROVE  a \div d = q
<1> DEFINE e == a \div d
<1>1. e \in Nat /\ d * e <= a /\ a < d * e + d
  BY Quotient
<1> HIDE DEF e
<1>2. ~(e < q)
  <2> SUFFICES ASSUME e < q PROVE FALSE
    OBVIOUS
  <2>1. (e + 1) * d <= q * d /\ (e + 1) * d = d * e + d
    BY <1>1, Products
  <2> QED
    BY <1>1, <2>1
<1>3. ~(q < e)
  <2> SUFFICES ASSUME q < e PROVE FALSE
    OBVIOUS
  <2>1. (q + 1) * d <= e * d /\ (q + 1) * d = q * d + d /\ e * d = d * e
    BY <1>1, Products
  <2> QED
    BY <1>1, <2>1
<1> QED
  BY <1>1, <1>2, <1>3 DEF e

LEMMA QuotientGrows ==
  ASSUME NEW a \in Nat, NEW b \in Nat, a <= b, NEW d \in Nat \ {0}
  PROVE  a \div d <= b \div d
<1> DEFINE e == a \div d
           q == b \div d
<1>1. e \in Nat /\ d * e <= a /\ q \in Nat /\ b < d * q + d
  BY Quotient
<1> HIDE DEF e, q
<1> SUFFICES ASSUME q < e PROVE FALSE
  BY <1>1 DEF e, q
<1>2. d * (q + 1) <= d * e /\ d * (q + 1) = d * q + d
  BY <1>1, Products
<1> QED
  BY <1>1, <1>2

LEMMA DivCeilIs ==
  ASSUME NEW n \in Nat \ {0}, NEW d \in Nat \ {0}
  PROVE  /\ Shape!DivCeil(n, d) \in Nat \ {0}
         /\ n <= d => Shape!DivCeil(n, d) = 1
<1>1. n + d - 1 \in Nat /\ d <= n + d - 1
  OBVIOUS
<1>2. Shape!DivCeil(n, d) \in Nat /\ n + d - 1 < d * Shape!DivCeil(n, d) + d
  BY <1>1, Quotient DEF Shape!DivCeil
<1>3. Shape!DivCeil(n, d) # 0
  BY <1>1, <1>2
<1>4. ASSUME n <= d PROVE Shape!DivCeil(n, d) = 1
  <2>1. 1 * d <= n + d - 1 /\ n + d - 1 < 1 * d + d
    BY <1>4
  <2> QED
    BY <1>1, <2>1, QuotientIs DEF Shape!DivCeil
<1> QED
  BY <1>2, <1>3, <1>4

LEMMA DoubledExceeds ==
  ASSUME NEW n \in Nat \ {0}
  PROVE  \A k \in Nat : Shape!Doubled(n)[k] > k
<1>1. \A k \in Nat : K!Doubled(n)[k] > k
  BY K!DoubledExceeds
<1> QED
  BY <1>1 DEF Shape!Doubled, K!Doubled

\* A doubled number does not get smaller.
LEMMA DoubledGrows ==
  ASSUME NEW n \in Nat \ {0}
  PROVE  \A k \in Nat : Shape!Doubled(n)[k] >= n
<1> DEFINE d == Shape!Doubled(n)
           T == {k \in Nat : d[k] >= n}
<1>1. d \in [Nat -> Nat] /\ d[0] = n /\ \A k \in Nat : d[k + 1] = 2 * d[k]
  BY DoubledIs
<1> HIDE DEF d
<1>2. 0 \in T /\ \A k \in Nat : k \in T => k + 1 \in T
  BY <1>1
<1> HIDE DEF T
<1>3. Nat \subseteq T
  BY <1>2, Induction
<1> QED
  BY <1>3 DEF T, d

\* The step of the wide recipes is theirs doubled; of one key it is theirs.
LEMMA KeyStepIs ==
  ASSUME NEW rows \in Nat \ {0}, NEW full \in Nat \ {0}, NEW buckets \in Nat \ {0}
  PROVE  /\ Shape!KeyStep(rows, full, buckets) \in Nat \ {0}
         /\ Shape!KeyStep(rows, full, buckets) >= rows
         /\ full = 1 => Shape!KeyStep(rows, full, buckets) = rows
<1> DEFINE d == Shape!Doubled(rows)
           P(k) == /\ Shape!DivCeil(full, d[k]) <= buckets
                   /\ \A j \in Shape!Span(k) : Shape!DivCeil(full, d[j]) > buckets
           T == {k \in Nat : Shape!DivCeil(full, d[k]) <= buckets}
           k0 == CHOOSE k \in 0 .. full : P(k)
<1>1. /\ d \in [Nat -> Nat] /\ d[0] = rows
      /\ \A k \in Nat : d[k] > k /\ d[k] >= rows /\ d[k] \in Nat \ {0}
  <2>1. rows \in Nat
    OBVIOUS
  <2>2. d \in [Nat -> Nat] /\ d[0] = rows
    BY <2>1, DoubledIs
  <2>3. \A k \in Nat : d[k] > k /\ d[k] >= rows
    BY DoubledExceeds, DoubledGrows
  <2> HIDE DEF d
  <2> QED
    BY <2>2, <2>3
<1>2. Shape!KeyStep(rows, full, buckets) = d[k0]
  BY DEF Shape!KeyStep
<1> HIDE DEF d
<1>3. full \in T
  <2>1. Shape!DivCeil(full, d[full]) = 1
    BY <1>1, DivCeilIs
  <2> QED
    BY <2>1
<1>4. \E k \in T : \A j \in T : k <= j
  <2>1. T \subseteq Nat /\ T # {}
    BY <1>3
  <2> HIDE DEF T
  <2> QED
    BY <2>1, Minimum
<1>5. \E k \in 0 .. full : P(k)
  <2>1. PICK k \in T : \A j \in T : k <= j
    BY <1>4
  <2>2. k \in 0 .. full
    BY <1>3, <2>1
  <2>3. ASSUME NEW j \in Shape!Span(k) PROVE Shape!DivCeil(full, d[j]) > buckets
    <3>1. j \in Nat /\ j < k
      BY <2>2 DEF Shape!Span
    <3>2. j \notin T
      BY <2>1, <2>2, <3>1
    <3>3. Shape!DivCeil(full, d[j]) \in Nat
      BY <1>1, <3>1, DivCeilIs
    <3> QED
      BY <3>1, <3>2, <3>3
  <2> QED
    BY <2>1, <2>2, <2>3
<1>6. k0 \in 0 .. full /\ P(k0)
  BY <1>5
<1> HIDE DEF k0
<1>7. ASSUME full = 1 PROVE k0 = 0
  <2>1. Shape!DivCeil(1, d[0]) = 1
    BY <1>1, DivCeilIs
  <2>2. 0 \notin Shape!Span(k0)
    BY <1>6, <1>7, <2>1
  <2> QED
    BY <1>6, <2>2 DEF Shape!Span
<1> QED
  BY <1>1, <1>2, <1>6, <1>7

LEMMA BucketKeysAre ==
  ASSUME NEW p \in Plan, NEW keys \in Nat \ {0}
  PROVE  /\ BucketKeys(p, keys) \in Nat
         /\ Single(p) => /\ BucketKeys(p, keys) >= p.rows
                         /\ keys = 1 => BucketKeys(p, keys) = p.rows
<1>1. CASE ~Single(p)
  BY <1>1 DEF BucketKeys
<1>2. CASE Single(p)
  <2> DEFINE s == Shape!KeyStep(p.rows, keys, MaxKeyBuckets)
             n == Shape!DivCeil(keys, s)
  <2>1. p.rows \in Nat \ {0} /\ s \in Nat \ {0} /\ s >= p.rows /\ (keys = 1 => s = p.rows)
    BY PlanIs, KeyStepIs
  <2>2. n \in Nat \ {0} /\ (keys = 1 => n = 1)
    <3> HIDE DEF s
    <3> QED
      BY <2>1, DivCeilIs
  <2>3. BucketKeys(p, keys) = (s * n * (n + 1)) \div 2
    BY <1>2 DEF BucketKeys
  <2> HIDE DEF s, n
  <2>4. /\ s * n * (n + 1) \in Nat /\ s * 2 <= s * n * (n + 1)
    <3>1. s * 1 <= s * n /\ s * n \in Nat
      BY <2>1, <2>2, Products
    <3>2. (s * n) * 2 <= (s * n) * (n + 1) /\ (s * n) * (n + 1) \in Nat
      BY <2>2, <3>1, Products
    <3> QED
      BY <2>1, <3>1, <3>2
  <2>5. \A x, y \in Nat : y * 2 <= x => x \div 2 >= y /\ x \div 2 \in Nat
    OBVIOUS
  <2>6. BucketKeys(p, keys) \in Nat /\ BucketKeys(p, keys) >= s
    BY <2>1, <2>3, <2>4, <2>5
  <2>7. keys = 1 => BucketKeys(p, keys) = s
    BY <2>1, <2>2, <2>3
  <2> QED
    BY <2>1, <2>6, <2>7
<1> QED
  BY <1>1, <1>2

\* The terms of the total.
Transients(p, keys, columns) ==
  2 * keys * p.rows * p.n_heads * 2 + p.masks * columns * p.rows * 2
    + columns * p.n_kv_heads * 4 + 6 * p.vocab * p.rows

LEMMA TransientsGrow ==
  ASSUME NEW p \in Plan, NEW k \in Nat, NEW l \in Nat, k <= l,
         NEW c \in Nat, NEW d \in Nat, c <= d
  PROVE  /\ Transients(p, k, c) \in Nat
         /\ Transients(p, k, c) <= Transients(p, l, d)
<1>1. /\ p.rows \in Nat /\ p.n_heads \in Nat /\ p.masks \in Nat /\ p.n_kv_heads \in Nat /\ p.vocab \in Nat
  BY DEF Plan
<1>2. /\ 2 * k * p.rows * p.n_heads * 2 \in Nat
      /\ 2 * k * p.rows * p.n_heads * 2 <= 2 * l * p.rows * p.n_heads * 2
  <2>1. k * p.rows <= l * p.rows /\ k * p.rows \in Nat /\ l * p.rows \in Nat
    BY <1>1, Products
  <2>2. /\ (k * p.rows) * p.n_heads <= (l * p.rows) * p.n_heads
        /\ (k * p.rows) * p.n_heads \in Nat /\ (l * p.rows) * p.n_heads \in Nat
    BY <1>1, <2>1, Products
  <2>3. ASSUME NEW x \in Nat, NEW y \in Nat, NEW z \in Nat
        PROVE  2 * x * y * z * 2 = 4 * ((x * y) * z)
    OBVIOUS
  <2>4. /\ 2 * k * p.rows * p.n_heads * 2 = 4 * ((k * p.rows) * p.n_heads)
        /\ 2 * l * p.rows * p.n_heads * 2 = 4 * ((l * p.rows) * p.n_heads)
    BY <1>1, <2>3
  <2> QED
    BY <2>2, <2>4
<1>3. /\ p.masks * c * p.rows * 2 \in Nat
      /\ p.masks * c * p.rows * 2 <= p.masks * d * p.rows * 2
  <2>1. p.masks * c <= p.masks * d /\ p.masks * c \in Nat /\ p.masks * d \in Nat
    BY <1>1, Products
  <2>2. /\ p.masks * c * p.rows <= p.masks * d * p.rows
        /\ p.masks * c * p.rows \in Nat /\ p.masks * d * p.rows \in Nat
    BY <1>1, <2>1, Products
  <2> QED
    BY <2>2
<1>4. /\ c * p.n_kv_heads * 4 \in Nat
      /\ c * p.n_kv_heads * 4 <= d * p.n_kv_heads * 4
  <2>1. c * p.n_kv_heads <= d * p.n_kv_heads /\ c * p.n_kv_heads \in Nat /\ d * p.n_kv_heads \in Nat
    BY <1>1, Products
  <2> QED
    BY <2>1
<1>5. 6 * p.vocab * p.rows \in Nat
  BY <1>1, Products
<1> DEFINE a == 2 * k * p.rows * p.n_heads * 2
           b == 2 * l * p.rows * p.n_heads * 2
           e == p.masks * c * p.rows * 2
           f == p.masks * d * p.rows * 2
           g == c * p.n_kv_heads * 4
           h == d * p.n_kv_heads * 4
           i == 6 * p.vocab * p.rows
<1>6. Transients(p, k, c) = a + e + g + i /\ Transients(p, l, d) = b + f + h + i
  BY DEF Transients
<1>7. /\ a \in Nat /\ e \in Nat /\ g \in Nat /\ i \in Nat
      /\ a <= b /\ e <= f /\ g <= h /\ b \in Int /\ f \in Int /\ h \in Int
  BY <1>1, <1>2, <1>3, <1>4, <1>5
<1> HIDE DEF a, b, e, f, g, h, i
<1> QED
  BY <1>6, <1>7

\* The caches of a capacity are more bytes than it has positions.
LEMMA CachesGrow ==
  ASSUME NEW p \in Plan, NEW c \in Nat, NEW d \in Nat, c <= d
  PROVE  /\ CacheBytesAt(p, c) \in Nat /\ CacheBytesAt(p, c) > c
         /\ CacheBytesAt(p, c) <= CacheBytesAt(p, d)
<1> DEFINE b == BytesPerPosition(p)
           h == Halves(p)
<1>1. b \in Nat \ {0} /\ h \in Nat /\ h >= 4
  BY PositionIs, PlanIs DEF Halves
<1>2. \A x \in Nat : CacheBytesAt(p, x) = (b * (x + 1) * h) \div 2
  BY DEF CacheBytesAt
<1> HIDE DEF b, h
<1>3. ASSUME NEW x \in Nat PROVE b * (x + 1) * h \in Nat /\ (x + 1) * 4 <= b * (x + 1) * h
  <2>1. 1 * (x + 1) <= b * (x + 1) /\ b * (x + 1) \in Nat
    BY <1>1, Products
  <2>2. (b * (x + 1)) * 4 <= (b * (x + 1)) * h /\ (b * (x + 1)) * h \in Nat
    BY <1>1, <2>1, Products
  <2> QED
    BY <2>1, <2>2
<1>4. b * (c + 1) * h <= b * (d + 1) * h
  <2>1. b * (c + 1) <= b * (d + 1) /\ b * (c + 1) \in Nat /\ b * (d + 1) \in Nat
    BY <1>1, Products
  <2> QED
    BY <1>1, <2>1, Products
<1> DEFINE m == b * (c + 1) * h
           n == b * (d + 1) * h
<1>5. /\ m \in Nat /\ n \in Nat /\ m <= n /\ (c + 1) * 4 <= m
      /\ CacheBytesAt(p, c) = m \div 2 /\ CacheBytesAt(p, d) = n \div 2
  BY <1>2, <1>3, <1>4
<1> HIDE DEF m, n
<1> QED
  BY <1>5

\* A capacity costs more bytes than it has positions, and on the batched path
\* a larger one costs no less.
LEMMA TotalsGrow ==
  ASSUME NEW p \in Plan, NEW c \in Nat, NEW d \in Nat, c <= d,
         BucketKeys(p, c + 1) <= BucketKeys(p, d + 1)
  PROVE  /\ TotalBytesAt(p, c) \in Nat /\ TotalBytesAt(p, c) > c
         /\ TotalBytesAt(p, c) <= TotalBytesAt(p, d)
<1>1. \A x \in Nat : TransientBytesAt(p, x) = Transients(p, x + 1, BucketKeys(p, x + 1))
  BY DEF TransientBytesAt, Transients
<1>2. BucketKeys(p, c + 1) \in Nat /\ BucketKeys(p, d + 1) \in Nat
  BY BucketKeysAre
<1>3. /\ TransientBytesAt(p, c) \in Nat
      /\ TransientBytesAt(p, c) <= TransientBytesAt(p, d) /\ TransientBytesAt(p, d) \in Nat
  <2>1. c + 1 \in Nat /\ d + 1 \in Nat /\ c + 1 <= d + 1 /\ d + 1 <= d + 1
    OBVIOUS
  <2>2. /\ Transients(p, c + 1, BucketKeys(p, c + 1)) \in Nat
        /\ Transients(p, c + 1, BucketKeys(p, c + 1)) <= Transients(p, d + 1, BucketKeys(p, d + 1))
    BY <1>2, <2>1, TransientsGrow
  <2>3. Transients(p, d + 1, BucketKeys(p, d + 1)) \in Nat
    <3>1. BucketKeys(p, d + 1) <= BucketKeys(p, d + 1)
      BY <1>2
    <3> QED
      BY <1>2, <2>1, <3>1, TransientsGrow
  <2> QED
    BY <1>1, <2>2, <2>3
<1>4. /\ CacheBytesAt(p, c) \in Nat /\ CacheBytesAt(p, c) > c
      /\ CacheBytesAt(p, c) <= CacheBytesAt(p, d) /\ CacheBytesAt(p, d) \in Nat
  <2>1. d <= d
    OBVIOUS
  <2> QED
    BY <2>1, CachesGrow
<1>5. p.weight_bytes \in Nat /\ p.reserve_bytes \in Nat
  BY PlanIs
<1> QED
  BY <1>3, <1>4, <1>5 DEF TotalBytesAt

LEMMA FitsFacts ==
  ASSUME NEW p \in Plan
  PROVE  /\ \A c \in Nat : FitsAt(p, c) => c < p.device_bytes
         /\ FitsAt(p, 1) => FitsAt(p, 0)
         /\ ~Single(p) => \A c, d \in Nat : c <= d /\ FitsAt(p, d) => FitsAt(p, c)
<1>0. p.device_bytes \in Nat
  BY PlanIs
<1>1. ASSUME NEW c \in Nat, FitsAt(p, c) PROVE c < p.device_bytes
  <2>1. BucketKeys(p, c + 1) <= BucketKeys(p, c + 1) /\ c <= c
    BY BucketKeysAre
  <2>2. TotalBytesAt(p, c) \in Nat /\ TotalBytesAt(p, c) > c
    BY <2>1, TotalsGrow
  <2> QED
    BY <1>0, <1>1, <2>2 DEF FitsAt
<1>2. ASSUME NEW c \in Nat, NEW d \in Nat, c <= d, FitsAt(p, d),
             BucketKeys(p, c + 1) <= BucketKeys(p, d + 1)
      PROVE  FitsAt(p, c)
  <2>1. TotalBytesAt(p, c) \in Nat /\ TotalBytesAt(p, c) <= TotalBytesAt(p, d)
    BY <1>2, TotalsGrow
  <2>2. TotalBytesAt(p, d) \in Nat
    <3>1. BucketKeys(p, d + 1) <= BucketKeys(p, d + 1) /\ d <= d
      BY BucketKeysAre
    <3> QED
      BY <3>1, TotalsGrow
  <2> QED
    BY <1>0, <1>2, <2>1, <2>2 DEF FitsAt
<1>3. ASSUME FitsAt(p, 1) PROVE FitsAt(p, 0)
  <2>1. BucketKeys(p, 0 + 1) <= BucketKeys(p, 1 + 1)
    <3>1. CASE Single(p)
      <4>1. BucketKeys(p, 1) = p.rows /\ BucketKeys(p, 2) >= p.rows
        BY <3>1, BucketKeysAre
      <4>2. 0 + 1 = 1 /\ 1 + 1 = 2
        OBVIOUS
      <4> QED
        BY <4>1, <4>2, BucketKeysAre, PlanIs
    <3>2. CASE ~Single(p)
      BY <3>2 DEF BucketKeys
    <3> QED
      BY <3>1, <3>2
  <2> QED
    BY <1>2, <1>3, <2>1
<1>4. ASSUME ~Single(p), NEW c \in Nat, NEW d \in Nat, c <= d, FitsAt(p, d) PROVE FitsAt(p, c)
  <2>1. BucketKeys(p, c + 1) <= BucketKeys(p, d + 1)
    BY <1>4 DEF BucketKeys
  <2> QED
    BY <1>2, <1>4, <2>1
<1> QED
  BY <1>1, <1>3, <1>4

-----------------------------------------------------------------------------
(* The largest that fits.                                                  *)

LEMMA MiddleIs ==
  ASSUME NEW l \in Nat, NEW h \in Nat, l + 1 < h
  PROVE  l + (h - l) \div 2 \in Nat /\ l < l + (h - l) \div 2 /\ l + (h - l) \div 2 < h
OBVIOUS

\* Between a capacity that fits and one that does not, the bisection finds one
\* that fits whose successor does not.
LEMMA BisectedIs ==
  ASSUME NEW p \in Plan, NEW lo \in Nat, NEW hi \in Nat, lo < hi, FitsAt(p, lo), ~FitsAt(p, hi)
  PROVE  /\ Bisected(p, lo, hi) \in Nat
         /\ FitsAt(p, Bisected(p, lo, hi)) /\ ~FitsAt(p, Bisected(p, lo, hi) + 1)
<1> DEFINE S == Nat \X Nat
           mid(r) == r[1] + (r[2] - r[1]) \div 2
           next(r) == IF FitsAt(p, mid(r)) THEN <<mid(r), r[2]>> ELSE <<r[1], mid(r)>>
           D(f) == [r \in S |-> IF r[1] + 1 >= r[2] THEN r[1]
                                ELSE IF FitsAt(p, mid(r)) THEN f[<<mid(r), r[2]>>]
                                     ELSE f[<<r[1], mid(r)>>]]
           found == CHOOSE f : f = D(f)
           done == {r \in S : r[1] + 1 >= r[2]}
           out == [r \in S |-> r[1]]
           g == [r \in S |-> IF r \in done THEN r ELSE next(r)]
           c == [x \in S \X Nat |-> x[2]]
           m == [r \in S |-> IF r \in done THEN 0 ELSE r[2] - r[1]]
<1>0. /\ \A r \in S : r[1] \in Nat /\ r[2] \in Nat
      /\ \A u, v \in Nat : <<u, v>> \in S /\ <<u, v>>[1] = u /\ <<u, v>>[2] = v
  BY Pairs
<1>1. Bisected(p, lo, hi) = found[<<lo, hi>>]
  BY DEF Bisected
<1>2. ASSUME NEW r \in S, r \notin done
      PROVE  /\ r[1] + 1 < r[2] /\ mid(r) \in Nat /\ r[1] < mid(r) /\ mid(r) < r[2]
             /\ next(r) \in S /\ next(r)[2] - next(r)[1] < r[2] - r[1]
             /\ next(r)[1] < next(r)[2]
  <2>1. r[1] \in Nat /\ r[2] \in Nat /\ r[1] + 1 < r[2]
    BY <1>0, <1>2
  <2>2. mid(r) \in Nat /\ r[1] < mid(r) /\ mid(r) < r[2]
    BY <2>1, MiddleIs
  <2>3. \/ next(r) = <<mid(r), r[2]>>
        \/ next(r) = <<r[1], mid(r)>>
    OBVIOUS
  <2> HIDE DEF mid, next, S
  <2> QED
    BY <1>0, <2>1, <2>2, <2>3
<1>3. PICK f \in [S -> Nat] : Recursive(S, done, out, g, c, f)
  <2>1. out \in [S -> Nat] /\ c \in [S \X Nat -> Nat]
    <3>1. \A x \in S \X Nat : x[2] \in Nat
      BY Pairs, Zenon
    <3> HIDE DEF S
    <3> QED
      BY <1>0, <3>1
  <2>2. g \in [S -> S]
    <3> HIDE DEF S, done, next
    <3> QED
      BY <1>2
  <2>3. m \in [S -> Nat]
    <3>1. \A r \in S : r \notin done => r[2] - r[1] \in Nat
      BY <1>0
    <3> HIDE DEF S, done
    <3> QED
      BY <3>1
  <2>4. \A r \in S : r \notin done => m[g[r]] < m[r]
    <3> TAKE r \in S
    <3> HAVE r \notin done
    <3>1. g[r] = next(r) /\ next(r) \in S /\ m[r] = r[2] - r[1]
      BY <1>2
    <3>2. m[next(r)] = IF next(r) \in done THEN 0 ELSE next(r)[2] - next(r)[1]
      BY <3>1
    <3>3. r[1] \in Nat /\ r[2] \in Nat
      BY <1>0
    <3> HIDE DEF S, done, next, m, g
    <3> QED
      BY <1>2, <3>1, <3>2, <3>3
  <2> HIDE DEF S, done, out, g, c, m
  <2>5. \E f \in [S -> Nat] : Recursive(S, done, out, g, c, f)
    BY <2>1, <2>2, <2>3, <2>4, Recursion
  <2> QED
    BY <2>5
<1>4. f = D(f)
  <2>1. ASSUME NEW r \in S
        PROVE  f[r] = IF r[1] + 1 >= r[2] THEN r[1]
                      ELSE IF FitsAt(p, mid(r)) THEN f[<<mid(r), r[2]>>] ELSE f[<<r[1], mid(r)>>]
    <3>1. f[r] = IF r \in done THEN out[r] ELSE c[<<r, f[g[r]]>>]
      BY <1>3 DEF Recursive
    <3>2. CASE r \in done
      BY <3>1, <3>2
    <3>3. CASE r \notin done
      <4>1. g[r] = next(r) /\ next(r) \in S
        BY <1>2, <3>3
      <4>2. <<r, f[g[r]]>> \in S \X Nat
        <5>1. f[g[r]] \in Nat
          BY <1>3, <4>1
        <5> HIDE DEF S
        <5> QED
          BY <5>1, Pairs, Zenon
      <4>3. c[<<r, f[g[r]]>>] = f[g[r]]
        BY <4>2
      <4>4. f[r] = f[next(r)]
        BY <3>1, <3>3, <4>1, <4>3
      <4>5. ~(r[1] + 1 >= r[2])
        BY <3>3
      <4> HIDE DEF S, done, g, c, mid
      <4> QED
        BY <4>4, <4>5
    <3> QED
      BY <3>2, <3>3
  <2> HIDE DEF S, mid
  <2> QED
    BY <1>3, <2>1
<1>5. found = D(found)
  <2> HIDE DEF D
  <2> QED
    BY <1>4
<1> HIDE DEF found
<1>6. ASSUME NEW r \in S
      PROVE  /\ r \in done => found[r] = r[1]
             /\ r \notin done => found[r] = found[next(r)]
  <2>1. found[r] = IF r[1] + 1 >= r[2] THEN r[1]
                   ELSE IF FitsAt(p, mid(r)) THEN found[<<mid(r), r[2]>>]
                        ELSE found[<<r[1], mid(r)>>]
    <3> HIDE DEF S, mid
    <3> QED
      BY <1>5
  <2>2. r \in done <=> r[1] + 1 >= r[2]
    OBVIOUS
  <2> HIDE DEF S, mid, done
  <2> QED
    BY <2>1, <2>2
<1> DEFINE Brackets(r) == r[1] < r[2] /\ FitsAt(p, r[1]) /\ ~FitsAt(p, r[2])
           Answers(r) == found[r] \in Nat /\ FitsAt(p, found[r]) /\ ~FitsAt(p, found[r] + 1)
           T == {n \in Nat : \A r \in S : r[2] - r[1] <= n /\ Brackets(r) => Answers(r)}
<1>7. 0 \in T
  <2>1. \A r \in S : r[1] < r[2] => ~(r[2] - r[1] <= 0)
    BY <1>0
  <2> HIDE DEF S
  <2> QED
    BY <2>1
<1>8. ASSUME NEW n \in Nat, n \in T PROVE n + 1 \in T
  <2> SUFFICES ASSUME NEW r \in S, r[2] - r[1] <= n + 1, Brackets(r) PROVE Answers(r)
    OBVIOUS
  <2>0. r[1] \in Nat /\ r[2] \in Nat
    BY <1>0
  <2>1. CASE r \in done
    <3>0. r[1] + 1 >= r[2] /\ found[r] = r[1] /\ r[1] < r[2]
      BY <1>6, <2>1
    <3>1. r[2] = r[1] + 1 /\ found[r] = r[1]
      <4> HIDE DEF S, done, Brackets, Answers, T
      <4> QED
        BY <2>0, <3>0
    <3> HIDE DEF S, done
    <3> QED
      BY <2>0, <3>1
  <2>2. CASE r \notin done
    <3>1. /\ next(r) \in S /\ next(r)[2] - next(r)[1] < r[2] - r[1] /\ next(r)[1] < next(r)[2]
          /\ mid(r) \in Nat
      BY <1>2, <2>2
    <3>2. Brackets(next(r))
      <4>1. \/ FitsAt(p, mid(r)) /\ next(r) = <<mid(r), r[2]>>
            \/ ~FitsAt(p, mid(r)) /\ next(r) = <<r[1], mid(r)>>
        OBVIOUS
      <4> HIDE DEF next, mid, S
      <4> QED
        BY <2>0, <3>1, <4>1
    <3>3. next(r)[1] \in Nat /\ next(r)[2] \in Nat
      BY <1>0, <3>1
    <3>4. next(r)[2] - next(r)[1] <= n
      <4> HIDE DEF next, S
      <4> QED
        BY <2>0, <3>1, <3>3
    <3>5. Answers(next(r))
      <4> HIDE DEF next, S, Answers, Brackets
      <4> QED
        BY <1>8, <3>1, <3>2, <3>4
    <3>6. found[r] = found[next(r)]
      BY <1>6, <2>2
    <3> HIDE DEF next, S
    <3> QED
      BY <3>5, <3>6
  <2> QED
    BY <2>1, <2>2
<1>9. Nat \subseteq T
  <2> HIDE DEF T
  <2> QED
    BY <1>7, <1>8, Induction
<1>10. Answers(<<lo, hi>>)
  <2>1. <<lo, hi>> \in S /\ <<lo, hi>>[1] = lo /\ <<lo, hi>>[2] = hi
    BY <1>0
  <2>2. hi - lo \in Nat /\ hi - lo \in T /\ hi - lo <= hi - lo
    BY <1>9
  <2>3. Brackets(<<lo, hi>>)
    BY <2>1
  <2> HIDE DEF S, Brackets, Answers
  <2> QED
    BY <2>1, <2>2, <2>3
<1> QED
  BY <1>1, <1>10

\* The doubling stops at a capacity that does not fit, past one that does.
LEMMA FirstHiIs ==
  ASSUME NEW p \in Plan, FitsAt(p, 0)
  PROVE  /\ FirstHi(p) \in Nat /\ FirstHi(p) \div 2 \in Nat /\ FirstHi(p) \div 2 < FirstHi(p)
         /\ FitsAt(p, FirstHi(p) \div 2) /\ ~FitsAt(p, FirstHi(p))
<1> DEFINE hi == Shape!Doubled(1)
           n == p.device_bytes
           T == {k \in Nat : ~FitsAt(p, hi[k])}
           P(k) == ~FitsAt(p, hi[k]) /\ \A j \in Shape!Span(k) : FitsAt(p, hi[j])
           k0 == CHOOSE k \in 0 .. n : P(k)
<1>1. /\ hi \in [Nat -> Nat] /\ hi[0] = 1 /\ \A k \in Nat : hi[k + 1] = 2 * hi[k]
      /\ \A k \in Nat : hi[k] > k
  <2>1. 1 \in Nat /\ 1 \in Nat \ {0}
    OBVIOUS
  <2>2. hi \in [Nat -> Nat] /\ hi[0] = 1 /\ \A k \in Nat : hi[k + 1] = 2 * hi[k]
    BY <2>1, DoubledIs
  <2>3. \A k \in Nat : hi[k] > k
    BY <2>1, DoubledExceeds
  <2> QED
    BY <2>2, <2>3
<1>2. FirstHi(p) = hi[k0]
  BY DEF FirstHi
<1> HIDE DEF hi
<1>3. n \in T
  <2>1. n \in Nat
    BY PlanIs
  <2>2. hi[n] \in Nat /\ ~(hi[n] < n)
    BY <1>1, <2>1
  <2>3. ~FitsAt(p, hi[n])
    BY <2>2, FitsFacts
  <2> QED
    BY <2>1, <2>3
<1>4. PICK k \in T : \A j \in T : k <= j
  <2>1. T \subseteq Nat /\ T # {}
    BY <1>3
  <2> HIDE DEF T
  <2> QED
    BY <2>1, Minimum
<1>5. P(k) /\ k \in 0 .. n
  <2>1. k \in 0 .. n
    BY <1>3, <1>4
  <2>2. ASSUME NEW j \in Shape!Span(k) PROVE FitsAt(p, hi[j])
    <3>1. j \in Nat /\ j < k
      BY <2>1 DEF Shape!Span
    <3>2. j \notin T
      BY <1>4, <2>1, <3>1
    <3> QED
      BY <3>1, <3>2
  <2> QED
    BY <1>4, <2>1, <2>2
<1>6. k0 \in 0 .. n /\ P(k0)
  BY <1>5
<1> HIDE DEF k0
<1>7. k0 \in Nat /\ ~FitsAt(p, hi[k0]) /\ \A j \in Nat : j < k0 => FitsAt(p, hi[j])
  <2>1. n \in Nat
    BY PlanIs
  <2>2. \A j \in Nat : j < k0 => j \in Shape!Span(k0)
    BY <1>6, <2>1 DEF Shape!Span
  <2> QED
    BY <1>6, <2>1, <2>2
<1>8. CASE k0 = 0
  <2>1. FirstHi(p) = 1
    BY <1>1, <1>2, <1>8
  <2>2. 1 \div 2 = 0
    OBVIOUS
  <2> QED
    BY <1>2, <1>7, <2>1, <2>2
<1>9. CASE k0 # 0
  <2>1. k0 - 1 \in Nat /\ k0 - 1 < k0 /\ (k0 - 1) + 1 = k0
    BY <1>7, <1>9
  <2>2. FitsAt(p, hi[k0 - 1]) /\ hi[k0] = 2 * hi[k0 - 1] /\ hi[k0 - 1] \in Nat /\ hi[k0 - 1] > 0
    BY <1>1, <1>7, <2>1
  <2>3. \A x \in Nat : (2 * x) \div 2 = x
    OBVIOUS
  <2>4. hi[k0] \div 2 = hi[k0 - 1]
    BY <2>2, <2>3
  <2> QED
    BY <1>2, <1>7, <2>2, <2>4
<1> QED
  BY <1>8, <1>9

LEMMA MaxCapacityIs ==
  ASSUME NEW p \in Plan
  PROVE  /\ MaxCapacity(p) \in Nat
         /\ MaxCapacity(p) > 0 => FitsAt(p, MaxCapacity(p))
         /\ ~FitsAt(p, MaxCapacity(p) + 1)
<1>1. CASE ~FitsAt(p, 0)
  <2>1. MaxCapacity(p) = 0
    BY <1>1 DEF MaxCapacity
  <2>2. ~FitsAt(p, 1)
    BY <1>1, FitsFacts
  <2>3. ~FitsAt(p, MaxCapacity(p) + 1)
    <3>1. MaxCapacity(p) + 1 = 1
      BY <2>1
    <3> QED
      BY <2>2, <3>1
  <2> QED
    BY <2>1, <2>3
<1>2. CASE FitsAt(p, 0)
  <2> DEFINE hi == FirstHi(p)
             lo == hi \div 2
  <2>1. MaxCapacity(p) = Bisected(p, lo, hi)
    BY <1>2 DEF MaxCapacity
  <2>2. lo \in Nat /\ hi \in Nat /\ lo < hi /\ FitsAt(p, lo) /\ ~FitsAt(p, hi)
    BY <1>2, FirstHiIs
  <2> HIDE DEF lo, hi
  <2> QED
    BY <2>1, <2>2, BisectedIs
<1> QED
  BY <1>1, <1>2

\* The capacity a refusal names fits and the next does not, on the batched path
\* no larger one, however large.
THEOREM RefusalsNameLargest == Spec => []RefusalNamesLargest
<1>1. IInv => RefusalNamesLargest
  <2> SUFFICES ASSUME IInv, NEW n \in told
               PROVE  /\ n > 0 => FitsAt(plan, n)
                      /\ ~FitsAt(plan, n + 1)
                      /\ ~Single(plan) => \A c \in n + 1 .. 2 * plan.capacity : ~FitsAt(plan, c)
    BY DEF RefusalNamesLargest
  <2>1. plan \in Plan /\ n = MaxCapacity(plan)
    BY DEF IInv, TypeOK
  <2>2. n \in Nat /\ (n > 0 => FitsAt(plan, n)) /\ ~FitsAt(plan, n + 1)
    BY <2>1, MaxCapacityIs
  <2>3. ASSUME ~Single(plan), NEW c \in n + 1 .. 2 * plan.capacity PROVE ~FitsAt(plan, c)
    <3>1. c \in Nat /\ n + 1 \in Nat /\ n + 1 <= c
      BY <2>1, <2>2, PlanIs
    <3> QED
      BY <2>1, <2>2, <2>3, <3>1, FitsFacts
  <2> QED
    BY <2>2, <2>3
<1> QED
  BY <1>1, Invariant, PTL

-----------------------------------------------------------------------------
(* What was approved fits.                                                 *)

\* The card after one more runtime has at most its bytes more.
LEMMA BytesBound ==
  ASSUME NEW p \in Plan, NEW C \in SUBSET Held, IsFiniteSet(C), NEW x \in Held
  PROVE  /\ C \cup {x} \in SUBSET Held /\ IsFiniteSet(C \cup {x})
         /\ BytesOf(p, C) \in Nat /\ BytesOf(p, C \cup {x}) \in Nat /\ RuntimeBytes(p, x) \in Nat
         /\ BytesOf(p, C \cup {x}) <= BytesOf(p, C) + RuntimeBytes(p, x)
<1>1. C \cup {x} \in SUBSET Held /\ IsFiniteSet(C \cup {x})
  BY FS_AddElement
<1>2. BytesOf(p, C) \in Nat /\ BytesOf(p, C \cup {x}) \in Nat
  BY <1>1, BytesAdd
<1>3. RuntimeBytes(p, x) \in Nat
  BY RuntimeIs
<1>4. BytesOf(p, C \cup {x}) = BytesOf(p, C) + (IF x \in C THEN 0 ELSE RuntimeBytes(p, x))
  BY BytesAdd
<1> QED
  BY <1>1, <1>2, <1>3, <1>4

LEMMA RuntimeCosts ==
  ASSUME NEW p \in Plan, NEW c \in Nat
  PROVE  /\ Runtime("base", c) \in Held /\ Runtime("decode", c) \in Held
         /\ Runtime("prefill", c) \in Held
         /\ Single(p) => RuntimeBytes(p, Runtime("base", c))
                           = BytesPerPosition(p) * (c + 1) * 2 + p.weight_bytes
         /\ ~Single(p) =>
              /\ RuntimeBytes(p, Runtime("base", c))
                   = BytesPerPosition(p) * (c + 1) * p.batch + p.weight_bytes
              /\ RuntimeBytes(p, Runtime("decode", c)) = BytesPerPosition(p) * (c + 1) * p.batch
         /\ RuntimeBytes(p, Runtime("prefill", c)) <= BytesPerPosition(p) * (c + 1) * 2
<1>1. /\ Runtime("base", c) \in Held /\ Runtime("decode", c) \in Held
      /\ Runtime("prefill", c) \in Held
  BY DEF Runtime, Held
<1> DEFINE b == BytesPerPosition(p) * (c + 1)
<1>2. b \in Nat /\ p.weight_bytes \in Nat /\ p.batch \in Nat
  BY PositionIs, PlanIs, Products
<1> HIDE DEF b
<1>3. \A r \in Held : r.cap = c =>
        RuntimeBytes(p, r) = b * Slots(p, r) + (IF r.role = "base" THEN p.weight_bytes ELSE 0)
  BY DEF RuntimeBytes, b
<1>4. /\ Runtime("base", c).role = "base" /\ Runtime("base", c).cap = c
      /\ Runtime("decode", c).role = "decode" /\ Runtime("decode", c).cap = c
      /\ Runtime("prefill", c).role = "prefill" /\ Runtime("prefill", c).cap = c
  BY DEF Runtime
<1>5. /\ Slots(p, Runtime("base", c)) = IF Single(p) THEN 2 ELSE p.batch
      /\ Slots(p, Runtime("decode", c)) = IF Single(p) THEN 2 ELSE p.batch
      /\ Slots(p, Runtime("prefill", c)) \in {0, 2}
  BY <1>4 DEF Slots
<1>6. Single(p) => RuntimeBytes(p, Runtime("base", c)) = b * 2 + p.weight_bytes
  BY <1>1, <1>3, <1>4, <1>5
<1>7. ~Single(p) => /\ RuntimeBytes(p, Runtime("base", c)) = b * p.batch + p.weight_bytes
                    /\ RuntimeBytes(p, Runtime("decode", c)) = b * p.batch
  <2>1. b * p.batch \in Nat
    BY <1>2, Products
  <2> QED
    BY <1>1, <1>3, <1>4, <1>5, <2>1
<1>8. RuntimeBytes(p, Runtime("prefill", c)) <= b * 2
  <2>1. RuntimeBytes(p, Runtime("prefill", c)) = b * Slots(p, Runtime("prefill", c)) + 0
    BY <1>1, <1>3, <1>4
  <2>2. b * 0 = 0 /\ b * 2 \in Nat
    BY <1>2
  <2> QED
    BY <1>5, <2>1, <2>2
<1> QED
  BY <1>1, <1>6, <1>7, <1>8 DEF b

\* A position takes an even number of bytes, so the half caches come out even.
LEMMA CachesAre ==
  ASSUME NEW p \in Plan
  PROVE  \E u \in Nat : /\ BytesPerPosition(p) = 2 * u
                        /\ \A c \in Nat : CacheBytesAt(p, c) = u * (c + 1) * Halves(p)
<1> DEFINE u == p.n_kv_heads * p.head_dim * 2 * p.layers
<1>1. {p.layers, p.n_kv_heads, p.head_dim} \subseteq Nat
  BY DEF Plan
<1>2. p.n_kv_heads * p.head_dim \in Nat
  BY <1>1, Products
<1>3. p.n_kv_heads * p.head_dim * 2 \in Nat
  BY <1>2
<1>4. u \in Nat
  BY <1>1, <1>3, Products
<1>5. BytesPerPosition(p) = 2 * u
  <2>1. ASSUME NEW x \in Nat, NEW y \in Nat, NEW z \in Nat
        PROVE  2 * x * y * 2 * z = 2 * (x * y * 2 * z)
    OBVIOUS
  <2> QED
    BY <1>1, <2>1 DEF BytesPerPosition
<1> HIDE DEF u
<1>6. ASSUME NEW c \in Nat PROVE CacheBytesAt(p, c) = u * (c + 1) * Halves(p)
  <2>1. Halves(p) \in Nat
    BY PlanIs DEF Halves
  <2>2. u * (c + 1) \in Nat
    BY <1>4, Products
  <2>3. u * (c + 1) * Halves(p) \in Nat
    BY <2>1, <2>2, Products
  <2>4. ASSUME NEW x \in Nat, NEW y \in Nat, NEW z \in Nat
        PROVE  2 * x * y * z = 2 * (x * y * z)
    OBVIOUS
  <2>5. (2 * u) * (c + 1) * Halves(p) = 2 * (u * (c + 1) * Halves(p))
    <3>1. c + 1 \in Nat
      OBVIOUS
    <3> QED
      BY <1>4, <2>1, <2>4, <3>1
  <2>6. \A x \in Nat : (2 * x) \div 2 = x
    OBVIOUS
  <2> QED
    BY <1>5, <2>3, <2>5, <2>6 DEF CacheBytesAt
<1> QED
  BY <1>4, <1>5, <1>6

\* The arithmetic of a growth from o to c positions at least twice as many: the
\* first bucket's caches, those of both buckets, and the two prefill pairs.
LEMMA Peak ==
  ASSUME NEW u \in Nat, NEW f \in Nat, NEW o \in Nat, NEW c \in Nat, NEW b \in Nat, NEW full \in Nat,
         2 * o <= c, c <= full
  PROVE  (2 * u) * (f + 1) * b + (2 * u) * (o + 1) * 2 + (2 * u) * (o + 1) * b
           + (2 * u) * (c + 1) * b + (2 * u) * (c + 1) * 2
           <= u * (c + 1) * (3 * b + 4) + (2 * u) * (b * (f + 2) + full + 2)
<1> DEFINE fb == f * b
           ob == o * b
           cb == c * b
           x == 2 * (fb + b + 2 * o + 2 + ob + b + cb + b + 2 * c + 2)
           y == 3 * cb + 4 * c + 3 * b + 4 + 2 * (fb + 2 * b + full + 2)
<1>1. fb \in Nat /\ ob \in Nat /\ cb \in Nat /\ 2 * ob <= cb
  <2>1. (2 * o) * b <= c * b /\ (2 * o) * b = 2 * (o * b)
    BY Products
  <2> QED
    BY <2>1, Products
<1>2. x <= y /\ x \in Nat /\ y \in Nat
  <2> HIDE DEF fb, ob, cb
  <2> QED
    BY <1>1
<1>3. u * x <= u * y
  <2> HIDE DEF x, y
  <2> QED
    BY <1>2, Products
<1>4. u * x = (2 * u) * (f + 1) * b + (2 * u) * (o + 1) * 2 + (2 * u) * (o + 1) * b
                + (2 * u) * (c + 1) * b + (2 * u) * (c + 1) * 2
  OBVIOUS
<1>5. u * y = u * (c + 1) * (3 * b + 4) + (2 * u) * (b * (f + 2) + full + 2)
  OBVIOUS
<1> QED
  BY <1>3, <1>4, <1>5

\* Doublings: the next one is at least twice the last.
LEMMA DoublingsGrow ==
  ASSUME NEW n \in Nat \ {0}, NEW j \in Nat, NEW k \in Nat,
         Shape!Doubled(n)[j] < Shape!Doubled(n)[k]
  PROVE  2 * Shape!Doubled(n)[j] <= Shape!Doubled(n)[k]
<1> DEFINE d == Shape!Doubled(n)
           T == {i \in Nat : \A m \in Nat : m <= i => d[m] <= d[i]}
<1>1. d \in [Nat -> Nat] /\ \A i \in Nat : d[i + 1] = 2 * d[i]
  <2>1. n \in Nat
    OBVIOUS
  <2> QED
    BY <2>1, DoubledIs
<1> HIDE DEF d
<1>2. 0 \in T
  BY <1>1
<1>3. ASSUME NEW i \in Nat, i \in T PROVE i + 1 \in T
  <2> SUFFICES ASSUME NEW m \in Nat, m <= i + 1 PROVE d[m] <= d[i + 1]
    OBVIOUS
  <2>1. d[i] \in Nat /\ d[i + 1] = 2 * d[i] /\ d[m] \in Nat
    BY <1>1
  <2>2. m = i + 1 \/ d[m] <= d[i]
    BY <1>3
  <2> QED
    BY <2>1, <2>2
<1> HIDE DEF T
<1>4. Nat \subseteq T
  BY <1>2, <1>3, Induction
<1>5. d[j] < d[k] /\ d[j] \in Nat /\ d[k] \in Nat
  BY <1>1 DEF d
<1>6. ~(k <= j)
  BY <1>4, <1>5 DEF T
<1>7. d[j + 1] <= d[k] /\ d[j + 1] = 2 * d[j]
  BY <1>1, <1>4, <1>6 DEF T
<1> QED
  BY <1>7 DEF d

\* In a covered plan a bucket that has outgrown another is twice as large.
LEMMA OutgrownIsHalf ==
  ASSUME plan \in Plan, ~Single(plan), Covered(plan),
         NEW o \in Nat, IsBucket(o), NEW c \in Nat, IsBucket(c), o < c
  PROVE  2 * o <= c /\ c <= plan.capacity
<1> DEFINE d == Shape!Doubled(MinCapacity)
<1>1. PICK k \in 0 .. plan.capacity : plan.capacity = d[k]
  BY DEF Covered
<1>2. PICK i \in 0 .. plan.capacity : o = Shape!Least(d[i], plan.capacity)
  BY DEF IsBucket
<1>3. PICK j \in 0 .. plan.capacity : c = Shape!Least(d[j], plan.capacity)
  BY DEF IsBucket
<1>4. plan.capacity \in Nat /\ i \in Nat /\ j \in Nat /\ k \in Nat
  BY PlanIs
<1>5. d \in [Nat -> Nat]
  <2>1. MinCapacity \in Nat
    OBVIOUS
  <2> QED
    BY <2>1, DoubledIs
<1> HIDE DEF d
<1>6. c <= plan.capacity /\ o = d[i] /\ (c = d[j] \/ c = d[k])
  BY <1>1, <1>2, <1>3, <1>4, <1>5 DEF Shape!Least
<1>7. \A m \in Nat : d[i] < d[m] => 2 * d[i] <= d[m]
  BY <1>4, DoublingsGrow DEF d
<1> QED
  BY <1>4, <1>6, <1>7

\* The bytes of a model of bucket o with a growth to c all but done, and the
\* transients of the new bucket: what a covered plan that fits has room for.
LEMMA GrowthFits ==
  ASSUME plan \in Plan, ~Single(plan), Covered(plan),
         NEW o \in Nat, NEW c \in Nat, FitsAt(plan, c), 2 * o <= c, c <= plan.capacity
  PROVE  BytesOf(plan, RuntimesOf(o)) + RuntimeBytes(plan, Runtime("decode", c))
           + RuntimeBytes(plan, Runtime("prefill", c)) + TransientBytesAt(plan, c)
           <= plan.device_bytes
<1> DEFINE f == FirstCapacity
           b == plan.batch
           full == plan.capacity
           B == Runtime("base", f)
           P == Runtime("prefill", o)
           D == Runtime("decode", o)
<1>1. f \in Nat /\ b \in Nat /\ full \in Nat /\ plan.weight_bytes \in Nat
      /\ plan.reserve_bytes \in Nat /\ plan.device_bytes \in Nat /\ c <= full
  BY FirstIs, PlanIs
<1>2. PICK u \in Nat : /\ BytesPerPosition(plan) = 2 * u
                       /\ \A x \in Nat : CacheBytesAt(plan, x) = u * (x + 1) * Halves(plan)
  BY CachesAre
<1>3. /\ B \in Held /\ RuntimeBytes(plan, B) = (2 * u) * (f + 1) * b + plan.weight_bytes
      /\ D \in Held /\ RuntimeBytes(plan, D) = (2 * u) * (o + 1) * b
      /\ P \in Held /\ RuntimeBytes(plan, P) <= (2 * u) * (o + 1) * 2
      /\ RuntimeBytes(plan, Runtime("decode", c)) = (2 * u) * (c + 1) * b
      /\ RuntimeBytes(plan, Runtime("prefill", c)) <= (2 * u) * (c + 1) * 2
      /\ Runtime("decode", c) \in Held /\ Runtime("prefill", c) \in Held
  BY <1>1, <1>2, RuntimeCosts
<1>4. /\ BytesOf(plan, RuntimesOf(o)) \in Nat
      /\ BytesOf(plan, RuntimesOf(o))
           <= RuntimeBytes(plan, B) + RuntimeBytes(plan, P) + RuntimeBytes(plan, D)
      /\ RuntimeBytes(plan, B) \in Nat /\ RuntimeBytes(plan, P) \in Nat /\ RuntimeBytes(plan, D) \in Nat
  <2> HIDE DEF B, P, D
  <2>1. PICK E \in SUBSET Held : E = {} /\ IsFiniteSet(E) /\ BytesOf(plan, E) = 0
    BY FS_EmptySet, NoBytes
  <2> DEFINE S == E \cup {B}
             T == S \cup {P}
             U == T \cup {D}
  <2>2. /\ S \in SUBSET Held /\ IsFiniteSet(S) /\ RuntimeBytes(plan, B) \in Nat
        /\ BytesOf(plan, S) \in Nat /\ BytesOf(plan, S) <= RuntimeBytes(plan, B)
    <3>1. /\ BytesOf(plan, S) <= BytesOf(plan, E) + RuntimeBytes(plan, B)
          /\ S \in SUBSET Held /\ IsFiniteSet(S) /\ RuntimeBytes(plan, B) \in Nat
          /\ BytesOf(plan, S) \in Nat
      BY <1>3, <2>1, BytesBound
    <3> HIDE DEF S
    <3> QED
      BY <2>1, <3>1
  <2>3. RuntimesOf(o) \in {T, U}
    BY <2>1 DEF RuntimesOf, B, P, D
  <2> HIDE DEF S
  <2>4. /\ T \in SUBSET Held /\ IsFiniteSet(T) /\ RuntimeBytes(plan, P) \in Nat
        /\ BytesOf(plan, T) \in Nat
        /\ BytesOf(plan, T) <= BytesOf(plan, S) + RuntimeBytes(plan, P)
    BY <1>3, <2>2, BytesBound
  <2> HIDE DEF T
  <2>5. /\ RuntimeBytes(plan, D) \in Nat /\ BytesOf(plan, U) \in Nat
        /\ BytesOf(plan, U) <= BytesOf(plan, T) + RuntimeBytes(plan, D)
    BY <1>3, <2>4, BytesBound
  <2> HIDE DEF U
  <2> QED
    BY <2>2, <2>3, <2>4, <2>5
<1>5. (2 * u) * (f + 1) * b + (2 * u) * (o + 1) * 2 + (2 * u) * (o + 1) * b
        + (2 * u) * (c + 1) * b + (2 * u) * (c + 1) * 2
        <= u * (c + 1) * (3 * b + 4) + (2 * u) * (b * (f + 2) + full + 2)
  <2> HIDE DEF f, b, full
  <2> QED
    BY <1>1, Peak
<1>6. CacheBytesAt(plan, c) = u * (c + 1) * (3 * b + 4)
  BY <1>2 DEF Halves
<1>7. plan.reserve_bytes >= (2 * u) * (b * (f + 2) + full + 2)
  BY <1>2 DEF Covered, Omitted, FirstCapacity
<1>8. /\ TransientBytesAt(plan, c) \in Nat
      /\ plan.weight_bytes + CacheBytesAt(plan, c) + TransientBytesAt(plan, c) + plan.reserve_bytes
           <= plan.device_bytes
  <2>1. BucketKeys(plan, c + 1) \in Nat /\ c + 1 \in Nat
    BY BucketKeysAre
  <2>2. Transients(plan, c + 1, BucketKeys(plan, c + 1)) \in Nat
    <3>1. c + 1 <= c + 1 /\ BucketKeys(plan, c + 1) <= BucketKeys(plan, c + 1)
      BY <2>1
    <3> QED
      BY <2>1, <3>1, TransientsGrow
  <2>3. TransientBytesAt(plan, c) \in Nat
    BY <2>2 DEF TransientBytesAt, Transients
  <2> QED
    BY <2>3 DEF FitsAt, TotalBytesAt
<1> DEFINE t1 == (2 * u) * (f + 1) * b
           t2 == (2 * u) * (o + 1) * 2
           t3 == (2 * u) * (o + 1) * b
           t4 == (2 * u) * (c + 1) * b
           t5 == (2 * u) * (c + 1) * 2
           t6 == u * (c + 1) * (3 * b + 4)
           t7 == (2 * u) * (b * (f + 2) + full + 2)
<1>9. {t1, t2, t3, t4, t5, t6, t7} \subseteq Int
  BY <1>1
<1>10. RuntimeBytes(plan, Runtime("decode", c)) \in Nat /\ RuntimeBytes(plan, Runtime("prefill", c)) \in Nat
  BY <1>3, RuntimeIs
<1>11. /\ RuntimeBytes(plan, B) = t1 + plan.weight_bytes /\ RuntimeBytes(plan, P) <= t2
       /\ RuntimeBytes(plan, D) = t3 /\ RuntimeBytes(plan, Runtime("decode", c)) = t4
       /\ RuntimeBytes(plan, Runtime("prefill", c)) <= t5
       /\ CacheBytesAt(plan, c) = t6 /\ plan.reserve_bytes >= t7
       /\ t1 + t2 + t3 + t4 + t5 <= t6 + t7
  BY <1>3, <1>5, <1>6, <1>7
<1> HIDE DEF t1, t2, t3, t4, t5, t6, t7, B, P, D, f, b, full
<1> QED
  BY <1>1, <1>4, <1>8, <1>9, <1>10, <1>11

\* So has a plan room for a model of the first bucket if that fits.
LEMMA FirstFits ==
  ASSUME plan \in Plan, NEW c \in Nat, FitsAt(plan, c)
  PROVE  /\ Single(plan) => RuntimeBytes(plan, Runtime("base", c)) + TransientBytesAt(plan, c)
                              <= plan.device_bytes
         /\ ~Single(plan) => RuntimeBytes(plan, Runtime("base", c))
                               + RuntimeBytes(plan, Runtime("prefill", c)) + TransientBytesAt(plan, c)
                               <= plan.device_bytes
<1> DEFINE b == plan.batch
<1>1. b \in Nat /\ plan.weight_bytes \in Nat /\ plan.reserve_bytes \in Nat /\ plan.device_bytes \in Nat
  BY PlanIs
<1>2. PICK u \in Nat : /\ BytesPerPosition(plan) = 2 * u
                       /\ \A x \in Nat : CacheBytesAt(plan, x) = u * (x + 1) * Halves(plan)
  BY CachesAre
<1>3. /\ Single(plan) => RuntimeBytes(plan, Runtime("base", c)) = (2 * u) * (c + 1) * 2 + plan.weight_bytes
      /\ ~Single(plan) => RuntimeBytes(plan, Runtime("base", c)) = (2 * u) * (c + 1) * b + plan.weight_bytes
      /\ RuntimeBytes(plan, Runtime("prefill", c)) <= (2 * u) * (c + 1) * 2
      /\ RuntimeBytes(plan, Runtime("prefill", c)) \in Nat
  <2>1. Runtime("prefill", c) \in Held
    BY RuntimeCosts
  <2> QED
    BY <1>2, <2>1, RuntimeCosts, RuntimeIs
<1> DEFINE v == u * (c + 1)
<1>4. v \in Nat /\ v * b \in Nat
  <2>1. v \in Nat
    BY Products
  <2> HIDE DEF v
  <2> QED
    BY <1>1, <2>1, Products
<1>5. /\ (2 * u) * (c + 1) * 2 = 4 * v /\ (2 * u) * (c + 1) * b = 2 * (v * b)
      /\ u * (c + 1) * (3 * b + 4) = 3 * (v * b) + 4 * v /\ u * (c + 1) * 4 = 4 * v
  BY <1>1
<1>6. CacheBytesAt(plan, c) = IF Single(plan) THEN 4 * v ELSE 3 * (v * b) + 4 * v
  BY <1>2, <1>5 DEF Halves
<1>7. TransientBytesAt(plan, c) \in Nat
  <2>1. BucketKeys(plan, c + 1) \in Nat /\ c + 1 \in Nat
    BY BucketKeysAre
  <2>2. c + 1 <= c + 1 /\ BucketKeys(plan, c + 1) <= BucketKeys(plan, c + 1)
    BY <2>1
  <2>3. Transients(plan, c + 1, BucketKeys(plan, c + 1)) \in Nat
    BY <2>1, <2>2, TransientsGrow
  <2> QED
    BY <2>3 DEF TransientBytesAt, Transients
<1>8. plan.weight_bytes + CacheBytesAt(plan, c) + TransientBytesAt(plan, c) + plan.reserve_bytes
        <= plan.device_bytes
  BY DEF FitsAt, TotalBytesAt
<1> DEFINE w == v * b
<1>9. /\ w \in Nat /\ CacheBytesAt(plan, c) = (IF Single(plan) THEN 4 * v ELSE 3 * w + 4 * v)
      /\ Single(plan) => RuntimeBytes(plan, Runtime("base", c)) = 4 * v + plan.weight_bytes
      /\ ~Single(plan) => RuntimeBytes(plan, Runtime("base", c)) = 2 * w + plan.weight_bytes
      /\ RuntimeBytes(plan, Runtime("prefill", c)) <= 4 * v
  BY <1>3, <1>4, <1>5, <1>6
<1> HIDE DEF v, w, b
<1> QED
  BY <1>1, <1>3, <1>4, <1>7, <1>8, <1>9

\* What is on the card, or still to be built, is of a bucket that fits.
LEMMA HeldFits == ASSUME IInv PROVE \A r \in card : FitsAt(plan, r.cap)
<1>1. /\ TypeOK /\ UnderWay /\ Bucketed /\ plan \in Plan /\ cap \in Nat
      /\ FirstCapacity \in 1 .. plan.capacity
  BY TypeFacts DEF IInv
<1>2. \A r \in Now : FitsAt(plan, r.cap)
  BY <1>1 DEF Now, RuntimesOf, Runtime, Bucketed
<1>3. CASE ask = Idle /\ todo = <<>> /\ card = Now
  BY <1>2, <1>3
<1>4. CASE /\ ask = [kind |-> "new", cap |-> FirstCapacity] /\ cap = 0
           /\ FitsAt(plan, FirstCapacity)
           /\ Building(Firsts)
  <2>1. PICK all \in Seq(Held) : all = Firsts
    BY <1>1, FirstsIs
  <2>2. \A i \in 1 .. Len(all) : all[i].cap = FirstCapacity
    <3>1. CASE Single(plan)
      <4>1. all = <<Runtime("base", FirstCapacity)>>
        BY <1>1, <2>1, <3>1, FirstsIs
      <4> QED
        BY <4>1 DEF Runtime
    <3>2. CASE ~Single(plan)
      <4>1. all = <<Runtime("base", FirstCapacity), Runtime("prefill", FirstCapacity)>>
        BY <1>1, <2>1, <3>2, FirstsIs
      <4>2. Len(all) = 2 /\ all[1].cap = FirstCapacity /\ all[2].cap = FirstCapacity
        BY <4>1 DEF Runtime
      <4> QED
        BY <4>2
    <3> QED
      BY <3>1, <3>2
  <2>3. PICK k \in 0 .. Len(all) : card = Now \cup {all[i] : i \in 1 .. k}
    <3>1. Building(all)
      BY <1>4, <2>1
    <3> QED
      BY <3>1 DEF Building
  <2>4. 1 .. k \subseteq 1 .. Len(all)
    OBVIOUS
  <2> QED
    BY <1>2, <1>4, <2>2, <2>3, <2>4
<1>5. ASSUME NEW n \in 1 .. plan.capacity, FitsAt(plan, AllocatedCapacity(plan, n)), Building(Growth(n))
      PROVE  \A r \in card : FitsAt(plan, r.cap)
  <2>1. PICK all \in Seq(Held) : all = Growth(n)
    BY <1>1, GrowthIs
  <2>2. \A i \in 1 .. Len(all) : FitsAt(plan, all[i].cap)
    <3>1. CASE Growth(n) = <<>>
      BY <2>1, <3>1
    <3>2. CASE /\ Reached(n) = AllocatedCapacity(plan, n)
               /\ Growth(n) = <<Runtime("decode", Reached(n)), Runtime("prefill", Reached(n))>>
      <4>1. Len(all) = 2 /\ all[1].cap = Reached(n) /\ all[2].cap = Reached(n)
        BY <2>1, <3>2 DEF Runtime
      <4> QED
        BY <1>5, <3>2, <4>1
    <3> QED
      BY <1>1, <3>1, <3>2, GrowthIs
  <2>3. PICK k \in 0 .. Len(all) : card = Now \cup {all[i] : i \in 1 .. k}
    <3>1. Building(all)
      BY <1>5, <2>1
    <3> QED
      BY <3>1 DEF Building
  <2>4. 1 .. k \subseteq 1 .. Len(all)
    OBVIOUS
  <2> QED
    BY <1>2, <2>2, <2>3, <2>4
<1> QED
  BY <1>1, <1>3, <1>4, <1>5 DEF UnderWay

\* Of two runtimes to build beside those of Now, the next one is the first or
\* the second.
LEMMA NextOfTwo ==
  ASSUME NEW x \in Held, NEW y \in Held, Building(<<x, y>>), todo \in Seq(Held), todo # <<>>
  PROVE  \/ Head(todo) = x /\ card = Now
         \/ Head(todo) = y /\ card = Now \cup {x}
<1> DEFINE all == <<x, y>>
<1>1. Len(all) = 2 /\ all[1] = x /\ all[2] = y
  OBVIOUS
<1>2. PICK k \in 0 .. Len(all) : /\ Len(todo) = Len(all) - k
                                 /\ \A i \in 1 .. Len(todo) : todo[i] = all[k + i]
                                 /\ card = Now \cup {all[i] : i \in 1 .. k}
  BY DEF Building
<1> HIDE DEF all
<1>3. Len(todo) \in Nat \ {0} /\ Head(todo) = todo[1]
  OBVIOUS
<1>4. k \in {0, 1} /\ Head(todo) = all[k + 1]
  BY <1>1, <1>2, <1>3
<1>5. CASE k = 0
  BY <1>1, <1>2, <1>4, <1>5
<1>6. CASE k = 1
  <2>1. {all[i] : i \in 1 .. k} = {all[1]}
    BY <1>6
  <2> QED
    BY <1>1, <1>2, <1>4, <1>6, <2>1
<1> QED
  BY <1>4, <1>5, <1>6

\* Whatever is still to be built has room, and the transients of the bucket
\* beside it.
LEMMA NextFits ==
  ASSUME IInv, Covered(plan), leaked = 0, todo # <<>>
  PROVE  RuntimeBytes(plan, Head(todo)) + TransientBytesAt(plan, ask.cap) <= Room
<1>1. /\ TypeOK /\ UnderWay /\ Bucketed /\ plan \in Plan /\ cap \in Nat /\ todo \in Seq(Held)
      /\ FirstCapacity \in 1 .. plan.capacity /\ FirstCapacity \in Nat
      /\ plan.device_bytes \in Nat /\ plan.capacity \in Nat
      /\ Head(todo) \in Held
  BY TypeFacts DEF IInv, TypeOK
<1>2. Room = plan.device_bytes - BytesOf(plan, card) /\ BytesOf(plan, card) \in Nat
  <2>1. InUse = leaked + BytesOf(plan, card) /\ BytesOf(plan, card) \in Nat
    BY <1>1, TypeFacts
  <2> QED
    BY <2>1 DEF Room
<1>3. PICK c : c = ask.cap
  OBVIOUS
<1>4. \A r \in Held : RuntimeBytes(plan, r) \in Nat
  BY <1>1, RuntimeIs
<1>5. \A x \in Nat : TransientBytesAt(plan, x) \in Nat
  <2> TAKE x \in Nat
  <2>1. BucketKeys(plan, x + 1) \in Nat /\ x + 1 \in Nat
    BY <1>1, BucketKeysAre
  <2>2. x + 1 <= x + 1 /\ BucketKeys(plan, x + 1) <= BucketKeys(plan, x + 1)
    BY <2>1
  <2>3. Transients(plan, x + 1, BucketKeys(plan, x + 1)) \in Nat
    BY <1>1, <2>1, <2>2, TransientsGrow
  <2> QED
    BY <2>3 DEF TransientBytesAt, Transients
<1> DEFINE trans == TransientBytesAt(plan, c)
           head == RuntimeBytes(plan, Head(todo))
           used == BytesOf(plan, card)
<1> SUFFICES used + head + trans <= plan.device_bytes /\ trans \in Int
  <2>1. head \in Nat /\ head = RuntimeBytes(plan, Head(todo)) /\ trans = TransientBytesAt(plan, ask.cap)
        /\ used \in Nat /\ Room = plan.device_bytes - used
    BY <1>1, <1>2, <1>3, <1>4
  <2> HIDE DEF head, used, trans
  <2> QED
    BY <1>1, <2>1, SMTT(20)
<1>6. CASE /\ ask = [kind |-> "new", cap |-> FirstCapacity] /\ cap = 0
           /\ FitsAt(plan, FirstCapacity)
           /\ Building(Firsts)
  <2> DEFINE B == Runtime("base", c)
             P == Runtime("prefill", c)
  <2>1. c = FirstCapacity /\ Now = {} /\ c \in Nat
    BY <1>1, <1>3, <1>6 DEF Now
  <2>2. B \in Held /\ P \in Held
    BY <2>1, RuntimeCosts, <1>1
  <2>3. {} \in SUBSET Held /\ IsFiniteSet({}) /\ BytesOf(plan, {}) = 0
    BY <1>1, FS_EmptySet, NoBytes
  <2>4. CASE Single(plan)
    <3>1. Firsts = <<B>>
      BY <1>1, <2>1, <2>4, FirstsIs
    <3>2. Head(todo) = B /\ card = {}
      <4>1. PICK all \in Seq(Held) : all = Firsts
        BY <1>1, FirstsIs
      <4>2. Building(all) /\ Len(all) = 1 /\ all[1] = B
        BY <1>6, <3>1, <4>1
      <4>3. PICK k \in 0 .. Len(all) : /\ Len(todo) = Len(all) - k
                                       /\ \A i \in 1 .. Len(todo) : todo[i] = all[k + i]
                                       /\ card = Now \cup {all[i] : i \in 1 .. k}
        BY <4>2 DEF Building
      <4>4. Len(todo) \in Nat \ {0} /\ Head(todo) = todo[1]
        BY <1>1
      <4>5. k = 0
        BY <4>2, <4>3, <4>4
      <4> HIDE DEF B
      <4> QED
        BY <2>1, <4>2, <4>3, <4>4, <4>5
    <3>3. RuntimeBytes(plan, B) + TransientBytesAt(plan, c) <= plan.device_bytes
      BY <1>1, <1>6, <2>1, <2>4, FirstFits
    <3>4. used = 0 /\ head = RuntimeBytes(plan, B) /\ head \in Nat /\ trans \in Nat
      BY <1>4, <1>5, <2>1, <2>2, <2>3, <3>2
    <3>5. head + trans <= plan.device_bytes
      BY <3>3, <3>4
    <3> HIDE DEF B, head, used, trans
    <3> QED
      BY <1>1, <3>4, <3>5
  <2>5. CASE ~Single(plan)
    <3>1. Firsts = <<B, P>>
      BY <1>1, <2>1, <2>5, FirstsIs
    <3>2. RuntimeBytes(plan, B) + RuntimeBytes(plan, P) + TransientBytesAt(plan, c) <= plan.device_bytes
      BY <1>1, <1>6, <2>1, <2>5, FirstFits
    <3> HIDE DEF B, P
    <3>3. \/ Head(todo) = B /\ card = {}
          \/ Head(todo) = P /\ card = {} \cup {B}
      <4>1. Building(<<B, P>>)
        BY <1>6, <3>1
      <4> QED
        BY <1>1, <2>1, <2>2, <4>1, NextOfTwo
    <3>4. \/ head = RuntimeBytes(plan, B) /\ used = 0
          \/ head = RuntimeBytes(plan, P) /\ used <= RuntimeBytes(plan, B)
      <4>1. PICK E \in SUBSET Held : E = {} /\ IsFiniteSet(E) /\ BytesOf(plan, E) = 0
        BY <2>3
      <4>2. /\ BytesOf(plan, E \cup {B}) <= BytesOf(plan, E) + RuntimeBytes(plan, B)
            /\ RuntimeBytes(plan, B) \in Nat
        BY <1>1, <2>2, <4>1, BytesBound
      <4>3. BytesOf(plan, E \cup {B}) <= RuntimeBytes(plan, B)
        BY <4>1, <4>2
      <4> QED
        BY <2>3, <3>3, <4>1, <4>3
    <3> DEFINE x == RuntimeBytes(plan, B)
               y == RuntimeBytes(plan, P)
    <3>5. /\ x \in Nat /\ y \in Nat /\ used \in Nat /\ trans \in Nat
          /\ x + y + trans <= plan.device_bytes
          /\ (head = x /\ used = 0) \/ (head = y /\ used <= x)
      BY <1>2, <1>4, <1>5, <2>1, <2>2, <3>2, <3>4
    <3> HIDE DEF x, y, head, used, trans
    <3> QED
      BY <1>1, <3>5
  <2> QED
    BY <2>4, <2>5
<1>7. ASSUME cap > 0, ~Single(plan), NEW n \in 1 .. plan.capacity, ask.cap = Reached(n),
             FitsAt(plan, AllocatedCapacity(plan, n)), Building(Growth(n))
      PROVE  used + head + trans <= plan.device_bytes /\ trans \in Int
  <2> DEFINE D == Runtime("decode", c)
             P == Runtime("prefill", c)
             m == RuntimesOf(cap)
  <2>1. /\ c = AllocatedCapacity(plan, n) /\ Growth(n) = <<D, P>> /\ cap < c /\ c \in Nat
    <3>1. ~(Growth(n) = <<>>)
      <4> SUFFICES ASSUME Growth(n) = <<>> PROVE FALSE
        OBVIOUS
      <4>1. PICK all \in Seq(Held) : all = Growth(n)
        BY <1>1, GrowthIs
      <4>2. Building(all) /\ Len(all) = 0
        BY <1>7, <4>1
      <4>3. Len(todo) = 0 /\ Len(todo) \in Nat
        BY <1>1, <4>2 DEF Building
      <4> QED
        BY <1>1, <4>3
    <3>2. /\ ~(n <= cap) /\ Reached(n) = AllocatedCapacity(plan, n)
          /\ Growth(n) = <<Runtime("decode", Reached(n)), Runtime("prefill", Reached(n))>>
      BY <1>1, <3>1, GrowthIs
    <3>3. AllocatedCapacity(plan, n) \in n .. plan.capacity
      BY <1>1, Allocated
    <3> QED
      BY <1>1, <1>3, <1>7, <3>2, <3>3
  <2>2. 2 * cap <= c /\ c <= plan.capacity
    <3>1. IsBucket(cap) /\ IsBucket(c)
      <4>1. IsBucket(AllocatedCapacity(plan, n))
        BY <1>1, AllocatedIsBucket
      <4> QED
        BY <1>1, <1>7, <2>1, <4>1 DEF Bucketed
    <3>2. \A o, d \in Nat : IsBucket(o) /\ IsBucket(d) /\ o < d => 2 * o <= d /\ d <= plan.capacity
      BY <1>1, <1>7, OutgrownIsHalf
    <3> QED
      BY <1>1, <2>1, <3>1, <3>2
  <2>3. BytesOf(plan, m) + RuntimeBytes(plan, D) + RuntimeBytes(plan, P) + TransientBytesAt(plan, c)
          <= plan.device_bytes
    <3>1. \A o \in Nat : 2 * o <= c =>
            BytesOf(plan, RuntimesOf(o)) + RuntimeBytes(plan, D) + RuntimeBytes(plan, P)
              + TransientBytesAt(plan, c) <= plan.device_bytes
      BY <1>1, <1>7, <2>1, <2>2, GrowthFits
    <3> QED
      BY <1>1, <2>2, <3>1
  <2>4. D \in Held /\ P \in Held
    BY <1>1, <2>1, RuntimeCosts
  <2>5. m \in SUBSET Held /\ IsFiniteSet(m) /\ Now = m
    <3>1. \A o \in Nat : RuntimesOf(o) \in SUBSET Held /\ IsFiniteSet(RuntimesOf(o))
      BY <1>1, RuntimesAreHeld
    <3> QED
      BY <1>1, <1>7, <3>1 DEF Now
  <2> HIDE DEF D, P, m
  <2>6. \/ Head(todo) = D /\ card = m
        \/ Head(todo) = P /\ card = m \cup {D}
    <3>1. Building(<<D, P>>)
      BY <1>7, <2>1
    <3> QED
      BY <1>1, <2>4, <2>5, <3>1, NextOfTwo
  <2>7. BytesOf(plan, m \cup {D}) <= BytesOf(plan, m) + RuntimeBytes(plan, D) /\ BytesOf(plan, m) \in Nat
        /\ BytesOf(plan, m \cup {D}) \in Nat
    BY <1>1, <2>4, <2>5, BytesBound
  <2> DEFINE x == RuntimeBytes(plan, D)
             y == RuntimeBytes(plan, P)
             z == BytesOf(plan, m)
  <2>8. /\ x \in Nat /\ y \in Nat /\ z \in Nat /\ used \in Nat /\ trans \in Nat
        /\ z + x + y + trans <= plan.device_bytes
    BY <1>2, <1>4, <1>5, <2>1, <2>3, <2>4, <2>7
  <2>9. (head = x /\ used = z) \/ (head = y /\ used <= z + x)
    BY <2>6, <2>7
  <2> HIDE DEF x, y, z, head, used, trans
  <2> QED
    BY <1>1, <2>8, <2>9
<1> QED
  BY <1>1, <1>6, <1>7 DEF UnderWay

\* No growth that was approved fails for want of memory: the bucket it reaches
\* was one that fits, and while nothing has leaked a covered plan has room for
\* every runtime still to be built beside all that is alive, with the
\* transients of the new bucket to spare.
THEOREM ApprovedFits == Spec => []ApprovedGrowthFits
<1>1. IInv => ApprovedGrowthFits
  BY HeldFits, NextFits DEF ApprovedGrowthFits
<1> QED
  BY <1>1, Invariant, PTL
=============================================================================
