------------------------- MODULE BatchedModelProofs -------------------------
(***************************************************************************)
(* Proofs about BatchedModel, for every batch, vocabulary, block size,     *)
(* smallest bucket and capacity: what the slots hold and what answers are  *)
(* computed from, as long as no call fails inside loop_steps.              *)
(***************************************************************************)
EXTENDS BatchedModel, KvCacheProofs, SequenceTheorems, TLAPS

USE SequenceAssumption, ModelsAssumption, MinCapacityAssumption, PromptsAssumption,
    IdsAssumption

\* No model fails inside loop_steps.
RunsReturn == \A m \in Models : m.failures \cap {"seed", "run"} = {}

-----------------------------------------------------------------------------
(* Blocks and buckets.                                                     *)

LEMMA ModelIs ==
  ASSUME TypeOK
  PROVE  /\ Rows \in Nat \ {0}
         /\ Capacity \in Nat \ {0}
         /\ cap \in Nat /\ 1 <= cap /\ cap <= Capacity
         /\ pos \in [Sequence -> Nat]
         /\ \A s \in Sequence : pos[s] <= cap
BY DEF TypeOK, Rows, Capacity

\* A product grows with its factor.
LEMMA Product ==
  ASSUME NEW a \in Nat, NEW b \in Nat, a <= b, NEW r \in Nat
  PROVE  /\ a * r \in Nat /\ b * r \in Nat /\ a * r <= b * r
         /\ (a + 1) * r = a * r + r
<1>1. (b - a) * r >= 0 /\ b * r = a * r + (b - a) * r
  OBVIOUS
<1> QED
  BY <1>1

\* Block i of a prompt: where it begins, what it holds, where it ends.
LEMMA ChunkIs ==
  ASSUME TypeOK, NEW toks \in Prompts, NEW i \in Nat, i < NBlocks(toks)
  PROVE  /\ i * Rows \in Nat /\ i * Rows < Len(toks) /\ Len(toks) \in Nat
         /\ Len(Chunk(toks, i)) \in Nat \ {0}
         /\ i * Rows + Len(Chunk(toks, i)) <= Len(toks)
         /\ \A j \in 1 .. Len(Chunk(toks, i)) : /\ Chunk(toks, i)[j] = toks[i * Rows + j]
                                               /\ Chunk(toks, i)[j] \in Token
         /\ i + 1 < NBlocks(toks) => (i + 1) * Rows = i * Rows + Len(Chunk(toks, i))
         /\ ~(i + 1 < NBlocks(toks)) => i * Rows + Len(Chunk(toks, i)) = Len(toks)
<1> DEFINE n == Len(toks)
           r == Rows
           q == (n + r - 1) \div r
           a == i * r
           e == Least((i + 1) * r, n)
<1>1. toks \in Seq(Token) /\ n \in Nat /\ n >= 1
  <2>1. toks \in Seq(Token) /\ toks # <<>>
    OBVIOUS
  <2> QED
    BY <2>1, EmptySeq, LenProperties
<1>2. r \in Nat \ {0}
  BY ModelIs
<1>3. NBlocks(toks) = q
  BY DEF NBlocks, DivCeil
<1>4. q \in Nat /\ r * q <= n + r - 1 /\ n + r - 1 < r * q + r
  <2>1. n + r - 1 \in Nat
    BY <1>1, <1>2
  <2> HIDE DEF n, r
  <2> QED
    BY <1>2, <2>1
<1>5. a \in Nat /\ (i + 1) * r = a + r /\ (i + 1) * r <= q * r /\ q * r = r * q
  <2>1. i + 1 \in Nat /\ i + 1 <= q /\ i <= i + 1
    BY <1>3, <1>4
  <2> HIDE DEF r, q
  <2> QED
    BY <1>2, <1>4, <2>1, Product
<1>6. a < n
  BY <1>1, <1>2, <1>4, <1>5
<1>7. e \in Nat /\ a + 1 <= e /\ e <= n
  BY <1>1, <1>2, <1>5, <1>6 DEF Least
<1>8. Chunk(toks, i) = SubSeq(toks, a + 1, e)
  BY DEF Chunk
<1> HIDE DEF a, e
<1>9. /\ Len(Chunk(toks, i)) = e - a
      /\ \A j \in 1 .. e - a : /\ Chunk(toks, i)[j] = toks[a + j]
                               /\ toks[a + j] \in Token
  <2>1. a + 1 \in 1 .. n /\ e \in 1 .. n
    BY <1>1, <1>5, <1>6, <1>7
  <2>2. Len(SubSeq(toks, a + 1, e)) = e - a
        /\ \A j \in 1 .. e - a : SubSeq(toks, a + 1, e)[j] = toks[a + j]
    <3>1. \A k \in a + 1 .. e : toks[k] \in Token
      BY <1>1, <1>5, <1>7, ElementOfSeq
    <3>2. /\ Len(SubSeq(toks, a + 1, e)) = IF a + 1 <= e THEN e - (a + 1) + 1 ELSE 0
          /\ \A j \in 1 .. e - (a + 1) + 1 : SubSeq(toks, a + 1, e)[j] = toks[(a + 1) + j - 1]
      BY <1>5, <1>7, <3>1, SubSeqProperties
    <3>3. e - (a + 1) + 1 = e - a /\ \A j \in Nat : (a + 1) + j - 1 = a + j
      BY <1>5, <1>7
    <3> QED
      BY <1>5, <1>7, <3>2, <3>3
  <2>3. \A j \in 1 .. e - a : a + j \in 1 .. n
    BY <1>5, <1>7, <1>1
  <2>4. \A k \in 1 .. n : toks[k] \in Token
    BY <1>1, ElementOfSeq
  <2> QED
    BY <1>8, <2>2, <2>3, <2>4
<1>10. ASSUME i + 1 < q PROVE e = a + r
  <2>1. i + 1 \in Nat /\ i + 1 + 1 <= q /\ i + 1 + 1 \in Nat
    BY <1>4, <1>10
  <2>2. (i + 1 + 1) * r = (i + 1) * r + r /\ (i + 1 + 1) * r <= q * r
    <3> HIDE DEF r, q
    <3>1. i + 1 <= i + 1 + 1
      OBVIOUS
    <3> QED
      BY <1>2, <1>4, <2>1, <3>1, Product
  <2>3. (i + 1) * r < n
    BY <1>1, <1>2, <1>4, <1>5, <2>2
  <2> QED
    BY <1>5, <2>3 DEF e, Least
<1>11. ASSUME ~(i + 1 < q) PROVE e = n
  <2>1. q <= i + 1 /\ i + 1 = q
    BY <1>3, <1>4, <1>11
  <2>2. (i + 1) * r >= n
    <3> HIDE DEF n, r, q
    <3> QED
      BY <1>1, <1>2, <1>4, <1>5, <2>1
  <2>3. (i + 1) * r \in Nat
    BY <1>2, <1>5
  <2> HIDE DEF n, r
  <2> QED
    BY <1>1, <2>2, <2>3 DEF e, Least
<1> HIDE DEF n, q, r
<1>12. e - a \in Nat \ {0} /\ a + (e - a) = e
  BY <1>5, <1>7
<1> QED
  BY <1>1, <1>3, <1>5, <1>6, <1>7, <1>9, <1>10, <1>11, <1>12 DEF n, r, a

\* The longest sequence's position.
LEMMA FurthestIs ==
  ASSUME TypeOK
  PROVE  /\ Furthest \in Nat
         /\ \E s \in Sequence : pos[s] = Furthest
         /\ \A s \in Sequence : pos[s] <= Furthest
<1> DEFINE T == {Capacity - pos[s] : s \in Sequence}
           P(p) == /\ \E s \in Sequence : pos[s] = p
                   /\ \A s \in Sequence : pos[s] <= p
<1>1. /\ Capacity \in Nat
      /\ \A s \in Sequence : pos[s] \in Nat /\ pos[s] <= Capacity
  BY ModelIs
<1>2. T \subseteq Nat /\ T # {}
  BY <1>1
<1>3. PICK x \in T : \A y \in T : x <= y
  <2> HIDE DEF T
  <2> QED
    BY <1>2, Minimum
<1>4. PICK s \in Sequence : x = Capacity - pos[s]
  BY <1>3
<1>5. ASSUME NEW o \in Sequence PROVE pos[o] <= pos[s]
  <2>1. Capacity - pos[o] \in T
    OBVIOUS
  <2>2. x <= Capacity - pos[o]
    BY <1>3, <2>1
  <2> QED
    BY <1>1, <1>4, <2>2
<1>6. pos[s] \in 0 .. Capacity /\ P(pos[s])
  BY <1>1, <1>4, <1>5
<1>7. Furthest = CHOOSE p \in 0 .. Capacity : P(p)
  BY DEF Furthest
<1> HIDE DEF P
<1>8. Furthest \in 0 .. Capacity /\ P(Furthest)
  BY <1>6, <1>7
<1> QED
  BY <1>8 DEF P

LEMMA FreshIsBuffer ==
  ASSUME NEW room \in Nat
  PROVE  FreshBuffer(room) \in Buffer(room)
<1>1. \A i \in 0 .. room : i + 1 \in 0 .. room + 1 /\ Junk(i + 1) \in [Span(i + 1) -> Word]
  BY DEF Junk, Word
<1> QED
  BY <1>1 DEF FreshBuffer, Buffer

\* What ensure leaves: a bucket with the room asked for, and in it the rows in
\* use.
LEMMA EnsureKeeps ==
  ASSUME TypeOK, NEW need \in Nat, need <= Capacity, Ensure(need)
  PROVE  /\ cap' \in 1 .. Capacity /\ cap <= cap' /\ need <= cap'
         /\ slots' \in [Sequence -> Buffer(cap')]
         /\ own' \in Buffer(cap')
         /\ \A s \in Sequence : \A i \in Span(pos[s]) : slots'[s][i] = slots[s][i]
<1>1. /\ Capacity \in Nat \ {0} /\ cap \in Nat /\ 1 <= cap /\ cap <= Capacity
      /\ \A s \in Sequence : pos[s] \in Nat /\ pos[s] <= cap
  BY ModelIs
<1>2. slots \in [Sequence -> Buffer(cap)] /\ own \in Buffer(cap)
  BY DEF TypeOK
<1>3. CASE need <= cap
  BY <1>1, <1>2, <1>3 DEF Ensure
<1>4. CASE ~(need <= cap)
  <2> DEFINE room == Bucket(need)
  <2>1. /\ cap' = room
        /\ slots' = [s \in Sequence |-> Moved(s, room)]
        /\ own' = FreshBuffer(room)
    BY <1>4 DEF Ensure
  <2>2. room \in need .. Capacity
    BY <1>1, CacheBucketHolds DEF Bucket
  <2> HIDE DEF room
  <2>3. room \in Nat /\ cap < room /\ room <= Capacity /\ need <= room
    BY <1>1, <1>4, <2>2
  <2>4. ASSUME NEW s \in Sequence PROVE Moved(s, room) \in Buffer(room)
    <3>1. ASSUME NEW i \in 0 .. room
          PROVE  (IF i < pos[s] THEN slots[s][i] ELSE Junk(i + 1))
                   \in UNION {[Span(k) -> Word] : k \in 0 .. room + 1}
      <4>1. CASE i < pos[s]
        <5>1. i \in 0 .. cap
          BY <1>1, <2>3, <4>1
        <5>2. slots[s][i] \in UNION {[Span(k) -> Word] : k \in 0 .. cap + 1}
          <6>1. slots[s] \in Buffer(cap)
            BY <1>2
          <6> QED
            BY <5>1, <6>1 DEF Buffer
        <5>3. 0 .. cap + 1 \subseteq 0 .. room + 1
          BY <1>1, <2>3
        <5> QED
          BY <4>1, <5>2, <5>3
      <4>2. CASE ~(i < pos[s])
        <5>1. i + 1 \in 0 .. room + 1 /\ Junk(i + 1) \in [Span(i + 1) -> Word]
          BY <2>3 DEF Junk, Word
        <5> QED
          BY <4>2, <5>1
      <4> QED
        BY <4>1, <4>2
    <3> QED
      BY <3>1 DEF Moved, Buffer
  <2>5. ASSUME NEW s \in Sequence, NEW i \in Span(pos[s]) PROVE slots'[s][i] = slots[s][i]
    <3>1. i \in 0 .. room /\ i < pos[s]
      BY <1>1, <2>3 DEF Span
    <3> QED
      BY <2>1, <3>1 DEF Moved
  <2>6. own' \in Buffer(room)
    BY <2>1, <2>3, FreshIsBuffer
  <2> QED
    BY <1>1, <2>1, <2>3, <2>4, <2>5, <2>6
<1> QED
  BY <1>3, <1>4

\* So the rows in use stay what they are.
LEMMA EnsureRows ==
  ASSUME TypeOK, NEW need \in Nat, need <= Capacity, Ensure(need),
         NEW s \in Sequence, NEW f, RowsOf(slots[s], pos[s], f)
  PROVE  RowsOf(slots'[s], pos[s], f)
BY EnsureKeeps DEF RowsOf

\* The tokens of a sequence none of whose prefills failed.
LEMMA FedIs ==
  ASSUME TypeOK, NEW s \in Sequence, NEW n \in Nat, DOMAIN fed[s] = Span(n)
  PROVE  fed[s] \in [Span(n) -> Token]
<1>1. fed[s] \in TokensUpTo(Capacity)
  BY DEF TypeOK
<1>2. PICK k \in 0 .. Capacity : fed[s] \in [Span(k) -> Token]
  BY <1>1 DEF TokensUpTo
<1> QED
  BY <1>2

\* Appending to it what fits the cache.
LEMMA FedGrows ==
  ASSUME TypeOK, NEW s \in Sequence, NEW n \in Nat, DOMAIN fed[s] = Span(n),
         NEW toks, Len(toks) \in Nat, \A i \in 1 .. Len(toks) : toks[i] \in Token,
         n + Len(toks) <= Capacity
  PROVE  /\ Extend(fed[s], n, toks) \in [Span(n + Len(toks)) -> Token]
         /\ Extend(fed[s], n, toks) \in TokensUpTo(Capacity)
<1>1. \A i \in Span(n) : fed[s][i] \in Token
  BY FedIs
<1>2. Extend(fed[s], n, toks) \in [Span(n + Len(toks)) -> Token]
  BY <1>1, ExtendType
<1>3. n + Len(toks) \in 0 .. Capacity
  BY ModelIs
<1> QED
  BY <1>2, <1>3 DEF TokensUpTo

\* There is a first block.
LEMMA SomeBlock ==
  ASSUME TypeOK, NEW toks \in Prompts
  PROVE  NBlocks(toks) \in Nat /\ 0 < NBlocks(toks) /\ Len(toks) \in Nat /\ Len(toks) >= 1
<1> DEFINE n == Len(toks)
           r == Rows
<1>1. n \in Nat /\ n >= 1
  <2>1. toks \in Seq(Token) /\ toks # <<>>
    OBVIOUS
  <2> QED
    BY <2>1, EmptySeq, LenProperties
<1>2. r \in Nat \ {0}
  BY ModelIs
<1>3. NBlocks(toks) = (n + r - 1) \div r
  BY DEF NBlocks, DivCeil
<1> HIDE DEF n, r
<1>4. n + r - 1 \in Nat /\ n + r - 1 >= r
  BY <1>1, <1>2
<1>5. (n + r - 1) \div r \in Nat /\ (n + r - 1) \div r >= 1
  <2> DEFINE q == (n + r - 1) \div r
  <2>1. q \in Int /\ n + r - 1 < r * q + r
    BY <1>2, <1>4
  <2> HIDE DEF q
  <2>2. r * q > 0
    <3>1. r * q \in Int
      BY <1>2, <2>1
    <3> QED
      BY <1>2, <1>4, <2>1, <3>1
  <2>3. q > 0
    BY <1>2, <2>1, <2>2
  <2> QED
    BY <2>1, <2>3 DEF q
<1> QED
  BY <1>1, <1>3, <1>5 DEF n

\* Rows in use are those of the tokens to come, too.
LEMMA RowsExtend ==
  ASSUME NEW buf, NEW f, NEW n \in Nat, NEW toks, Len(toks) \in Nat, RowsOf(buf, n, f)
  PROVE  RowsOf(buf, n, Extend(f, n, toks))
<1>1. ASSUME NEW i \in Span(n) PROVE buf[i] = Prefix(Extend(f, n, toks), i + 1)
  <2>1. i + 1 \in 0 .. n
    BY DEF Span
  <2> QED
    BY <2>1, ExtendPrefix DEF RowsOf
<1> QED
  BY <1>1 DEF RowsOf

LEMMA NoRows ==
  /\ Span(0) = {}
  /\ Empty \in [Span(0) -> Token] /\ Empty \in [Span(0) -> Word] /\ DOMAIN Empty = Span(0)
  /\ \A buf, f : RowsOf(buf, 0, f)
<1>1. Span(0) = {}
  BY DEF Span
<1> QED
  BY <1>1 DEF Empty, Junk, RowsOf

-----------------------------------------------------------------------------
(* The inductive invariant, operation by operation.                        *)

LEMMA InitInvariant == Init => IInv
<1> SUFFICES ASSUME Init PROVE IInv
  OBVIOUS
<1>1. /\ model \in Models /\ cap = Bucket(1)
      /\ pos = [s \in Sequence |-> 0] /\ head = 0 /\ known = {}
      /\ slots = [s \in Sequence |-> FreshBuffer(Bucket(1))]
      /\ own = FreshBuffer(Bucket(1))
      /\ ring = [r \in 0 .. Capacity |-> [s \in Sequence |-> Garbage]]
      /\ op = Idle /\ torn = {}
      /\ fed = [s \in Sequence |-> Empty] /\ basis = [s \in Sequence |-> Empty]
  BY DEF Init
<1>2. Capacity \in Nat \ {0}
  BY <1>1 DEF Capacity
<1>3. cap \in 1 .. Capacity
  BY <1>1, <1>2, CacheBucketHolds DEF Bucket
<1>4. TypeOK
  <2>1. slots \in [Sequence -> Buffer(cap)] /\ own \in Buffer(cap)
    <3>1. FreshBuffer(cap) \in Buffer(cap)
      BY <1>3, FreshIsBuffer
    <3> QED
      BY <1>1, <3>1
  <2>2. ring \in [0 .. Capacity -> [Sequence -> Word]]
    BY <1>1 DEF Word
  <2>3. fed \in [Sequence -> TokensUpTo(Capacity)]
    BY <1>1, <1>2, NoRows DEF TokensUpTo
  <2>4. basis \in [Sequence -> UNION {[Span(k) -> Word] : k \in 0 .. Capacity + 1}]
    BY <1>1, <1>2, NoRows
  <2>5. pos \in [Sequence -> 0 .. cap] /\ head \in 0 .. Capacity
    BY <1>1, <1>2, <1>3
  <2>6. known \subseteq Ids /\ torn \subseteq Sequence /\ op \in {Idle}
    BY <1>1
  <2> QED
    BY <1>1, <1>3, <2>1, <2>2, <2>3, <2>4, <2>5, <2>6 DEF TypeOK
<1>5. CacheHolds
  BY <1>1, NoRows DEF CacheHolds
<1>6. KnownHolds /\ PendingPrefill /\ PendingStep /\ PendingRun
  BY <1>1 DEF KnownHolds, PendingPrefill, PendingStep, PendingRun, Idle
<1> QED
  BY <1>4, <1>5, <1>6 DEF IInv

\* A prompt is accepted: the first block reads the recipe's own buffer only
\* for a sequence that is empty.
LEMMA PrefillKeeps ==
  ASSUME IInv, NEW s \in Sequence, NEW toks \in Prompts, Prefill(s, toks)
  PROVE  IInv'
<1> USE DEF IInv
<1> DEFINE need == pos[s] + Len(toks)
<1>1. /\ op = Idle /\ (pos[s] = 0 \/ NBlocks(toks) % 2 = 0)
      /\ need <= Capacity /\ Ensure(need)
      /\ op' = [kind |-> "prefill", s |-> s, toks |-> toks, i |-> 0, launched |-> FALSE]
      /\ UNCHANGED <<model, pos, head, known, ring, torn, fed, basis>>
  BY DEF Prefill, seqVars
<1>2. /\ Rows \in Nat \ {0} /\ Capacity \in Nat \ {0} /\ cap \in Nat
      /\ pos \in [Sequence -> Nat] /\ \A o \in Sequence : pos[o] <= cap
  BY ModelIs
<1>3. NBlocks(toks) \in Nat /\ 0 < NBlocks(toks) /\ Len(toks) \in Nat /\ need \in Nat
  BY <1>2, SomeBlock
<1>4. /\ cap' \in 1 .. Capacity /\ cap <= cap' /\ need <= cap'
      /\ slots' \in [Sequence -> Buffer(cap')] /\ own' \in Buffer(cap')
  BY <1>1, <1>3, EnsureKeeps
<1>5. \A o \in Sequence : \A f : RowsOf(slots[o], pos[o], f) => RowsOf(slots'[o], pos[o], f)
  BY <1>1, <1>3, EnsureRows
<1>6. /\ op'.kind = "prefill" /\ op'.s = s /\ op'.toks = toks /\ op'.i = 0
      /\ op'.launched = FALSE
  BY <1>1
<1> HIDE DEF need
<1>7. TypeOK'
  <2>1. pos' \in [Sequence -> 0 .. cap']
    BY <1>1, <1>2, <1>4
  <2>2. op' \in [kind : {"prefill"}, s : Sequence, toks : Prompts, i : Nat, launched : BOOLEAN]
    BY <1>1
  <2>3. Capacity' = Capacity
    BY <1>1 DEF Capacity
  <2> QED
    BY <1>1, <1>4, <2>1, <2>2, <2>3 DEF TypeOK
<1>8. CacheHolds'
  <2>1. \A o \in Sequence \ torn : DOMAIN fed[o] = Span(pos[o]) /\ RowsOf(slots[o], pos[o], fed[o])
    BY <1>1 DEF CacheHolds, Idle
  <2> QED
    BY <1>1, <1>5, <2>1 DEF CacheHolds
<1>9. KnownHolds'
  BY <1>1, <1>6 DEF KnownHolds, Idle
<1>10. PendingPrefill'
  <2>1. (op.i < NBlocks(op.toks))'
    BY <1>1, <1>3, <1>6 DEF NBlocks, Rows
  <2>2. Base' = pos[s]
    BY <1>1, <1>2, <1>6 DEF Base, Rows
  <2>3. Base' + Len(toks) <= cap'
    BY <1>4, <2>2 DEF need
  <2>4. ASSUME s \notin torn
        PROVE  /\ DOMAIN fed[s] = Span(pos[s])
               /\ RowsOf(Source', pos[s], Extend(fed[s], pos[s], toks))
    <3>1. DOMAIN fed[s] = Span(pos[s]) /\ RowsOf(slots[s], pos[s], fed[s])
      BY <1>1, <2>4 DEF CacheHolds, Idle
    <3>2. Source' = IF ToSlot(toks, 0) THEN own' ELSE slots'[s]
      BY <1>1, <1>6 DEF Source, ToSlot, NBlocks, Rows
    <3>3. CASE ToSlot(toks, 0)
      <4>1. pos[s] = 0
        BY <1>1, <1>3, <3>3 DEF ToSlot
      <4> QED
        BY <3>1, <4>1, NoRows
    <3>4. CASE ~ToSlot(toks, 0)
      <4>1. RowsOf(slots'[s], pos[s], fed[s])
        BY <1>5, <3>1
      <4>2. RowsOf(slots'[s], pos[s], Extend(fed[s], pos[s], toks))
        BY <1>2, <1>3, <4>1, RowsExtend
      <4> QED
        BY <3>1, <3>2, <3>4, <4>2
    <3> QED
      BY <3>3, <3>4
  <2>5. 0 <= pos[s]
    BY <1>2
  <2> QED
    BY <1>1, <1>6, <2>1, <2>2, <2>3, <2>4, <2>5 DEF PendingPrefill
<1>11. PendingStep' /\ PendingRun'
  BY <1>6 DEF PendingStep, PendingRun
<1> QED
  BY <1>7, <1>8, <1>9, <1>10, <1>11

\* A call under way that is no prefill, or none.
LEMMA OthersPending ==
  ASSUME op'.kind # "prefill"
  PROVE  PendingPrefill'
BY DEF PendingPrefill

\* The launch of a block: its rows follow, in the other buffer, those of the
\* blocks before it.
LEMMA PrefillLaunchKeeps ==
  ASSUME IInv, PrefillLaunch
  PROVE  IInv'
<1> USE DEF IInv
<1> DEFINE s == op.s
           toks == op.toks
           i == op.i
           chunk == Chunk(toks, i)
           out == Scatter(Source, pos[s], chunk, cap, cap + 1)
           all == Extend(fed[s], Base, toks)
<1>1. op \in [kind : {"prefill"}, s : Sequence, toks : Prompts, i : Nat, launched : BOOLEAN]
      /\ op.kind = "prefill" /\ ~op.launched
  BY DEF PrefillLaunch, TypeOK, Idle
<1>2. /\ op' = [op EXCEPT !.launched = TRUE]
      /\ slots' = IF ToSlot(toks, i) THEN [slots EXCEPT ![s] = out] ELSE slots
      /\ own' = IF ToSlot(toks, i) THEN own ELSE out
      /\ UNCHANGED <<model, pos, cap, head, known, ring, torn, fed, basis>>
  BY DEF PrefillLaunch, hostVars, seqVars, Source
<1>3. s \in Sequence /\ toks \in Prompts /\ i \in Nat
  BY <1>1
<1>4. /\ op' \in [kind : {"prefill"}, s : Sequence, toks : Prompts, i : Nat, launched : BOOLEAN]
      /\ op'.kind = "prefill" /\ op'.s = s /\ op'.toks = toks /\ op'.i = i
      /\ op'.launched = TRUE
  BY <1>1, <1>2
<1>5. /\ Rows \in Nat \ {0} /\ Capacity \in Nat \ {0} /\ cap \in Nat
      /\ pos \in [Sequence -> Nat] /\ pos[s] \in Nat
  BY <1>3, ModelIs
<1>6. /\ i < NBlocks(toks) /\ 0 <= Base /\ Base + Len(toks) <= cap
      /\ s \notin torn => DOMAIN fed[s] = Span(Base) /\ RowsOf(Source, pos[s], all)
  BY <1>1 DEF PendingPrefill
<1>7. /\ i * Rows \in Nat /\ Len(toks) \in Nat
      /\ Len(chunk) \in Nat \ {0}
      /\ i * Rows + Len(chunk) <= Len(toks)
      /\ \A j \in 1 .. Len(chunk) : chunk[j] = toks[i * Rows + j] /\ chunk[j] \in Token
  BY <1>3, <1>6, ChunkIs
<1>8. Base \in Nat /\ pos[s] = Base + i * Rows /\ pos[s] + Len(chunk) <= cap
  <2> HIDE DEF chunk, toks, i, s
  <2>1. Base = pos[s] - i * Rows
    BY DEF Base, s, i
  <2> QED
    BY <1>5, <1>6, <1>7, <2>1
<1>9. Source \in Buffer(cap)
  BY <1>3 DEF Source, TypeOK
<1>10. out \in Buffer(cap)
  <2>1. Len(chunk) \in Nat /\ cap + 1 \in Int /\ \A j \in 1 .. Len(chunk) : chunk[j] \in Word
    BY <1>5, <1>7 DEF Word
  <2> HIDE DEF chunk
  <2> QED
    BY <1>5, <1>8, <1>9, <2>1, ScatterType
<1> HIDE DEF s, toks, i
<1>11. TypeOK'
  <2>1. slots' \in [Sequence -> Buffer(cap)] /\ own' \in Buffer(cap)
    <3>1. slots \in [Sequence -> Buffer(cap)] /\ own \in Buffer(cap)
      BY DEF TypeOK
    <3> HIDE DEF out
    <3> QED
      BY <1>2, <1>3, <1>10, <3>1
  <2>2. Capacity' = Capacity
    BY <1>2 DEF Capacity
  <2> QED
    BY <1>2, <1>4, <2>1, <2>2 DEF TypeOK
<1>12. CacheHolds'
  <2>1. ASSUME NEW o \in Sequence \ torn, o # s
        PROVE  DOMAIN fed[o] = Span(pos[o]) /\ RowsOf(slots'[o], pos[o], fed[o])
    <3>1. DOMAIN fed[o] = Span(pos[o]) /\ RowsOf(slots[o], pos[o], fed[o])
      BY <2>1 DEF CacheHolds, s
    <3>2. slots'[o] = slots[o]
      BY <1>2, <2>1 DEF TypeOK
    <3> QED
      BY <3>1, <3>2
  <2> QED
    BY <1>2, <1>4, <2>1 DEF CacheHolds
<1>13. KnownHolds'
  BY <1>1, <1>2, <1>4 DEF KnownHolds
<1>14. PendingPrefill'
  <2>1. (op.i < NBlocks(op.toks))'
    BY <1>2, <1>4, <1>6 DEF NBlocks, Rows
  <2>2. Base' = Base
    BY <1>2, <1>4 DEF Base, Rows, s, i
  <2>3. Target' = out
    <3>1. Target' = IF ToSlot(toks, i) THEN slots'[s] ELSE own'
      BY <1>2, <1>4 DEF Target, ToSlot, NBlocks, Rows
    <3>2. slots \in [Sequence -> Buffer(cap)]
      BY DEF TypeOK
    <3> HIDE DEF out
    <3> QED
      BY <1>2, <1>3, <3>1, <3>2
  <2>4. Len(Chunk(op.toks, op.i))' = Len(chunk)
    BY <1>2, <1>4 DEF Chunk, Rows
  <2>5. ASSUME s \notin torn
        PROVE  RowsOf(out, pos[s] + Len(chunk), all)
    <3>1. RowsOf(Source, pos[s], all)
      BY <1>6, <2>5
    <3>2. RowsOf(out, pos[s] + Len(chunk), Extend(all, pos[s], chunk))
      <4>1. Len(chunk) \in Nat /\ cap + 1 \in Int /\ pos[s] + Len(chunk) <= cap + 1
        BY <1>5, <1>7, <1>8
      <4> HIDE DEF chunk, all
      <4> QED
        BY <1>5, <1>8, <3>1, <4>1, ScatterRows
    <3>3. \A k \in Span(pos[s] + Len(chunk)) : Extend(all, pos[s], chunk)[k] = all[k]
      <4> HIDE DEF chunk
      <4>1. ASSUME NEW k \in Span(pos[s] + Len(chunk))
            PROVE  Extend(all, pos[s], chunk)[k] = all[k]
        <5>1. Extend(all, pos[s], chunk)[k]
                = IF k < pos[s] THEN all[k] ELSE chunk[k - pos[s] + 1]
          BY DEF Extend
        <5>2. CASE k < pos[s]
          BY <5>1, <5>2
        <5>3. CASE ~(k < pos[s])
          <6>1. /\ k \in Span(Base + Len(toks)) /\ ~(k < Base)
                /\ k - pos[s] + 1 \in 1 .. Len(chunk)
                /\ k - Base + 1 = i * Rows + (k - pos[s] + 1)
            <7>1. k \in Int /\ 0 <= k /\ k < pos[s] + Len(chunk)
              BY <1>5, <1>7 DEF Span
            <7> DEFINE w == i * Rows
                       p == pos[s]
                       c == Len(chunk)
            <7>2. /\ w \in Nat /\ p = Base + w /\ w + c <= Len(toks) /\ k < p + c
                  /\ ~(k < p) /\ c \in Nat /\ p \in Nat
              BY <1>5, <1>7, <1>8, <5>3, <7>1
            <7> HIDE DEF w, p, c
            <7>3. /\ 0 <= k /\ k < Base + Len(toks) /\ ~(k < Base)
                  /\ k - p + 1 \in 1 .. c /\ k - Base + 1 = w + (k - p + 1)
              BY <1>7, <1>8, <7>1, <7>2
            <7>4. k \in Span(Base + Len(toks))
              BY <1>7, <1>8, <7>1, <7>3 DEF Span
            <7> QED
              BY <7>3, <7>4 DEF w, p, c
          <6>2. all[k] = toks[k - Base + 1]
            BY <6>1 DEF Extend
          <6> QED
            BY <1>7, <5>1, <5>3, <6>1, <6>2
        <5> QED
          BY <5>2, <5>3
      <4> QED
        BY <4>1
    <3> HIDE DEF all, chunk
    <3>4. \A k \in Span(pos[s] + Len(chunk)) :
            Prefix(Extend(all, pos[s], chunk), k + 1) = Prefix(all, k + 1)
      <4>1. \A k \in Span(pos[s] + Len(chunk)) : Span(k + 1) \subseteq Span(pos[s] + Len(chunk))
        BY <1>5, <1>7 DEF Span
      <4> QED
        BY <3>3, <4>1 DEF Prefix
    <3> QED
      BY <3>2, <3>4 DEF RowsOf
  <2>6. (pos[op.s] = pos[s] /\ fed[op.s] = fed[s] /\ op.toks = toks)'
        /\ fed'[op'.s] = fed[s] /\ pos'[op'.s] = pos[s] /\ torn' = torn /\ cap' = cap
    BY <1>2, <1>4 DEF s, toks
  <2> HIDE DEF out, chunk
  <2> QED
    BY <1>4, <1>6, <2>1, <2>2, <2>3, <2>4, <2>5, <2>6 DEF PendingPrefill, all
<1>15. PendingStep' /\ PendingRun'
  BY <1>4 DEF PendingStep, PendingRun
<1> QED
  BY <1>11, <1>12, <1>13, <1>14, <1>15

\* The facts about a prefill under way that its reads rest on.
LEMMA PrefillIs ==
  ASSUME IInv, op.kind = "prefill"
  PROVE  /\ op \in [kind : {"prefill"}, s : Sequence, toks : Prompts, i : Nat, launched : BOOLEAN]
         /\ op.s \in Sequence /\ op.toks \in Prompts /\ op.i \in Nat
         /\ op.i < NBlocks(op.toks) /\ NBlocks(op.toks) \in Nat
         /\ Base \in Nat /\ Len(op.toks) \in Nat \ {0} /\ Base + Len(op.toks) <= cap
         /\ cap \in Nat /\ cap <= Capacity /\ Capacity \in Nat
         /\ pos \in [Sequence -> Nat] /\ pos[op.s] = Base + op.i * Rows
         /\ op.i * Rows \in Nat
         /\ Len(Chunk(op.toks, op.i)) \in Nat \ {0}
         /\ op.i * Rows + Len(Chunk(op.toks, op.i)) <= Len(op.toks)
         /\ op.i + 1 < NBlocks(op.toks)
              => (op.i + 1) * Rows = op.i * Rows + Len(Chunk(op.toks, op.i))
         /\ ~(op.i + 1 < NBlocks(op.toks))
              => op.i * Rows + Len(Chunk(op.toks, op.i)) = Len(op.toks)
<1> USE DEF IInv
<1>1. op \in [kind : {"prefill"}, s : Sequence, toks : Prompts, i : Nat, launched : BOOLEAN]
  BY DEF TypeOK, Idle
<1>2. op.s \in Sequence /\ op.toks \in Prompts /\ op.i \in Nat
  BY <1>1
<1>3. /\ Rows \in Nat \ {0} /\ Capacity \in Nat \ {0} /\ cap \in Nat /\ cap <= Capacity
      /\ pos \in [Sequence -> Nat]
  BY ModelIs
<1>4. op.i < NBlocks(op.toks) /\ 0 <= Base /\ Base + Len(op.toks) <= cap
  BY DEF PendingPrefill
<1>5. NBlocks(op.toks) \in Nat /\ Len(op.toks) \in Nat \ {0}
  BY <1>2, SomeBlock
<1>6. /\ op.i * Rows \in Nat
      /\ Len(Chunk(op.toks, op.i)) \in Nat \ {0}
      /\ op.i * Rows + Len(Chunk(op.toks, op.i)) <= Len(op.toks)
      /\ op.i + 1 < NBlocks(op.toks)
           => (op.i + 1) * Rows = op.i * Rows + Len(Chunk(op.toks, op.i))
      /\ ~(op.i + 1 < NBlocks(op.toks))
           => op.i * Rows + Len(Chunk(op.toks, op.i)) = Len(op.toks)
  BY <1>2, <1>4, ChunkIs
<1>7. Base \in Nat /\ pos[op.s] = Base + op.i * Rows
  <2>1. Base = pos[op.s] - op.i * Rows /\ pos[op.s] \in Nat
    BY <1>2, <1>3 DEF Base
  <2> QED
    BY <1>4, <1>6, <2>1
<1> QED
  BY <1>1, <1>2, <1>3, <1>4, <1>5, <1>6, <1>7

\* A block has been read that is not the last.
LEMMA BlockReadKeeps ==
  ASSUME IInv, PrefillRead, op.i + 1 < NBlocks(op.toks)
  PROVE  IInv' /\ UNCHANGED <<fed, basis>>
<1> USE DEF IInv
<1> DEFINE s == op.s
           toks == op.toks
           i == op.i
           c == Len(Chunk(toks, i))
           all == Extend(fed[s], Base, toks)
<1>1. /\ op.kind = "prefill" /\ op.launched
      /\ pos' = [pos EXCEPT ![s] = @ + c]
      /\ op' = [op EXCEPT !.i = i + 1, !.launched = FALSE]
      /\ UNCHANGED <<model, cap, head, known, slots, own, ring, torn, fed, basis>>
  BY DEF PrefillRead, seqVars
<1>2. /\ s \in Sequence /\ toks \in Prompts /\ i \in Nat
      /\ op \in [kind : {"prefill"}, s : Sequence, toks : Prompts, i : Nat, launched : BOOLEAN]
      /\ i < NBlocks(toks) /\ NBlocks(toks) \in Nat
  BY <1>1, PrefillIs
<1>3. /\ Base \in Nat /\ Len(toks) \in Nat \ {0} /\ Base + Len(toks) <= cap
      /\ cap \in Nat /\ pos \in [Sequence -> Nat] /\ pos[s] = Base + i * Rows
      /\ i * Rows \in Nat /\ c \in Nat /\ i * Rows + c <= Len(toks)
      /\ (i + 1) * Rows = i * Rows + c
  BY <1>1, PrefillIs
<1>4. /\ op'.kind = "prefill" /\ op'.s = s /\ op'.toks = toks /\ op'.i = i + 1
      /\ op'.launched = FALSE
      /\ op' \in [kind : {"prefill"}, s : Sequence, toks : Prompts, i : Nat, launched : BOOLEAN]
  <2>1. i + 1 \in Nat
    BY <1>2
  <2> HIDE DEF c
  <2>2. op' = [kind |-> "prefill", s |-> s, toks |-> toks, i |-> i + 1, launched |-> FALSE]
    BY <1>1, <1>2
  <2> QED
    BY <1>2, <2>1, <2>2
<1> HIDE DEF s, toks, i, c
<1>5. pos'[s] = pos[s] + c /\ pos' \in [Sequence -> 0 .. cap]
  <2>1. pos[s] + c \in 0 .. cap /\ \A o \in Sequence : pos[o] \in 0 .. cap
    <3>1. pos[s] + c <= cap /\ pos[s] + c \in Nat
      BY <1>3
    <3> QED
      BY <1>3, <3>1 DEF TypeOK
  <2> QED
    BY <1>1, <1>2, <1>3, <2>1
<1>6. TypeOK'
  BY <1>1, <1>4, <1>5 DEF TypeOK, Capacity
<1>7. CacheHolds'
  <2>1. ASSUME NEW o \in Sequence \ torn, o # s
        PROVE  DOMAIN fed[o] = Span(pos'[o]) /\ RowsOf(slots[o], pos'[o], fed[o])
    <3>1. DOMAIN fed[o] = Span(pos[o]) /\ RowsOf(slots[o], pos[o], fed[o])
      BY <2>1 DEF CacheHolds, s
    <3>2. pos'[o] = pos[o]
      BY <1>1, <1>3, <2>1
    <3> QED
      BY <3>1, <3>2
  <2> QED
    BY <1>1, <1>4, <2>1 DEF CacheHolds
<1>8. KnownHolds'
  BY <1>1, <1>4 DEF KnownHolds
<1>9. PendingPrefill'
  <2>1. (op.i < NBlocks(op.toks))'
    BY <1>1, <1>4 DEF NBlocks, Rows, toks, i
  <2>2. Base' = Base
    <3>1. Base' = pos'[s] - (i + 1) * Rows
      BY <1>1, <1>4 DEF Base, Rows
    <3> QED
      BY <1>3, <1>5, <3>1
  <2>3. Source' = Target
    <3>1. Source' = IF ToSlot(toks, i + 1) THEN own ELSE slots[s]
      BY <1>1, <1>4 DEF Source, ToSlot, NBlocks, Rows
    <3>2. Target = IF ToSlot(toks, i) THEN slots[s] ELSE own
      BY DEF Target, s, toks, i
    <3>3. ToSlot(toks, i + 1) <=> ~ToSlot(toks, i)
      <4> DEFINE k == NBlocks(toks) - 1 - i
      <4>1. k \in Nat /\ NBlocks(toks) - 1 - (i + 1) = k - 1
        BY <1>2
      <4>2. ((k - 1) % 2 = 0) <=> ~(k % 2 = 0)
        <5> HIDE DEF k
        <5> QED
          BY <4>1
      <4> QED
        BY <4>1, <4>2 DEF ToSlot
    <3> QED
      BY <3>1, <3>2, <3>3
  <2>4. s \notin torn => DOMAIN fed[s] = Span(Base) /\ RowsOf(Target, pos[s] + c, all)
    BY <1>1 DEF PendingPrefill, s, toks, i, c
  <2>5. /\ fed'[op'.s] = fed[s] /\ pos'[op'.s] = pos[s] + c /\ torn' = torn /\ cap' = cap
    BY <1>1, <1>4, <1>5
  <2> QED
    BY <1>3, <1>4, <2>1, <2>2, <2>3, <2>4, <2>5 DEF PendingPrefill
<1>10. PendingStep' /\ PendingRun'
  BY <1>4 DEF PendingStep, PendingRun
<1> QED
  BY <1>1, <1>6, <1>7, <1>8, <1>9, <1>10

\* The last block has been read: it is in the slot, and the answer is computed
\* from all the tokens.
LEMMA LastReadKeeps ==
  ASSUME IInv, PrefillRead, ~(op.i + 1 < NBlocks(op.toks))
  PROVE  /\ IInv'
         /\ op.s \in torn => UNCHANGED <<fed, basis>>
         /\ op.s \notin torn =>
              /\ fed' = [fed EXCEPT ![op.s] = Extend(@, Base, op.toks)]
              /\ basis' = [basis EXCEPT ![op.s] = fed'[op.s]]
<1> USE DEF IInv
<1> DEFINE s == op.s
           toks == op.toks
           i == op.i
           c == Len(Chunk(toks, i))
           all == Extend(fed[s], Base, toks)
<1>1. /\ op.kind = "prefill" /\ op.launched
      /\ pos' = [pos EXCEPT ![s] = @ + c]
      /\ op' = Idle
      /\ UNCHANGED <<model, cap, head, known, slots, own, ring, torn>>
      /\ s \in torn => UNCHANGED <<fed, basis>>
      /\ s \notin torn =>
           /\ fed' = [fed EXCEPT ![s] = Extend(@, pos'[s] - Len(toks), toks)]
           /\ basis' = [basis EXCEPT ![s] = slots[s][pos'[s] - 1]]
  BY DEF PrefillRead
<1>2. /\ s \in Sequence /\ toks \in Prompts /\ i \in Nat
      /\ i < NBlocks(toks) /\ NBlocks(toks) \in Nat
  BY <1>1, PrefillIs
<1>3. /\ Base \in Nat /\ Len(toks) \in Nat \ {0} /\ Base + Len(toks) <= cap
      /\ cap \in Nat /\ cap <= Capacity /\ Capacity \in Nat
      /\ pos \in [Sequence -> Nat] /\ pos[s] = Base + i * Rows
      /\ i * Rows \in Nat /\ c \in Nat /\ i * Rows + c = Len(toks)
  BY <1>1, PrefillIs
<1>4. s \notin torn => DOMAIN fed[s] = Span(Base) /\ RowsOf(Target, pos[s] + c, all)
  BY <1>1 DEF PendingPrefill
<1>5. Target = slots[s]
  <2>1. NBlocks(toks) - 1 - i = 0
    BY <1>2
  <2>2. ToSlot(toks, i)
    BY <2>1 DEF ToSlot
  <2> QED
    BY <2>2 DEF Target
<1>6. op'.kind = "idle"
  BY <1>1 DEF Idle
<1>7. \A j \in 1 .. Len(toks) : toks[j] \in Token
  BY <1>2, ElementOfSeq
<1> HIDE DEF s, toks, i, c
<1>8. pos[s] + c = Base + Len(toks) /\ pos'[s] = Base + Len(toks) /\ pos'[s] - Len(toks) = Base
  <2>1. pos'[s] = pos[s] + c
    BY <1>1, <1>2, <1>3
  <2>2. pos[s] + c = Base + Len(toks)
    <3> DEFINE before == i * Rows
    <3>1. /\ pos[s] = Base + before /\ before + c = Len(toks)
          /\ Base \in Nat /\ before \in Nat /\ c \in Nat
      BY <1>3
    <3> HIDE DEF before
    <3> QED
      BY <3>1
  <2> QED
    BY <1>3, <2>1, <2>2
<1>9. pos' \in [Sequence -> 0 .. cap]
  <2>1. pos[s] + c \in 0 .. cap /\ \A o \in Sequence : pos[o] \in 0 .. cap
    BY <1>3, <1>8 DEF TypeOK
  <2> QED
    BY <1>1, <1>2, <1>3, <2>1
<1>10. fed \in [Sequence -> TokensUpTo(Capacity)]
       /\ basis \in [Sequence -> UNION {[Span(k) -> Word] : k \in 0 .. Capacity + 1}]
       /\ slots \in [Sequence -> Buffer(cap)]
  BY DEF TypeOK
<1>11. ASSUME s \notin torn
       PROVE  /\ fed' = [fed EXCEPT ![s] = all]
              /\ fed'[s] = all /\ basis' = [basis EXCEPT ![s] = all]
              /\ all \in [Span(Base + Len(toks)) -> Token]
              /\ all \in TokensUpTo(Capacity)
              /\ RowsOf(slots[s], Base + Len(toks), all)
  <2>1. all \in [Span(Base + Len(toks)) -> Token] /\ all \in TokensUpTo(Capacity)
    <3>1. Base + Len(toks) <= Capacity
      BY <1>3
    <3> QED
      BY <1>2, <1>3, <1>4, <1>7, <1>11, <3>1, FedGrows
  <2>2. RowsOf(slots[s], Base + Len(toks), all)
    BY <1>4, <1>5, <1>8, <1>11
  <2>3. slots[s][pos'[s] - 1] = all
    <3>1. Base + Len(toks) - 1 \in Span(Base + Len(toks))
          /\ Base + Len(toks) - 1 + 1 = Base + Len(toks)
      BY <1>3 DEF Span
    <3>2. slots[s][Base + Len(toks) - 1] = Prefix(all, Base + Len(toks))
      BY <2>2, <3>1 DEF RowsOf
    <3>3. Prefix(all, Base + Len(toks)) = all
      <4> HIDE DEF all
      <4> QED
        BY <2>1 DEF Prefix
    <3>4. pos'[s] - 1 = Base + Len(toks) - 1
      BY <1>3, <1>8
    <3> HIDE DEF all
    <3> QED
      BY <3>2, <3>3, <3>4
  <2> QED
    BY <1>1, <1>2, <1>8, <1>10, <1>11, <2>1, <2>2, <2>3
<1> HIDE DEF all
<1>12. TypeOK'
  <2>1. fed' \in [Sequence -> TokensUpTo(Capacity)]
    BY <1>1, <1>2, <1>10, <1>11
  <2>2. basis' \in [Sequence -> UNION {[Span(k) -> Word] : k \in 0 .. Capacity + 1}]
    <3>1. CASE s \notin torn
      <4>1. all \in [Span(Base + Len(toks)) -> Word] /\ Base + Len(toks) \in 0 .. Capacity + 1
        BY <1>3, <1>11, <3>1 DEF Word
      <4>2. all \in UNION {[Span(k) -> Word] : k \in 0 .. Capacity + 1}
        BY <4>1
      <4> QED
        BY <1>2, <1>10, <1>11, <3>1, <4>2
    <3> QED
      BY <1>1, <1>10, <3>1
  <2>3. Capacity' = Capacity
    BY <1>1 DEF Capacity
  <2> QED
    BY <1>1, <1>9, <2>1, <2>2, <2>3 DEF TypeOK
<1>13. CacheHolds'
  <2>1. ASSUME NEW o \in Sequence \ torn, o # s
        PROVE  DOMAIN fed'[o] = Span(pos'[o]) /\ RowsOf(slots[o], pos'[o], fed'[o])
    <3>1. DOMAIN fed[o] = Span(pos[o]) /\ RowsOf(slots[o], pos[o], fed[o])
      BY <2>1 DEF CacheHolds, s
    <3>2. pos'[o] = pos[o] /\ fed'[o] = fed[o]
      BY <1>1, <1>3, <1>10, <1>11, <2>1
    <3> QED
      BY <3>1, <3>2
  <2>2. ASSUME s \notin torn
        PROVE  DOMAIN fed'[s] = Span(pos'[s]) /\ RowsOf(slots[s], pos'[s], fed'[s])
    BY <1>8, <1>11, <2>2
  <2> QED
    BY <1>1, <2>1, <2>2 DEF CacheHolds
<1>14. KnownHolds'
  BY <1>1 DEF KnownHolds
<1>15. PendingPrefill' /\ PendingStep' /\ PendingRun'
  BY <1>6 DEF PendingPrefill, PendingStep, PendingRun
<1> QED
  BY <1>1, <1>11, <1>12, <1>13, <1>14, <1>15 DEF s, toks, all

-----------------------------------------------------------------------------
\* A step is accepted: the longest sequence has room for its token.
LEMMA StepKeeps ==
  ASSUME IInv, NEW ids \in Ids, Step(ids)
  PROVE  IInv'
<1> USE DEF IInv
<1> DEFINE need == Furthest + 1
<1>1. /\ op = Idle /\ Fits(1) /\ Ensure(need)
      /\ op' = [kind |-> "step", ids |-> ids, launched |-> FALSE]
      /\ UNCHANGED <<model, pos, head, known, ring, torn, fed, basis>>
  BY DEF Step, seqVars
<1>2. /\ Capacity \in Nat \ {0} /\ cap \in Nat
      /\ pos \in [Sequence -> Nat] /\ \A o \in Sequence : pos[o] <= cap
  BY ModelIs
<1>3. need \in Nat /\ need <= Capacity /\ \A o \in Sequence : pos[o] + 1 <= need
  <2>1. /\ Furthest \in Nat /\ \E s \in Sequence : pos[s] = Furthest
        /\ \A s \in Sequence : pos[s] <= Furthest
    BY FurthestIs
  <2>2. Furthest + 1 <= Capacity
    BY <1>1, <2>1 DEF Fits
  <2> QED
    BY <1>2, <2>1, <2>2
<1> HIDE DEF need
<1>4. /\ cap' \in 1 .. Capacity /\ cap <= cap' /\ need <= cap'
      /\ slots' \in [Sequence -> Buffer(cap')] /\ own' \in Buffer(cap')
  BY <1>1, <1>3, EnsureKeeps
<1>5. \A o \in Sequence : \A f : RowsOf(slots[o], pos[o], f) => RowsOf(slots'[o], pos[o], f)
  BY <1>1, <1>3, EnsureRows
<1>6. op'.kind = "step" /\ op'.ids = ids /\ op'.launched = FALSE
  BY <1>1
<1>7. TypeOK'
  <2>1. pos' \in [Sequence -> 0 .. cap']
    BY <1>1, <1>2, <1>4
  <2>2. op' \in [kind : {"step"}, ids : Ids, launched : BOOLEAN]
    BY <1>1
  <2>3. Capacity' = Capacity
    BY <1>1 DEF Capacity
  <2> QED
    BY <1>1, <1>4, <2>1, <2>2, <2>3 DEF TypeOK
<1>8. CacheHolds'
  <2>1. \A o \in Sequence \ torn : DOMAIN fed[o] = Span(pos[o]) /\ RowsOf(slots[o], pos[o], fed[o])
    BY <1>1 DEF CacheHolds, Idle
  <2> QED
    BY <1>1, <1>5, <2>1 DEF CacheHolds
<1>9. KnownHolds'
  BY <1>1, <1>6 DEF KnownHolds, Idle
<1>10. PendingStep'
  BY <1>1, <1>2, <1>3, <1>4, <1>6 DEF PendingStep
<1>11. PendingPrefill' /\ PendingRun'
  BY <1>6 DEF PendingPrefill, PendingRun
<1> QED
  BY <1>7, <1>8, <1>9, <1>10, <1>11

\* A launch of the decode recipe writes every sequence's row at its position
\* and leaves those below.
LEMMA LaunchedIs ==
  ASSUME TypeOK, NEW at, NEW ids, NEW s \in Sequence,
         at[s] \in Nat, at[s] + 1 <= cap, ids[s] \in Word
  PROVE  /\ Launched(at, ids)[s] \in Buffer(cap)
         /\ \A n \in Nat : \A f : n <= at[s] /\ RowsOf(slots[s], n, f)
                                => RowsOf(Launched(at, ids)[s], n, f)
         /\ \A f : RowsOf(slots[s], at[s], f)
                     => RowsOf(Launched(at, ids)[s], at[s] + 1, Extend(f, at[s], <<ids[s]>>))
<1> DEFINE p == at[s]
           one == <<ids[s]>>
           out == Scatter(slots[s], p, one, cap, cap + 1)
<1>1. Launched(at, ids)[s] = out
  BY DEF Launched
<1>2. Len(one) = 1 /\ one[1] = ids[s]
  OBVIOUS
<1>3. cap \in Nat /\ slots[s] \in Buffer(cap)
  BY ModelIs DEF TypeOK
<1>4. /\ p \in Nat /\ p + Len(one) = p + 1 /\ p + Len(one) <= cap /\ p + Len(one) <= cap + 1
      /\ Len(one) \in Nat /\ cap + 1 \in Int /\ \A j \in 1 .. Len(one) : one[j] \in Word
  BY <1>2, <1>3
<1> HIDE DEF p, one
<1>5. out \in Buffer(cap)
  BY <1>3, <1>4, ScatterType
<1>6. ASSUME NEW n \in Nat, NEW f, n <= p, RowsOf(slots[s], n, f)
      PROVE  RowsOf(out, n, f)
  <2>1. ASSUME NEW i \in Span(n) PROVE out[i] = slots[s][i]
    <3>1. i \in 0 .. cap /\ ~(i >= p)
      BY <1>3, <1>4, <1>6 DEF Span
    <3> QED
      BY <3>1 DEF Scatter
  <2> QED
    BY <1>6, <2>1 DEF RowsOf
<1>7. ASSUME NEW f, RowsOf(slots[s], p, f)
      PROVE  RowsOf(out, p + 1, Extend(f, p, one))
  BY <1>3, <1>4, <1>7, ScatterRows
<1> HIDE DEF out
<1> QED
  BY <1>1, <1>5, <1>6, <1>7 DEF p, one

LEMMA StepLaunchKeeps ==
  ASSUME IInv, StepLaunch
  PROVE  IInv'
<1> USE DEF IInv
<1>1. /\ op.kind = "step" /\ ~op.launched
      /\ slots' = Launched(pos, op.ids)
      /\ op' = [op EXCEPT !.launched = TRUE]
      /\ UNCHANGED <<model, pos, cap, head, known, own, ring, torn, fed, basis>>
  BY DEF StepLaunch, hostVars, seqVars
<1>2. op \in [kind : {"step"}, ids : Ids, launched : BOOLEAN]
  BY <1>1 DEF TypeOK, Idle
<1>3. op.ids \in Ids /\ \A s \in Sequence : op.ids[s] \in Word
  BY <1>2 DEF Word
<1>4. /\ op'.kind = "step" /\ op'.ids = op.ids /\ op'.launched = TRUE
      /\ op' \in [kind : {"step"}, ids : Ids, launched : BOOLEAN]
  BY <1>1, <1>2
<1>5. \A s \in Sequence : pos[s] \in Nat /\ pos[s] + 1 <= cap
  BY <1>1, ModelIs DEF PendingStep
<1>6. \A s \in Sequence :
        /\ slots'[s] \in Buffer(cap)
        /\ \A f : RowsOf(slots[s], pos[s], f) => RowsOf(slots'[s], pos[s], f)
        /\ \A f : RowsOf(slots[s], pos[s], f)
                    => RowsOf(slots'[s], pos[s] + 1, Extend(f, pos[s], <<op.ids[s]>>))
  <2>1. ASSUME NEW s \in Sequence
        PROVE  /\ slots'[s] \in Buffer(cap)
               /\ \A n \in Nat : \A f : n <= pos[s] /\ RowsOf(slots[s], n, f)
                                     => RowsOf(slots'[s], n, f)
               /\ \A f : RowsOf(slots[s], pos[s], f)
                     => RowsOf(slots'[s], pos[s] + 1, Extend(f, pos[s], <<op.ids[s]>>))
    BY <1>1, <1>3, <1>5, LaunchedIs
  <2>2. \A s \in Sequence : pos[s] <= pos[s]
    BY <1>5
  <2> QED
    BY <1>5, <2>1, <2>2
<1>7. TypeOK'
  <2>1. slots' \in [Sequence -> Buffer(cap)]
    <3>1. slots' = [s \in Sequence |-> Scatter(slots[s], pos[s], <<op.ids[s]>>, cap, cap + 1)]
      BY <1>1 DEF Launched
    <3> QED
      BY <1>6, <3>1
  <2>2. Capacity' = Capacity
    BY <1>1 DEF Capacity
  <2> QED
    BY <1>1, <1>4, <2>1, <2>2 DEF TypeOK
<1>8. CacheHolds'
  <2>1. \A s \in Sequence \ torn : DOMAIN fed[s] = Span(pos[s]) /\ RowsOf(slots[s], pos[s], fed[s])
    BY <1>1 DEF CacheHolds
  <2> QED
    BY <1>1, <1>6, <2>1 DEF CacheHolds
<1>9. KnownHolds'
  BY <1>1, <1>4 DEF KnownHolds
<1>10. PendingStep'
  <2>1. \A s \in Sequence \ torn : RowsOf(slots[s], pos[s], fed[s])
    BY <1>1 DEF CacheHolds
  <2>2. \A s \in Sequence \ torn :
          RowsOf(slots'[s], pos[s] + 1, Extend(fed[s], pos[s], <<op.ids[s]>>))
    BY <1>6, <2>1
  <2> QED
    BY <1>1, <1>4, <1>5, <2>2 DEF PendingStep
<1>11. PendingPrefill' /\ PendingRun'
  BY <1>4 DEF PendingPrefill, PendingRun
<1> QED
  BY <1>7, <1>8, <1>9, <1>10, <1>11

\* Sequences fed the tokens in their rows, and answered from the last of them.
LEMMA AnswerKeeps ==
  ASSUME IInv, op' = Idle,
         UNCHANGED <<model, cap, slots, own, ring, torn>>,
         NEW n \in Nat \ {0}, pos' = [s \in Sequence |-> pos[s] + n],
         NEW g, \A s \in Sequence : pos[s] + n <= cap,
         head' \in 0 .. Capacity, known' \subseteq Ids, KnownHolds',
         \A s \in Sequence \ torn :
           g[s] \in [Span(pos[s] + n) -> Token] /\ RowsOf(slots[s], pos[s] + n, g[s]),
         fed' = [s \in Sequence |-> IF s \in torn THEN fed[s] ELSE g[s]],
         basis' = [s \in Sequence |-> IF s \in torn THEN basis[s]
                                      ELSE slots[s][pos[s] + n - 1]]
  PROVE  /\ IInv'
         /\ \A s \in Sequence \ torn : basis'[s] = fed'[s]
<1> USE DEF IInv
<1>1. /\ pos \in [Sequence -> Nat] /\ cap \in Nat /\ cap <= Capacity /\ Capacity \in Nat
  BY ModelIs
<1>2. op'.kind = "idle"
  BY DEF Idle
<1>3. ASSUME NEW s \in Sequence \ torn
      PROVE  fed'[s] = g[s] /\ basis'[s] = g[s]
  <2>1. pos[s] + n - 1 \in Span(pos[s] + n) /\ pos[s] + n - 1 + 1 = pos[s] + n
    BY <1>1 DEF Span
  <2>2. slots[s][pos[s] + n - 1] = Prefix(g[s], pos[s] + n)
    BY <2>1 DEF RowsOf
  <2>3. Prefix(g[s], pos[s] + n) = g[s]
    BY DEF Prefix
  <2> QED
    BY <2>2, <2>3
<1>4. TypeOK'
  <2>1. pos' \in [Sequence -> 0 .. cap]
    BY <1>1
  <2>2. ASSUME NEW s \in Sequence
        PROVE  fed'[s] \in TokensUpTo(Capacity)
               /\ basis'[s] \in UNION {[Span(k) -> Word] : k \in 0 .. Capacity + 1}
    <3>1. CASE s \in torn
      BY <3>1 DEF TypeOK
    <3>2. CASE s \notin torn
      <4>1. g[s] \in [Span(pos[s] + n) -> Token] /\ fed'[s] = g[s] /\ basis'[s] = g[s]
        BY <1>3, <3>2
      <4>2. g[s] \in [Span(pos[s] + n) -> Word]
        BY <4>1 DEF Word
      <4>3. pos[s] + n \in 0 .. Capacity /\ pos[s] + n \in 0 .. Capacity + 1
        BY <1>1
      <4> QED
        BY <4>1, <4>2, <4>3 DEF TokensUpTo
    <3> QED
      BY <3>1, <3>2
  <2>3. fed' \in [Sequence -> TokensUpTo(Capacity)]
        /\ basis' \in [Sequence -> UNION {[Span(k) -> Word] : k \in 0 .. Capacity + 1}]
    BY <2>2
  <2>4. Capacity' = Capacity
    BY DEF Capacity
  <2> QED
    BY <2>1, <2>3, <2>4 DEF TypeOK
<1>5. CacheHolds'
  <2>1. \A s \in Sequence \ torn :
          DOMAIN fed'[s] = Span(pos'[s]) /\ RowsOf(slots[s], pos'[s], fed'[s])
    BY <1>3
  <2> QED
    BY <2>1 DEF CacheHolds
<1>6. PendingPrefill' /\ PendingStep' /\ PendingRun'
  BY <1>2 DEF PendingPrefill, PendingStep, PendingRun
<1> QED
  BY <1>3, <1>4, <1>5, <1>6

LEMMA StepReadKeeps ==
  ASSUME IInv, StepRead
  PROVE  /\ IInv'
         /\ \A s \in torn : fed'[s] = fed[s] /\ basis'[s] = basis[s]
         /\ \A s \in Sequence \ torn :
              /\ fed'[s] = Extend(fed[s], pos[s], <<op.ids[s]>>)
              /\ basis'[s] = fed'[s]
<1> USE DEF IInv
<1> DEFINE g == [s \in Sequence |-> Extend(fed[s], pos[s], <<op.ids[s]>>)]
<1>1. /\ op.kind = "step" /\ op.launched /\ op' = Idle
      /\ pos' = [s \in Sequence |-> pos[s] + 1]
      /\ fed' = [s \in Sequence |-> IF s \in torn THEN fed[s]
                                    ELSE Extend(fed[s], pos[s], <<op.ids[s]>>)]
      /\ basis' = [s \in Sequence |-> IF s \in torn THEN basis[s] ELSE slots[s][pos[s]]]
      /\ UNCHANGED <<model, cap, head, known, slots, own, ring, torn>>
  BY DEF StepRead
<1>2. \A s \in Sequence : pos[s] \in Nat /\ pos[s] + 1 <= cap /\ pos[s] + 1 - 1 = pos[s]
  <2>1. ASSUME NEW s \in Sequence PROVE pos[s] \in Nat /\ pos[s] + 1 <= cap
    BY <1>1, ModelIs DEF PendingStep
  <2>2. \A m \in Nat : m + 1 - 1 = m
    OBVIOUS
  <2> QED
    BY <2>1, <2>2
<1>3. op.ids \in Ids /\ \A s \in Sequence : op.ids[s] \in Token
  BY <1>1 DEF TypeOK, Idle
<1>4. KnownHolds' /\ head' \in 0 .. Capacity /\ known' \subseteq Ids
  BY <1>1 DEF KnownHolds, TypeOK
<1>5. ASSUME NEW s \in Sequence \ torn
      PROVE  /\ g[s] \in [Span(pos[s] + 1) -> Token]
             /\ RowsOf(slots[s], pos[s] + 1, g[s])
  <2> DEFINE one == <<op.ids[s]>>
  <2>1. /\ DOMAIN fed[s] = Span(pos[s])
        /\ RowsOf(slots[s], pos[s] + 1, Extend(fed[s], pos[s], one))
    BY <1>1 DEF CacheHolds, PendingStep
  <2>2. Len(one) = 1 /\ one[1] \in Token
    BY <1>3
  <2>3. Len(one) \in Nat /\ pos[s] + Len(one) <= Capacity /\ pos[s] + Len(one) = pos[s] + 1
        /\ \A i \in 1 .. Len(one) : one[i] \in Token
    BY <1>2, <2>2, ModelIs
  <2> HIDE DEF one
  <2>4. Extend(fed[s], pos[s], one) \in [Span(pos[s] + Len(one)) -> Token]
    BY <1>2, <2>1, <2>3, FedGrows
  <2>5. g[s] = Extend(fed[s], pos[s], one)
    BY DEF one
  <2> QED
    BY <2>1, <2>3, <2>4, <2>5
<1>6. /\ fed' = [s \in Sequence |-> IF s \in torn THEN fed[s] ELSE g[s]]
      /\ basis' = [s \in Sequence |-> IF s \in torn THEN basis[s] ELSE slots[s][pos[s] + 1 - 1]]
  BY <1>1, <1>2
<1> HIDE DEF g
<1>7. IInv' /\ \A s \in Sequence \ torn : basis'[s] = fed'[s]
  BY <1>1, <1>2, <1>4, <1>5, <1>6, AnswerKeeps
<1>8. torn \subseteq Sequence
  BY DEF TypeOK
<1> QED
  BY <1>1, <1>7, <1>8

-----------------------------------------------------------------------------
\* A run is accepted: there is room for its tokens in every sequence and in
\* the ring, and its first ids are in the ring's row head, uploaded or there.
LEMMA RunKeeps ==
  ASSUME IInv, NEW ids \in Ids, NEW n \in 1 .. Capacity, Run(ids, n)
  PROVE  IInv'
<1> USE DEF IInv
<1> DEFINE need == Furthest + n
<1>1. /\ op = Idle /\ Fits(n) /\ Ensure(need)
      /\ head' = RingHead(n) /\ known' = KnownAt(n)
      /\ ring' = IF ids \in KnownAt(n) THEN ring ELSE [ring EXCEPT ![RingHead(n)] = ids]
      /\ op' = [kind |-> "seed", ids |-> ids, n |-> n]
      /\ UNCHANGED <<model, pos, torn, fed, basis>>
  BY DEF Run, seqVars
<1>2. /\ Capacity \in Nat \ {0} /\ cap \in Nat
      /\ pos \in [Sequence -> Nat] /\ \A o \in Sequence : pos[o] <= cap
  BY ModelIs
<1>3. need \in Nat /\ need <= Capacity /\ \A o \in Sequence : pos[o] + n <= need
  <2>1. /\ Furthest \in Nat /\ \E s \in Sequence : pos[s] = Furthest
        /\ \A s \in Sequence : pos[s] <= Furthest
    BY FurthestIs
  <2>2. Furthest + n <= Capacity
    BY <1>1, <2>1 DEF Fits
  <2> QED
    BY <1>2, <2>1, <2>2
<1> HIDE DEF need
<1>4. /\ cap' \in 1 .. Capacity /\ cap <= cap' /\ need <= cap'
      /\ slots' \in [Sequence -> Buffer(cap')] /\ own' \in Buffer(cap')
  BY <1>1, <1>3, EnsureKeeps
<1>5. \A o \in Sequence : \A f : RowsOf(slots[o], pos[o], f) => RowsOf(slots'[o], pos[o], f)
  BY <1>1, <1>3, EnsureRows
<1>6. op'.kind = "seed" /\ op'.ids = ids /\ op'.n = n
  BY <1>1
<1>7. /\ head \in 0 .. Capacity /\ known \subseteq Ids /\ ids \in [Sequence -> Word]
      /\ ring \in [0 .. Capacity -> [Sequence -> Word]]
  BY DEF TypeOK, Word
<1>8. head' \in 0 .. Capacity /\ head' + n <= Capacity
  BY <1>1, <1>2, <1>7 DEF RingHead
<1>9. ring'[head'] = ids /\ ring' \in [0 .. Capacity -> [Sequence -> Word]]
  <2>1. CASE ids \in KnownAt(n)
    <3>1. head' = head /\ ids \in known
      BY <1>1, <2>1 DEF KnownAt, RingHead
    <3>2. ring[head] = ids
      BY <1>1, <3>1 DEF KnownHolds, Idle
    <3> QED
      BY <1>1, <1>7, <2>1, <3>1, <3>2
  <2>2. CASE ids \notin KnownAt(n)
    BY <1>1, <1>7, <1>8, <2>2
  <2> QED
    BY <2>1, <2>2
<1>10. TypeOK'
  <2>1. pos' \in [Sequence -> 0 .. cap']
    BY <1>1, <1>2, <1>4
  <2>2. op' \in [kind : {"seed"}, ids : Ids, n : 1 .. Capacity]
    BY <1>1
  <2>3. Capacity' = Capacity
    BY <1>1 DEF Capacity
  <2>4. known' \subseteq Ids
    BY <1>1, <1>7 DEF KnownAt
  <2> QED
    BY <1>1, <1>4, <1>8, <1>9, <2>1, <2>2, <2>3, <2>4 DEF TypeOK
<1>11. CacheHolds'
  <2>1. \A o \in Sequence \ torn : DOMAIN fed[o] = Span(pos[o]) /\ RowsOf(slots[o], pos[o], fed[o])
    BY <1>1 DEF CacheHolds, Idle
  <2> QED
    BY <1>1, <1>5, <2>1 DEF CacheHolds
<1>12. KnownHolds'
  BY <1>6 DEF KnownHolds
<1>13. PendingRun'
  <2>1. \A s \in Sequence : pos[s] + n <= cap'
    BY <1>2, <1>3, <1>4
  <2>2. Capacity' = Capacity
    BY <1>1 DEF Capacity
  <2> QED
    BY <1>1, <1>6, <1>8, <1>9, <2>1, <2>2 DEF PendingRun
<1>14. PendingPrefill' /\ PendingStep'
  BY <1>6 DEF PendingPrefill, PendingStep
<1> QED
  BY <1>10, <1>11, <1>12, <1>13, <1>14

LEMMA RunFillKeeps ==
  ASSUME IInv, RunFill
  PROVE  IInv'
<1> USE DEF IInv
<1>1. /\ op.kind = "seed"
      /\ ring' = [r \in 0 .. Capacity |->
                    IF r > head /\ r <= head + op.n
                    THEN [s \in Sequence |-> Garbage] ELSE ring[r]]
      /\ op' = [kind |-> "run", ids |-> op.ids, n |-> op.n, j |-> 0]
      /\ UNCHANGED <<model, pos, cap, head, known, slots, own, torn, fed, basis>>
  BY DEF RunFill, hostVars, seqVars
<1>2. op.ids \in Ids /\ op.n \in 1 .. Capacity
  BY <1>1 DEF TypeOK, Idle
<1>3. /\ head \in 0 .. Capacity /\ ring \in [0 .. Capacity -> [Sequence -> Word]]
      /\ pos \in [Sequence -> Nat]
  BY ModelIs DEF TypeOK
<1>4. /\ \A s \in Sequence : pos[s] + op.n <= cap
      /\ head + op.n <= Capacity /\ ring[head] = op.ids
  BY <1>1 DEF PendingRun
<1>5. /\ op' \in [kind : {"run"}, ids : Ids, n : 1 .. Capacity, j : 0 .. Capacity]
      /\ op'.kind = "run" /\ op'.n = op.n /\ op'.ids = op.ids /\ op'.j = 0
  <2>1. 0 \in 0 .. Capacity
    BY ModelIs
  <2> QED
    BY <1>1, <1>2, <2>1
<1>6. ring'[head] = op.ids /\ ring' \in [0 .. Capacity -> [Sequence -> Word]]
  BY <1>1, <1>3, <1>4 DEF Word
<1>7. TypeOK'
  BY <1>1, <1>5, <1>6 DEF TypeOK, Capacity
<1>8. CacheHolds'
  BY <1>1, <1>5 DEF CacheHolds
<1>9. KnownHolds'
  BY <1>5 DEF KnownHolds
<1>10. PendingRun'
  <2>1. ASSUME NEW s \in Sequence \ torn
        PROVE  RowsOf(slots[s], pos[s], Consumed(s, 0)')
    <3>1. RowsOf(slots[s], pos[s], fed[s])
      BY <1>1 DEF CacheHolds
    <3>2. Consumed(s, 0)' = [k \in Span(pos[s]) |-> IF k < pos[s] THEN fed[s][k]
                                                   ELSE IF k = pos[s] THEN op.ids[s]
                                                   ELSE ring'[head + k - pos[s]][s]]
      BY <1>1, <1>3, <1>5 DEF Consumed
    <3>3. \A i \in Span(pos[s]) : \A k \in Span(i + 1) : k \in Span(pos[s]) /\ k < pos[s]
      BY <1>3 DEF Span
    <3>4. \A i \in Span(pos[s]) : Prefix(fed[s], i + 1) = Prefix(Consumed(s, 0)', i + 1)
      BY <3>2, <3>3 DEF Prefix
    <3> QED
      BY <3>1, <3>4 DEF RowsOf
  <2>2. \A s \in Sequence : pos[s] + 0 = pos[s]
    BY <1>3
  <2>3. 1 .. 0 = {}
    OBVIOUS
  <2>4. Capacity' = Capacity
    BY <1>1 DEF Capacity
  <2> QED
    BY <1>1, <1>2, <1>4, <1>5, <1>6, <2>1, <2>2, <2>3, <2>4 DEF PendingRun
<1>11. PendingPrefill' /\ PendingStep'
  BY <1>5 DEF PendingPrefill, PendingStep
<1> QED
  BY <1>7, <1>8, <1>9, <1>10, <1>11

\* The facts about a run under way.
LEMMA RunIs ==
  ASSUME IInv, op.kind = "run"
  PROVE  /\ op \in [kind : {"run"}, ids : Ids, n : 1 .. Capacity, j : 0 .. Capacity]
         /\ op.ids \in Ids /\ op.n \in 1 .. Capacity /\ op.j \in Nat /\ op.j <= op.n
         /\ op.ids \in [Sequence -> Token]
         /\ head \in 0 .. Capacity /\ head + op.n <= Capacity
         /\ cap \in Nat /\ Capacity \in Nat /\ pos \in [Sequence -> Nat]
         /\ \A s \in Sequence : pos[s] \in Nat /\ pos[s] + op.n <= cap
         /\ ring \in [0 .. Capacity -> [Sequence -> Word]]
         /\ ring[head] = op.ids
         /\ \A i \in 1 .. op.j : ring[head + i] \in Ids
         /\ \A s \in Sequence \ torn :
              /\ fed[s] \in [Span(pos[s]) -> Token]
              /\ RowsOf(slots[s], pos[s], fed[s])
              /\ RowsOf(slots[s], pos[s] + op.j, Consumed(s, op.j))
<1> USE DEF IInv
<1>1. op \in [kind : {"run"}, ids : Ids, n : 1 .. Capacity, j : 0 .. Capacity]
  BY DEF TypeOK, Idle
<1>2. /\ head \in 0 .. Capacity /\ ring \in [0 .. Capacity -> [Sequence -> Word]]
  BY DEF TypeOK
<1>3. cap \in Nat /\ Capacity \in Nat /\ pos \in [Sequence -> Nat]
  BY ModelIs
<1>4. \A s \in Sequence \ torn :
        DOMAIN fed[s] = Span(pos[s]) /\ RowsOf(slots[s], pos[s], fed[s])
  BY DEF CacheHolds
<1>5. \A s \in Sequence \ torn : fed[s] \in [Span(pos[s]) -> Token]
  BY <1>3, <1>4, FedIs
<1>6. op.ids \in Ids /\ op.n \in 1 .. Capacity /\ op.j \in Nat
  BY <1>1
<1>7. op.ids \in [Sequence -> Token]
  BY <1>6
<1>8. /\ op.j <= op.n /\ head + op.n <= Capacity /\ ring[head] = op.ids
      /\ \A i \in 1 .. op.j : ring[head + i] \in Ids
      /\ \A s \in Sequence : pos[s] + op.n <= cap
      /\ \A s \in Sequence \ torn : RowsOf(slots[s], pos[s] + op.j, Consumed(s, op.j))
  BY DEF PendingRun
<1> QED
  BY <1>1, <1>2, <1>3, <1>4, <1>5, <1>6, <1>7, <1>8

\* Launch j consumes what launch j - 1 left, or the first ids, at the position
\* after the rows consumed so far.
LEMMA RunLaunchKeeps ==
  ASSUME IInv, NEW out \in Ids, RunLaunch(out)
  PROVE  IInv'
<1> USE DEF IInv
<1> DEFINE j == op.j
           row == ring[head + j]
           at == [s \in Sequence |-> pos[s] + j]
<1>1. /\ op.kind = "run" /\ j < op.n
      /\ slots' = Launched(at, row)
      /\ ring' = [ring EXCEPT ![head + j + 1] = out]
      /\ op' = [op EXCEPT !.j = j + 1]
      /\ UNCHANGED <<model, pos, cap, head, known, own, torn, fed, basis>>
  BY DEF RunLaunch, hostVars, seqVars
<1>2. /\ op \in [kind : {"run"}, ids : Ids, n : 1 .. Capacity, j : 0 .. Capacity]
      /\ op.ids \in Ids /\ op.n \in 1 .. Capacity /\ j \in Nat
      /\ op.ids \in [Sequence -> Token] /\ out \in [Sequence -> Word]
      /\ head \in 0 .. Capacity /\ head + op.n <= Capacity
      /\ cap \in Nat /\ Capacity \in Nat /\ pos \in [Sequence -> Nat]
      /\ \A s \in Sequence : pos[s] \in Nat /\ pos[s] + op.n <= cap
      /\ ring \in [0 .. Capacity -> [Sequence -> Word]]
      /\ ring[head] = op.ids
      /\ \A i \in 1 .. j : ring[head + i] \in Ids
      /\ \A s \in Sequence \ torn :
           /\ DOMAIN fed[s] = Span(pos[s])
           /\ RowsOf(slots[s], pos[s], fed[s])
           /\ RowsOf(slots[s], pos[s] + j, Consumed(s, j))
  BY <1>1, RunIs DEF Word
<1>3. /\ op' \in [kind : {"run"}, ids : Ids, n : 1 .. Capacity, j : 0 .. Capacity]
      /\ op'.kind = "run" /\ op'.n = op.n /\ op'.ids = op.ids /\ op'.j = j + 1
  <2>1. j + 1 \in 0 .. Capacity
    BY <1>1, <1>2
  <2> QED
    BY <1>1, <1>2, <2>1
<1> HIDE DEF j
<1>4. /\ head + j \in 0 .. Capacity /\ head + j + 1 \in 0 .. Capacity
      /\ head + j # head + j + 1 /\ head # head + j + 1
      /\ j + 1 <= op.n
  BY <1>1, <1>2
<1>5. \A s \in Sequence : row[s] \in Word
  BY <1>2, <1>4
<1>6. \A s \in Sequence :
        at[s] = pos[s] + j /\ at[s] \in Nat /\ at[s] + 1 <= cap /\ pos[s] <= at[s]
  BY <1>1, <1>2
<1> HIDE DEF row, at
<1>7. \A s \in Sequence :
        /\ slots'[s] \in Buffer(cap)
        /\ \A f : RowsOf(slots[s], pos[s], f) => RowsOf(slots'[s], pos[s], f)
        /\ \A f : RowsOf(slots[s], at[s], f)
                    => RowsOf(slots'[s], at[s] + 1, Extend(f, at[s], <<row[s]>>))
  <2>1. ASSUME NEW s \in Sequence
        PROVE  /\ slots'[s] \in Buffer(cap)
               /\ \A m \in Nat : \A f : m <= at[s] /\ RowsOf(slots[s], m, f)
                                     => RowsOf(slots'[s], m, f)
               /\ \A f : RowsOf(slots[s], at[s], f)
                     => RowsOf(slots'[s], at[s] + 1, Extend(f, at[s], <<row[s]>>))
    BY <1>1, <1>5, <1>6, LaunchedIs
  <2> QED
    BY <1>2, <1>6, <2>1
<1>8. ring' \in [0 .. Capacity -> [Sequence -> Word]] /\ ring'[head] = op.ids
      /\ ring'[head + j + 1] = out
      /\ \A r \in 0 .. Capacity : r # head + j + 1 => ring'[r] = ring[r]
  BY <1>1, <1>2, <1>4
<1>9. TypeOK'
  <2>1. slots' \in [Sequence -> Buffer(cap)]
    <3>1. slots' = [s \in Sequence |-> Scatter(slots[s], at[s], <<row[s]>>, cap, cap + 1)]
      BY <1>1 DEF Launched
    <3> QED
      BY <1>7, <3>1
  <2>2. Capacity' = Capacity
    BY <1>1 DEF Capacity
  <2> QED
    BY <1>1, <1>3, <1>8, <2>1, <2>2 DEF TypeOK
<1>10. CacheHolds'
  BY <1>1, <1>2, <1>7 DEF CacheHolds
<1>11. KnownHolds'
  BY <1>3 DEF KnownHolds
<1>12. PendingRun'
  <2>1. ASSUME NEW s \in Sequence \ torn
        PROVE  Extend(Consumed(s, j), pos[s] + j, <<row[s]>>) = Consumed(s, op.j)'
    <3> DEFINE p == pos[s]
    <3>1. Consumed(s, op.j)' =
            [i \in Span(p + (j + 1)) |-> IF i < p THEN fed[s][i]
                                         ELSE IF i = p THEN op.ids[s]
                                         ELSE ring'[head + i - p][s]]
      BY <1>1, <1>3 DEF Consumed
    <3>2. Consumed(s, j) =
            [i \in Span(p + j) |-> IF i < p THEN fed[s][i]
                                   ELSE IF i = p THEN op.ids[s]
                                   ELSE ring[head + i - p][s]]
      BY DEF Consumed
    <3>3. p \in Nat /\ p + (j + 1) = p + j + 1 /\ Len(<<row[s]>>) = 1 /\ <<row[s]>>[1] = row[s]
      BY <1>2
    <3> HIDE DEF p
    <3>4. ASSUME NEW i \in Span(p + j + 1)
          PROVE  (IF i < p + j THEN Consumed(s, j)[i] ELSE <<row[s]>>[i - (p + j) + 1])
                   = IF i < p THEN fed[s][i]
                     ELSE IF i = p THEN op.ids[s]
                     ELSE ring'[head + i - p][s]
      <4>1. i \in Nat /\ i < p + j + 1
        BY <1>2, <3>3 DEF Span
      <4>2. CASE i < p + j
        <5>1. i \in Span(p + j)
          BY <1>2, <3>3, <4>1, <4>2 DEF Span
        <5>2. i > p => head + i - p \in 0 .. Capacity /\ head + i - p # head + j + 1
          <6>1. head \in Nat /\ head + j <= Capacity /\ Capacity \in Nat /\ j \in Nat
            BY <1>2, <1>4
          <6> QED
            BY <3>3, <4>1, <4>2, <6>1
        <5>3. i > p => ring'[head + i - p] = ring[head + i - p]
          BY <1>8, <5>2
        <5>4. ~(i < p) /\ i # p => i > p
          BY <3>3, <4>1
        <5> QED
          BY <3>2, <4>2, <5>1, <5>3, <5>4
      <4>3. CASE ~(i < p + j)
        <5>1. i = p + j /\ i - (p + j) + 1 = 1 /\ head + i - p = head + j
          BY <1>2, <3>3, <4>1, <4>3
        <5>2. ring'[head + j] = row
          BY <1>4, <1>8 DEF row
        <5>3. i = p => row = op.ids
          <6>1. i = p => head + j = head
            BY <1>2, <3>3, <5>1
          <6> QED
            BY <1>2, <6>1 DEF row
        <5>4. ~(i < p)
          BY <1>2, <3>3, <5>1
        <5> QED
          BY <3>3, <4>3, <5>1, <5>2, <5>3, <5>4
      <4> QED
        BY <4>2, <4>3
    <3> QED
      BY <3>1, <3>3, <3>4 DEF Extend, p
  <2>2. ASSUME NEW s \in Sequence \ torn
        PROVE  RowsOf(slots'[s], pos[s] + (j + 1), Consumed(s, op.j)')
    <3>1. RowsOf(slots[s], at[s], Consumed(s, j))
      BY <1>2, <1>6
    <3>2. RowsOf(slots'[s], at[s] + 1, Extend(Consumed(s, j), at[s], <<row[s]>>))
      BY <1>7, <3>1
    <3>3. at[s] + 1 = pos[s] + (j + 1) /\ at[s] = pos[s] + j
      BY <1>2, <1>6
    <3> QED
      BY <2>1, <3>2, <3>3
  <2>3. ASSUME NEW i \in 1 .. j + 1 PROVE ring'[head + i] \in Ids
    <3>1. CASE i = j + 1
      <4>1. head + i = head + j + 1
        BY <1>2, <3>1
      <4> QED
        BY <1>8, <4>1
    <3>2. CASE i # j + 1
      <4>1. i \in 1 .. j /\ head + i \in 0 .. Capacity /\ head + i # head + j + 1
        BY <1>2, <1>4, <3>2
      <4> QED
        BY <1>2, <1>8, <4>1
    <3> QED
      BY <3>1, <3>2
  <2>4. Capacity' = Capacity
    BY <1>1 DEF Capacity
  <2> QED
    BY <1>1, <1>2, <1>3, <1>4, <1>8, <2>2, <2>3, <2>4 DEF PendingRun
<1>13. PendingPrefill' /\ PendingStep'
  BY <1>3 DEF PendingPrefill, PendingStep
<1> QED
  BY <1>9, <1>10, <1>11, <1>12, <1>13

\* The run has been read: what it consumed is what the caller is told.
LEMMA RunReadKeeps ==
  ASSUME IInv, RunRead
  PROVE  /\ IInv'
         /\ op.n \in Nat \ {0}
         /\ \A s \in torn : fed'[s] = fed[s] /\ basis'[s] = basis[s]
         /\ \A s \in Sequence \ torn :
              /\ fed'[s] = Consumed(s, op.n)
              /\ basis'[s] = fed'[s]
<1> USE DEF IInv
<1> DEFINE n == op.n
           g == [s \in Sequence |-> Consumed(s, n)]
<1>1. /\ op.kind = "run" /\ op.j = n /\ op' = Idle
      /\ head' = head + n /\ known' = {ring[head + n]}
      /\ pos' = [s \in Sequence |-> pos[s] + n]
      /\ fed' = [s \in Sequence |-> IF s \in torn THEN fed[s] ELSE Consumed(s, n)]
      /\ basis' = [s \in Sequence |-> IF s \in torn THEN basis[s]
                                      ELSE slots[s][pos[s] + n - 1]]
      /\ UNCHANGED <<model, cap, slots, own, ring, torn>>
  BY DEF RunRead, LastIds
<1>2. /\ n \in 1 .. Capacity /\ op.ids \in [Sequence -> Token]
      /\ head \in 0 .. Capacity /\ head + n <= Capacity
      /\ Capacity \in Nat
      /\ \A s \in Sequence : pos[s] \in Nat /\ pos[s] + n <= cap
      /\ \A i \in 1 .. n : ring[head + i] \in Ids
      /\ \A s \in Sequence \ torn :
           /\ fed[s] \in [Span(pos[s]) -> Token]
           /\ RowsOf(slots[s], pos[s] + n, Consumed(s, n))
  BY <1>1, RunIs
<1> HIDE DEF n
<1>3. head' \in 0 .. Capacity /\ known' \subseteq Ids /\ KnownHolds'
  <2>1. n \in 1 .. n /\ head + n \in 0 .. Capacity
    BY <1>2
  <2> QED
    BY <1>1, <1>2, <2>1 DEF KnownHolds
<1>4. ASSUME NEW s \in Sequence \ torn
      PROVE  g[s] \in [Span(pos[s] + n) -> Token]
  <2>1. ASSUME NEW i \in Span(pos[s] + n)
        PROVE  (IF i < pos[s] THEN fed[s][i]
                ELSE IF i = pos[s] THEN op.ids[s]
                ELSE ring[head + i - pos[s]][s]) \in Token
    <3>1. CASE i < pos[s]
      <4>1. i \in Span(pos[s])
        BY <1>2, <3>1 DEF Span
      <4> QED
        BY <1>2, <3>1, <4>1
    <3>2. CASE i = pos[s]
      BY <1>2, <3>2
    <3>3. CASE i > pos[s]
      <4>1. i - pos[s] \in 1 .. n /\ head + (i - pos[s]) = head + i - pos[s]
            /\ ~(i < pos[s]) /\ i # pos[s]
        BY <1>2, <3>3 DEF Span
      <4>2. ring[head + i - pos[s]] \in Ids
        BY <1>2, <4>1
      <4>3. ring[head + i - pos[s]] \in [Sequence -> Token]
        BY <4>2
      <4> QED
        BY <4>1, <4>3
    <3> QED
      BY <1>2, <3>1, <3>2, <3>3 DEF Span
  <2> QED
    BY <2>1 DEF Consumed
<1>5. /\ fed' = [s \in Sequence |-> IF s \in torn THEN fed[s] ELSE g[s]]
      /\ \A s \in Sequence \ torn : RowsOf(slots[s], pos[s] + n, g[s])
  BY <1>1, <1>2
<1>6. torn \subseteq Sequence /\ n \in Nat \ {0}
  BY <1>2 DEF TypeOK
<1>7. \A s \in Sequence : g[s] = Consumed(s, n)
  OBVIOUS
<1> HIDE DEF g
<1>8. IInv' /\ \A s \in Sequence \ torn : basis'[s] = fed'[s]
  BY <1>1, <1>2, <1>3, <1>4, <1>5, <1>6, AnswerKeeps
<1> QED
  BY <1>1, <1>6, <1>8 DEF n

-----------------------------------------------------------------------------
\* A prefill that fails leaves its sequence torn; any other call that fails
\* has written only rows no query is admitted to.
LEMMA FailKeeps ==
  ASSUME IInv, Fail, RunsReturn
  PROVE  IInv' /\ UNCHANGED <<fed, basis>>
<1> USE DEF IInv
<1>1. /\ op.kind \in model.failures
      /\ torn' = IF op.kind = "prefill" THEN torn \cup {op.s} ELSE torn
      /\ op' = Idle
      /\ UNCHANGED <<model, pos, cap, head, known, slots, own, ring, fed, basis>>
  BY DEF Fail, hostVars
<1>2. op.kind \notin {"seed", "run"} /\ op'.kind = "idle"
  BY <1>1 DEF RunsReturn, TypeOK, Idle
<1>3. TypeOK'
  <2>1. torn' \subseteq Sequence
    <3>1. CASE op.kind = "prefill"
      <4>1. op.s \in Sequence /\ torn \subseteq Sequence
        BY <3>1, PrefillIs DEF TypeOK
      <4> QED
        BY <1>1, <4>1
    <3>2. CASE op.kind # "prefill"
      BY <1>1, <3>2 DEF TypeOK
    <3> QED
      BY <3>1, <3>2
  <2> QED
    BY <1>1, <2>1 DEF TypeOK, Capacity
<1>4. CacheHolds'
  <2>1. ASSUME NEW s \in Sequence \ torn'
        PROVE  DOMAIN fed[s] = Span(pos[s]) /\ RowsOf(slots[s], pos[s], fed[s])
    <3>1. s \notin torn /\ (op.kind = "prefill" => op.s # s)
      BY <1>1
    <3> QED
      BY <3>1 DEF CacheHolds
  <2> QED
    BY <1>1, <2>1 DEF CacheHolds
<1>5. KnownHolds'
  BY <1>1, <1>2 DEF KnownHolds
<1>6. PendingPrefill' /\ PendingStep' /\ PendingRun'
  BY <1>2 DEF PendingPrefill, PendingStep, PendingRun
<1> QED
  BY <1>1, <1>3, <1>4, <1>5, <1>6

\* A reset forgets the sequence's tokens, and with them every row of its slot.
LEMMA ResetKeeps ==
  ASSUME IInv, NEW s \in Sequence, Reset(s)
  PROVE  IInv'
<1> USE DEF IInv
<1>1. /\ op = Idle /\ op' = Idle
      /\ pos' = [pos EXCEPT ![s] = 0]
      /\ torn' = torn \ {s}
      /\ fed' = [fed EXCEPT ![s] = Empty]
      /\ basis' = [basis EXCEPT ![s] = Empty]
      /\ UNCHANGED <<model, cap, head, known, slots, own, ring>>
  BY DEF Reset
<1>2. op.kind = "idle" /\ op'.kind = "idle"
  BY <1>1 DEF Idle
<1>3. /\ Empty \in [Span(0) -> Token] /\ Empty \in [Span(0) -> Word] /\ DOMAIN Empty = Span(0)
      /\ \A buf, f : RowsOf(buf, 0, f)
  BY NoRows
<1>4. TypeOK'
  <2>1. cap \in Nat /\ Capacity \in Nat
    BY ModelIs
  <2>2. pos' \in [Sequence -> 0 .. cap]
    BY <1>1, <2>1 DEF TypeOK
  <2>3. fed' \in [Sequence -> TokensUpTo(Capacity)]
    <3>1. Empty \in TokensUpTo(Capacity)
      BY <1>3, <2>1 DEF TokensUpTo
    <3> QED
      BY <1>1, <3>1 DEF TypeOK
  <2>4. basis' \in [Sequence -> UNION {[Span(k) -> Word] : k \in 0 .. Capacity + 1}]
    <3>1. Empty \in UNION {[Span(k) -> Word] : k \in 0 .. Capacity + 1}
      BY <1>3, <2>1
    <3> QED
      BY <1>1, <3>1 DEF TypeOK
  <2>5. torn' \subseteq Sequence
    BY <1>1 DEF TypeOK
  <2> QED
    BY <1>1, <2>2, <2>3, <2>4, <2>5 DEF TypeOK, Capacity
<1>5. CacheHolds'
  <2>1. ASSUME NEW o \in Sequence \ torn'
        PROVE  DOMAIN fed'[o] = Span(pos'[o]) /\ RowsOf(slots[o], pos'[o], fed'[o])
    <3>1. CASE o = s
      BY <1>1, <1>3, <3>1 DEF TypeOK
    <3>2. CASE o # s
      <4>1. DOMAIN fed[o] = Span(pos[o]) /\ RowsOf(slots[o], pos[o], fed[o])
        BY <1>1, <1>2, <3>2 DEF CacheHolds
      <4> QED
        BY <1>1, <3>2, <4>1 DEF TypeOK
    <3> QED
      BY <3>1, <3>2
  <2> QED
    BY <1>1, <2>1 DEF CacheHolds
<1>6. KnownHolds'
  BY <1>1, <1>2 DEF KnownHolds
<1>7. PendingPrefill' /\ PendingStep' /\ PendingRun'
  BY <1>2 DEF PendingPrefill, PendingStep, PendingRun
<1> QED
  BY <1>4, <1>5, <1>6, <1>7

LEMMA NextKeeps ==
  ASSUME IInv, [Next]_vars, RunsReturn
  PROVE  IInv'
<1>1. ASSUME NEW s \in Sequence, NEW toks \in Prompts, Prefill(s, toks) PROVE IInv'
  BY <1>1, PrefillKeeps
<1>2. CASE PrefillLaunch
  BY <1>2, PrefillLaunchKeeps
<1>3. CASE PrefillRead
  BY <1>3, BlockReadKeeps, LastReadKeeps
<1>4. ASSUME NEW ids \in Ids, Step(ids) PROVE IInv'
  BY <1>4, StepKeeps
<1>5. CASE StepLaunch
  BY <1>5, StepLaunchKeeps
<1>6. CASE StepRead
  BY <1>6, StepReadKeeps
<1>7. ASSUME NEW ids \in Ids, NEW n \in 1 .. Capacity, Run(ids, n) PROVE IInv'
  BY <1>7, RunKeeps
<1>8. CASE RunFill
  BY <1>8, RunFillKeeps
<1>9. ASSUME NEW out \in Ids, RunLaunch(out) PROVE IInv'
  BY <1>9, RunLaunchKeeps
<1>10. CASE RunRead
  BY <1>10, RunReadKeeps
<1>11. CASE Fail
  BY <1>11, FailKeeps
<1>12. ASSUME NEW s \in Sequence, Reset(s) PROVE IInv'
  BY <1>12, ResetKeeps
<1>13. CASE UNCHANGED vars
  <2> USE <1>13 DEF vars, IInv
  <2>1. TypeOK' /\ CacheHolds' /\ KnownHolds'
    BY DEF TypeOK, CacheHolds, KnownHolds, Capacity
  <2>2. PendingPrefill'
    BY DEF PendingPrefill, Base, Source, Target, ToSlot, NBlocks, Chunk, Rows
  <2>3. PendingStep'
    BY DEF PendingStep
  <2>4. PendingRun'
    BY DEF PendingRun, Consumed, Capacity
  <2> QED
    BY <2>1, <2>2, <2>3, <2>4
<1> QED
  BY <1>1, <1>2, <1>3, <1>4, <1>5, <1>6, <1>7, <1>8, <1>9, <1>10, <1>11, <1>12, <1>13
     DEF Next

-----------------------------------------------------------------------------
(* Theorems.                                                               *)

\* As long as no call fails inside loop_steps, the rows below every sequence's
\* position are those of its tokens, across bucket growth and the ring's wrap;
\* the host believes of the ring only what it holds; and the blocks of a
\* prompt end in the sequence's slot whatever their number.
THEOREM Invariant ==
  ASSUME RunsReturn
  PROVE  Spec => []IInv
<1>1. Init => IInv
  BY InitInvariant
<1>2. IInv /\ [Next]_vars => IInv'
  BY NextKeeps
<1> QED
  BY <1>1, <1>2, PTL DEF Spec

\* Among the models considered there is one whose capacity is the largest.
Tallest == \E c \in {m.capacity : m \in Models} : \A m \in Models : m.capacity <= c

\* Sequences that are fed tokens and answered from all of them, while the
\* others stay as they are.
LEMMA Feeds ==
  ASSUME IInv, IInv', UNCHANGED model, Tallest, NEW S \in SUBSET Sequence,
         \A s \in Sequence \ S : fed'[s] = fed[s] /\ basis'[s] = basis[s],
         \A s \in S : basis'[s] = fed'[s],
         \A s \in S : \E n \in Nat, m \in Nat :
           /\ n < m
           /\ fed[s] \in [Span(n) -> Token] /\ fed'[s] \in [Span(m) -> Token]
           /\ \A i \in Span(n) : fed'[s][i] = fed[s][i]
  PROVE  [Abstract!SeqNext]_Abstract!seqVars
<1> DEFINE tallest == CHOOSE c \in {m.capacity : m \in Models} :
                        \A m \in Models : m.capacity <= c
<1>1. /\ fed \in [Sequence -> TokensUpTo(Capacity)] /\ fed' \in [Sequence -> TokensUpTo(Capacity)]
      /\ basis = [s \in Sequence |-> basis[s]] /\ basis' = [s \in Sequence |-> basis'[s]]
      /\ fed = [s \in Sequence |-> fed[s]] /\ fed' = [s \in Sequence |-> fed'[s]]
      /\ model \in Models
  BY DEF IInv, TypeOK, Capacity
<1>2. tallest \in Nat /\ Capacity \in Nat /\ Capacity <= tallest
  <2>1. tallest \in {m.capacity : m \in Models} /\ \A m \in Models : m.capacity <= tallest
    BY DEF Tallest
  <2> HIDE DEF tallest
  <2> QED
    BY <1>1, <2>1 DEF Capacity
<1>3. fed' \in [Sequence -> Abstract!TokensUpTo(tallest)]
  <2> HIDE DEF tallest
  <2>1. TokensUpTo(Capacity) \subseteq Abstract!TokensUpTo(tallest)
    <3>1. 0 .. Capacity \subseteq 0 .. tallest
      BY <1>2
    <3> QED
      BY <3>1 DEF TokensUpTo, Abstract!TokensUpTo, Span, Abstract!Span
  <2> QED
    BY <1>1, <2>1
<1>4. ASSUME NEW s \in S PROVE Abstract!Longer(fed[s], fed'[s])
  <2>1. PICK n \in Nat, m \in Nat :
           /\ n < m
           /\ fed[s] \in [Span(n) -> Token] /\ fed'[s] \in [Span(m) -> Token]
           /\ \A i \in Span(n) : fed'[s][i] = fed[s][i]
    OBVIOUS
  <2>2. Span(n) \subseteq Span(m) /\ n \in Span(m) /\ n \notin Span(n)
    BY <2>1 DEF Span
  <2> QED
    BY <2>1, <2>2 DEF Abstract!Longer
<1>5. CASE S = {}
  <2>1. fed' = fed /\ basis' = basis
    BY <1>1, <1>5
  <2> QED
    BY <2>1 DEF Abstract!seqVars
<1>6. CASE S # {}
  <2>1. basis' = [s \in Sequence |-> IF s \in S THEN fed'[s] ELSE basis[s]]
    BY <1>1
  <2>2. Abstract!Feed(S)
    BY <1>3, <1>4, <1>6, <2>1 DEF Abstract!Feed
  <2> QED
    BY <2>2 DEF Abstract!SeqNext
<1> QED
  BY <1>5, <1>6

\* BatchedModel is as many sequences of TokenSequences as its batch has slots:
\* a call that answers extends every sequence it was given tokens for and
\* answers from all of that sequence's tokens, and touches no other sequence.
THEOREM Implementation ==
  ASSUME RunsReturn, Tallest
  PROVE  Spec => Implements
<1>1. Init => Abstract!SeqInit
  BY DEF Init, Abstract!SeqInit, Abstract!Empty, Empty, Abstract!Junk, Junk,
         Abstract!Span, Span
<1>2. ASSUME IInv, [Next]_vars, IInv'
      PROVE  [Abstract!SeqNext]_Abstract!seqVars
  <2>1. CASE UNCHANGED <<fed, basis>>
    BY <2>1 DEF Abstract!seqVars
  <2>2. /\ fed \in [Sequence -> TokensUpTo(Capacity)]
        /\ DOMAIN basis = Sequence /\ DOMAIN fed' = Sequence /\ DOMAIN basis' = Sequence
        /\ torn \subseteq Sequence
        /\ \A s \in Sequence \ torn : (op.kind = "prefill" => op.s # s)
                                        => DOMAIN fed[s] = Span(pos[s])
        /\ \A s \in Sequence : pos[s] \in Nat
    BY <1>2, ModelIs DEF IInv, TypeOK, CacheHolds
  <2>3. \A s \in Sequence, n \in Nat : DOMAIN fed[s] = Span(n) => fed[s] \in [Span(n) -> Token]
    BY <1>2, FedIs DEF IInv
  <2>4. \A s \in Sequence, m \in Nat : DOMAIN fed'[s] = Span(m) => fed'[s] \in [Span(m) -> Token]
    <3>1. ASSUME NEW s \in Sequence, NEW m \in Nat, DOMAIN fed'[s] = Span(m)
          PROVE  fed'[s] \in [Span(m) -> Token]
      <4>1. fed'[s] \in TokensUpTo(Capacity')
        BY <1>2 DEF IInv, TypeOK
      <4>2. PICK k \in 0 .. Capacity' : fed'[s] \in [Span(k) -> Token]
        BY <4>1 DEF TokensUpTo
      <4> QED
        BY <3>1, <4>2
    <3> QED
      BY <3>1
  <2>5. CASE PrefillRead /\ ~(op.i + 1 < NBlocks(op.toks)) /\ op.s \notin torn
    <3> DEFINE s == op.s
               n == Base + Len(op.toks)
    <3>1. /\ fed' = [fed EXCEPT ![s] = Extend(@, Base, op.toks)]
          /\ basis' = [basis EXCEPT ![s] = fed'[s]]
      BY <1>2, <2>5, LastReadKeeps
    <3>2. op.kind = "prefill" /\ UNCHANGED model
      BY <2>5 DEF PrefillRead
    <3>3. s \in Sequence /\ Base \in Nat /\ Len(op.toks) \in Nat \ {0} /\ n \in Nat /\ Base < n
      BY <1>2, <3>2, PrefillIs
    <3>4. DOMAIN fed[s] = Span(Base)
      BY <1>2, <2>5, <3>2 DEF IInv, PendingPrefill
    <3>5. fed'[s] = Extend(fed[s], Base, op.toks)
      BY <2>2, <3>1, <3>3
    <3>6. DOMAIN fed'[s] = Span(n) /\ \A i \in Span(Base) : fed'[s][i] = fed[s][i]
      <4>1. \A i \in Span(Base) : i \in Span(n) /\ i < Base
        BY <3>3 DEF Span
      <4> QED
        BY <3>5, <4>1 DEF Extend
    <3> HIDE DEF s, n
    <3>7. fed[s] \in [Span(Base) -> Token] /\ fed'[s] \in [Span(n) -> Token]
      BY <2>3, <2>4, <3>3, <3>4, <3>6
    <3>8. \A o \in {s} : \E k \in Nat, m \in Nat :
            /\ k < m
            /\ fed[o] \in [Span(k) -> Token] /\ fed'[o] \in [Span(m) -> Token]
            /\ \A i \in Span(k) : fed'[o][i] = fed[o][i]
      BY <3>3, <3>6, <3>7
    <3>9. {s} \in SUBSET Sequence /\ (\A o \in {s} : basis'[o] = fed'[o])
          /\ \A o \in Sequence \ {s} : fed'[o] = fed[o] /\ basis'[o] = basis[o]
      BY <2>2, <3>1, <3>3
    <3> QED
      BY <1>2, <3>2, <3>8, <3>9, Feeds
  <2>6. CASE StepRead
    <3>1. /\ \A s \in torn : fed'[s] = fed[s] /\ basis'[s] = basis[s]
          /\ \A s \in Sequence \ torn :
               /\ fed'[s] = Extend(fed[s], pos[s], <<op.ids[s]>>)
               /\ basis'[s] = fed'[s]
      BY <1>2, <2>6, StepReadKeeps
    <3>2. op.kind = "step" /\ UNCHANGED model
      BY <2>6 DEF StepRead
    <3>3. ASSUME NEW s \in Sequence \ torn
          PROVE  \E n \in Nat, m \in Nat :
                   /\ n < m
                   /\ fed[s] \in [Span(n) -> Token] /\ fed'[s] \in [Span(m) -> Token]
                   /\ \A i \in Span(n) : fed'[s][i] = fed[s][i]
      <4>1. DOMAIN fed[s] = Span(pos[s]) /\ pos[s] \in Nat /\ pos[s] + 1 \in Nat
        BY <2>2, <3>2
      <4>2. \A i \in Span(pos[s]) : i \in Span(pos[s] + 1) /\ i < pos[s]
        BY <4>1 DEF Span
      <4>3. DOMAIN fed'[s] = Span(pos[s] + 1) /\ \A i \in Span(pos[s]) : fed'[s][i] = fed[s][i]
        <5>1. Len(<<op.ids[s]>>) = 1
          OBVIOUS
        <5> QED
          BY <3>1, <4>2, <5>1 DEF Extend
      <4> QED
        BY <2>3, <2>4, <4>1, <4>3
    <3>4. Sequence \ (Sequence \ torn) = torn
      BY <2>2
    <3>5. Sequence \ torn \in SUBSET Sequence
      OBVIOUS
    <3> QED
      BY <1>2, <3>1, <3>2, <3>3, <3>4, <3>5, Feeds
  <2>7. CASE RunRead
    <3>1. /\ \A s \in torn : fed'[s] = fed[s] /\ basis'[s] = basis[s]
          /\ op.n \in Nat \ {0}
          /\ \A s \in Sequence \ torn :
               /\ fed'[s] = Consumed(s, op.n)
               /\ basis'[s] = fed'[s]
      BY <1>2, <2>7, RunReadKeeps
    <3>2. op.kind = "run" /\ UNCHANGED model
      BY <2>7 DEF RunRead
    <3>3. ASSUME NEW s \in Sequence \ torn
          PROVE  \E n \in Nat, m \in Nat :
                   /\ n < m
                   /\ fed[s] \in [Span(n) -> Token] /\ fed'[s] \in [Span(m) -> Token]
                   /\ \A i \in Span(n) : fed'[s][i] = fed[s][i]
      <4>1. DOMAIN fed[s] = Span(pos[s]) /\ pos[s] \in Nat /\ pos[s] + op.n \in Nat
            /\ pos[s] < pos[s] + op.n
        BY <2>2, <3>1, <3>2
      <4>2. \A i \in Span(pos[s]) : i \in Span(pos[s] + op.n) /\ i < pos[s]
        BY <3>1, <4>1 DEF Span
      <4>3. DOMAIN fed'[s] = Span(pos[s] + op.n)
            /\ \A i \in Span(pos[s]) : fed'[s][i] = fed[s][i]
        BY <3>1, <4>2 DEF Consumed
      <4> QED
        BY <2>3, <2>4, <4>1, <4>3
    <3>4. Sequence \ (Sequence \ torn) = torn
      BY <2>2
    <3>5. Sequence \ torn \in SUBSET Sequence
      OBVIOUS
    <3> QED
      BY <1>2, <3>1, <3>2, <3>3, <3>4, <3>5, Feeds
  <2>8. ASSUME NEW s \in Sequence, Reset(s) PROVE Abstract!SeqNext
    <3>1. Abstract!Restart(s)
      BY <2>8 DEF Reset, Abstract!Restart, Abstract!Empty, Empty, Abstract!Junk, Junk,
                  Abstract!Span, Span
    <3> QED
      BY <3>1 DEF Abstract!SeqNext
  <2>9. CASE PrefillRead /\ (op.i + 1 < NBlocks(op.toks) \/ op.s \in torn)
    BY <1>2, <2>1, <2>9, BlockReadKeeps, LastReadKeeps
  <2>10. ASSUME NEW s \in Sequence, NEW toks \in Prompts, Prefill(s, toks)
         PROVE  UNCHANGED <<fed, basis>>
    BY <2>10 DEF Prefill, seqVars
  <2>11. ASSUME NEW ids \in Ids, Step(ids) PROVE UNCHANGED <<fed, basis>>
    BY <2>11 DEF Step, seqVars
  <2>12. ASSUME NEW ids \in Ids, NEW n \in 1 .. Capacity, Run(ids, n)
         PROVE  UNCHANGED <<fed, basis>>
    BY <2>12 DEF Run, seqVars
  <2>13. ASSUME NEW out \in Ids, RunLaunch(out) PROVE UNCHANGED <<fed, basis>>
    BY <2>13 DEF RunLaunch, seqVars
  <2>14. PrefillLaunch \/ StepLaunch \/ RunFill \/ Fail \/ UNCHANGED vars
           => UNCHANGED <<fed, basis>>
    BY DEF PrefillLaunch, StepLaunch, RunFill, Fail, vars, seqVars
  <2> QED
    BY <1>2, <2>1, <2>5, <2>6, <2>7, <2>8, <2>9, <2>10, <2>11, <2>12, <2>13, <2>14 DEF Next
<1>3. Spec => []IInv
  BY Invariant
<1> QED
  BY <1>1, <1>2, <1>3, PTL DEF Spec, Implements, Abstract!SeqSpec
=============================================================================
