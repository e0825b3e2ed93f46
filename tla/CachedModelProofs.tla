------------------------- MODULE CachedModelProofs --------------------------
(***************************************************************************)
(* Proofs about CachedModel, for every vocabulary, block size, capacity    *)
(* and key bucket: what the cache holds and what answers are computed      *)
(* from, as long as no call fails inside loop_steps.                       *)
(***************************************************************************)
EXTENDS CachedModel, KvCacheProofs, SequenceTheorems, TLAPS

USE TokenAssumption, RowsAssumption, CapacityAssumption, StepAssumption,
    SwitchAssumption

-----------------------------------------------------------------------------
(* Blocks.                                                                 *)

\* A block is a sequence of 1 to Rows tokens.
LEMMA BlockIsSeq ==
  ASSUME NEW toks \in Blocks
  PROVE  /\ toks \in Seq(Token)
         /\ Len(toks) \in 1 .. Rows
         /\ \A i \in 1 .. Len(toks) : toks[i] \in Token
<1>1. PICK n \in 1 .. Rows : toks \in [1 .. n -> Token]
  BY DEF Blocks
<1>2. toks \in Seq(Token)
  BY <1>1, SeqDef
<1>3. Len(toks) = n
  BY <1>1, <1>2, LenProperties
<1> QED
  BY <1>1, <1>2, <1>3

-----------------------------------------------------------------------------
(* The inductive invariant.                                                *)

\* The recipe of a block attends to the whole block.
LEMMA KeysHold ==
  ASSUME pos \in 0 .. Capacity, NEW n \in 1 .. Rows, pos + n <= Capacity
  PROVE  Keys(n) \in Int /\ pos + n <= Keys(n)
<1>1. CASE Wide(n) /\ KeysStep > 0
  <2> DEFINE need == Least(pos + Rows, Capacity + 1)
  <2>1. need \in Nat \ {0} /\ need <= Capacity + 1 /\ pos + n <= need
    BY DEF Least
  <2>2. Keys(n) = KeyBucket(need, KeysStep, Capacity + 1)
    BY <1>1 DEF Keys
  <2>3. KeysStep \in Nat \ {0} /\ Capacity + 1 \in Nat
    BY <1>1
  <2>4. KeyBucket(need, KeysStep, Capacity + 1) \in Int
        /\ KeyBucket(need, KeysStep, Capacity + 1) >= need
    BY <2>1, <2>3, BucketHolds
  <2> QED
    BY <2>1, <2>2, <2>4
<1>2. CASE ~(Wide(n) /\ KeysStep > 0)
  BY <1>2 DEF Keys
<1> QED
  BY <1>1, <1>2

LEMMA EmptyIsOne == Empty \in TokensUpTo(Capacity) /\ DOMAIN Empty = Span(0) /\ Span(0) = {}
<1>1. Span(0) = {}
  BY DEF Span
<1>2. Empty \in [Span(0) -> Token] /\ DOMAIN Empty = Span(0)
  BY <1>1 DEF Empty, Junk
<1> QED
  BY <1>1, <1>2 DEF TokensUpTo

\* The tokens fed, with their length, are their own prefix.
LEMMA FedIsPrefix ==
  ASSUME TypeOK, CacheHolds
  PROVE  /\ fed \in [Span(pos) -> Token]
         /\ Prefix(fed, pos) = fed
<1>1. PICK k \in 0 .. Capacity : fed \in [Span(k) -> Token]
  BY DEF TypeOK, TokensUpTo
<1>2. DOMAIN fed = Span(pos)
  BY DEF CacheHolds
<1>3. fed \in [Span(pos) -> Token]
  BY <1>1, <1>2
<1> QED
  BY <1>3 DEF Prefix

\* Init establishes the invariant.
LEMMA InitInvariant == Init => IInv
<1> SUFFICES ASSUME Init PROVE IInv
  OBVIOUS
<1> USE DEF Init
<1>1. FreshBuffer(Capacity) \in Buffer(Capacity)
  <2>1. \A i \in 0 .. Capacity : i + 1 \in 0 .. Capacity + 1
                                 /\ Junk(i + 1) \in [Span(i + 1) -> Word]
    BY DEF Junk, Word
  <2> QED
    BY <2>1 DEF FreshBuffer, Buffer
<1>2. Empty \in UNION {[Span(k) -> Word] : k \in 0 .. Capacity + 1}
  <2>1. Empty \in [Span(0) -> Word]
    BY DEF Empty, Junk, Word
  <2> QED
    BY <2>1
<1>3. TypeOK
  <2>1. ring \in [0 .. Capacity -> Word]
    BY DEF Word
  <2>2. bufs \in [BOOLEAN -> Buffer(Capacity)]
    BY <1>1
  <2>3. fed \in TokensUpTo(Capacity) /\ basis = Empty
    BY EmptyIsOne
  <2>4. op \in {Idle} /\ known = {} /\ flipped \in BOOLEAN
    OBVIOUS
  <2>5. pos \in 0 .. Capacity
    OBVIOUS
  <2> HIDE DEF Init
  <2> QED
    BY <1>2, <2>1, <2>2, <2>3, <2>4, <2>5 DEF TypeOK
<1>4. CacheHolds
  BY EmptyIsOne DEF CacheHolds
<1>5. KnownHolds /\ PendingBlock /\ PendingLoop
  BY DEF KnownHolds, PendingBlock, PendingLoop, Idle
<1>6. AnswersFed
  BY DEF AnswersFed
<1> QED
  BY <1>3, <1>4, <1>5, <1>6 DEF IInv

\* A launch of a block: the other buffer, or with the decode recipe the rows
\* at and after pos of the current one.
LEMMA BlockLaunchKeeps ==
  ASSUME IInv, NEW toks \in Blocks, BlockLaunch(toks)
  PROVE  IInv'
<1> USE DEF IInv
<1> DEFINE n == Len(toks)
           out == Scatter(bufs[flipped], pos, toks, Capacity, Keys(n))
<1>1. /\ n \in 1 .. Rows
      /\ n \in Nat
      /\ pos + n <= Capacity
      /\ pos \in 0 .. Capacity
      /\ flipped \in BOOLEAN
      /\ bufs \in [BOOLEAN -> Buffer(Capacity)]
      /\ Wide(n) \in BOOLEAN
      /\ \A i \in 1 .. n : toks[i] \in Token /\ toks[i] \in Word
  BY BlockIsSeq DEF BlockLaunch, TypeOK, Wide, Word
<1>2. Keys(n) \in Int /\ pos + n <= Keys(n)
  BY <1>1, KeysHold
<1>3. \A i \in Span(pos + n) : out[i] = Prefix(Extend(fed, pos, toks), i + 1)
  <2>1. RowsOf(bufs[flipped], pos, fed)
    BY DEF CacheHolds, RowsOf
  <2>2. RowsOf(out, pos + n, Extend(fed, pos, toks))
    BY <1>1, <1>2, <2>1, ScatterRows
  <2> QED
    BY <2>2 DEF RowsOf
<1>4. out \in Buffer(Capacity)
  BY <1>1, <1>2, ScatterType
<1>5. /\ op = Idle
      /\ op' = [kind |-> "block", toks |-> toks, wide |-> Wide(n)]
      /\ bufs' = [bufs EXCEPT ![Target(Wide(n))] = out]
      /\ UNCHANGED <<pos, flipped, known, ring, fed, basis>>
  BY DEF BlockLaunch, hostVars, seqVars
<1>6. Target(Wide(n)) \in BOOLEAN /\ Target(Wide(n)) \in {flipped, ~flipped}
  BY <1>1 DEF Target
<1>7. /\ op'.kind = "block"
      /\ op'.toks = toks
      /\ op'.wide = Wide(n)
  BY <1>5
<1> HIDE DEF out
<1>8. TypeOK'
  <2>1. (bufs \in [BOOLEAN -> Buffer(Capacity)])'
    BY <1>1, <1>4, <1>5, <1>6
  <2>2. op' \in [kind : {"block"}, toks : Blocks, wide : BOOLEAN]
    BY <1>1, <1>5
  <2> QED
    BY <1>5, <2>1, <2>2 DEF TypeOK
<1>9. CacheHolds'
  <2>1. \A i \in Span(pos) : bufs'[flipped][i] = bufs[flipped][i]
    <3>1. CASE Target(Wide(n)) = flipped
      <4>1. bufs'[flipped] = out
        BY <1>1, <1>5, <3>1
      <4>2. ASSUME NEW i \in Span(pos) PROVE out[i] = bufs[flipped][i]
        BY <1>1, <4>1 DEF out, Scatter, Span
      <4> QED
        BY <4>1, <4>2
    <3>2. CASE Target(Wide(n)) # flipped
      BY <1>1, <1>5, <1>6, <3>2
    <3> QED
      BY <3>1, <3>2
  <2> QED
    BY <1>5, <2>1 DEF CacheHolds
<1>10. KnownHolds'
  BY <1>5, <1>7 DEF KnownHolds, Idle
<1>11. PendingBlock'
  <2>1. Target(op.wide)' = Target(Wide(n))
    BY <1>5, <1>7 DEF Target
  <2>2. bufs'[Target(Wide(n))] = out
    BY <1>1, <1>5, <1>6
  <2> QED
    BY <1>1, <1>3, <1>5, <1>7, <2>1, <2>2 DEF PendingBlock
<1>12. PendingLoop'
  BY <1>7 DEF PendingLoop
<1>13. AnswersFed'
  BY <1>5 DEF AnswersFed
<1> QED
  BY <1>8, <1>9, <1>10, <1>11, <1>12, <1>13

\* The answer is computed from the rows PendingBlock describes.
LEMMA BlockReadKeeps ==
  ASSUME IInv, BlockRead
  PROVE  /\ IInv'
         /\ fed' = Extend(fed, pos, op.toks)
         /\ op.toks \in Blocks
<1> USE DEF IInv
<1> DEFINE toks == op.toks
           n == Len(toks)
<1>1. /\ op.kind = "block"
      /\ pos' = pos + n
      /\ fed' = Extend(fed, pos, toks)
      /\ basis' = bufs[Target(op.wide)][pos + n - 1]
      /\ op' = Idle
      /\ UNCHANGED <<known, bufs, ring>>
      /\ flipped' = IF op.wide THEN ~flipped ELSE flipped
  BY DEF BlockRead, Flip
<1>2. op.toks \in Blocks /\ op.wide \in BOOLEAN
  BY <1>1 DEF TypeOK, Idle
<1>3. n \in 1 .. Rows /\ \A i \in 1 .. n : toks[i] \in Token
  BY <1>2, BlockIsSeq
<1>4. pos + n <= Capacity /\ pos \in 0 .. Capacity
  BY <1>1 DEF PendingBlock, TypeOK
<1>5. \A i \in Span(pos + n) :
        bufs[Target(op.wide)][i] = Prefix(Extend(fed, pos, toks), i + 1)
  BY <1>1 DEF PendingBlock
<1>6. flipped' = Target(op.wide)
  BY <1>1 DEF Target
<1>7. Extend(fed, pos, toks) \in [Span(pos + n) -> Token]
  <2>1. \A i \in Span(pos) : fed[i] \in Token
    BY FedIsPrefix
  <2>2. pos \in Nat /\ n \in Nat
    BY <1>3, <1>4
  <2> HIDE DEF n, toks
  <2> QED
    BY <1>3, <2>1, <2>2, ExtendType DEF n
<1>8. Prefix(Extend(fed, pos, toks), pos + n) = Extend(fed, pos, toks)
  BY <1>7 DEF Prefix
<1>9. basis' = fed'
  <2>1. pos + n - 1 \in Span(pos + n) /\ pos + n - 1 + 1 = pos + n
    BY <1>3, <1>4 DEF Span
  <2> QED
    BY <1>1, <1>5, <1>8, <2>1
<1>10. TypeOK'
  <2>1. pos' \in 0 .. Capacity
    BY <1>1, <1>3, <1>4
  <2>2. fed' \in TokensUpTo(Capacity)
    BY <1>1, <1>7, <2>1 DEF TokensUpTo
  <2>3. fed' \in [Span(pos') -> Word]
    BY <1>1, <1>7 DEF Word
  <2>4. basis' \in UNION {[Span(k) -> Word] : k \in 0 .. Capacity + 1}
    BY <1>9, <2>1, <2>3
  <2>5. flipped' \in BOOLEAN
    BY <1>1, <1>2 DEF TypeOK
  <2> QED
    BY <1>1, <2>1, <2>2, <2>4, <2>5 DEF TypeOK
<1>11. CacheHolds'
  BY <1>1, <1>5, <1>6, <1>7 DEF CacheHolds
<1>12. KnownHolds'
  BY <1>1 DEF KnownHolds, Idle
<1>13. PendingBlock' /\ PendingLoop'
  BY <1>1 DEF PendingBlock, PendingLoop, Idle
<1> QED
  BY <1>1, <1>2, <1>9, <1>10, <1>11, <1>12, <1>13 DEF AnswersFed

LEMMA LoopSeedKeeps ==
  ASSUME IInv, NEW seed \in Token, NEW n \in 1 .. Capacity, LoopSeed(seed, n)
  PROVE  IInv'
<1> USE DEF IInv
<1>1. /\ op = Idle
      /\ pos + n <= Capacity
      /\ ring' = IF Resident(seed) THEN ring ELSE [ring EXCEPT ![pos] = seed]
      /\ op' = [kind |-> "seed", seed |-> seed, n |-> n]
      /\ UNCHANGED <<pos, flipped, known, bufs, fed, basis>>
  BY DEF LoopSeed, hostVars, seqVars
<1>2. pos \in 0 .. Capacity /\ ring \in [0 .. Capacity -> Word]
  BY DEF TypeOK
<1>3. ring'[pos] = seed
  <2>1. CASE Resident(seed)
    <3>1. \A k \in known : ring[k[1]] = k[2]
      BY <1>1 DEF KnownHolds, Idle
    <3> QED
      BY <1>1, <2>1, <3>1 DEF Resident
  <2>2. CASE ~Resident(seed)
    BY <1>1, <1>2, <2>2
  <2> QED
    BY <2>1, <2>2
<1>4. ring' \in [0 .. Capacity -> Word]
  BY <1>1, <1>2 DEF Word
<1>5. op' \in [kind : {"seed"}, seed : Token, n : 1 .. Capacity]
      /\ op'.kind = "seed" /\ op'.n = n /\ op'.seed = seed
  BY <1>1
<1>6. TypeOK'
  BY <1>1, <1>4, <1>5 DEF TypeOK
<1>7. CacheHolds' /\ AnswersFed'
  BY <1>1 DEF CacheHolds, AnswersFed
<1>8. KnownHolds' /\ PendingBlock' /\ PendingLoop'
  BY <1>1, <1>3, <1>5 DEF KnownHolds, PendingBlock, PendingLoop
<1> QED
  BY <1>6, <1>7, <1>8

LEMMA LoopFillKeeps ==
  ASSUME IInv, LoopFill
  PROVE  IInv'
<1> USE DEF IInv
<1>1. /\ op.kind = "seed"
      /\ ring' = [p \in 0 .. Capacity |->
                    IF p > pos /\ p <= pos + op.n THEN Garbage ELSE ring[p]]
      /\ op' = [kind |-> "loop", seed |-> op.seed, n |-> op.n, j |-> 0]
      /\ UNCHANGED <<pos, flipped, known, bufs, fed, basis>>
  BY DEF LoopFill, hostVars, seqVars
<1>2. pos \in 0 .. Capacity /\ ring \in [0 .. Capacity -> Word]
  BY DEF TypeOK
<1>3. op.seed \in Token /\ op.n \in 1 .. Capacity
  BY <1>1 DEF TypeOK, Idle
<1>4. pos + op.n <= Capacity /\ ring[pos] = op.seed
  BY <1>1 DEF PendingLoop
<1>5. ring'[pos] = op.seed /\ ring' \in [0 .. Capacity -> Word]
  BY <1>1, <1>2, <1>4 DEF Word
<1>6. /\ op' \in [kind : {"loop"}, seed : Token, n : 1 .. Capacity, j : 0 .. Capacity]
      /\ op'.kind = "loop" /\ op'.n = op.n /\ op'.seed = op.seed /\ op'.j = 0
  BY <1>1, <1>3
<1>7. TypeOK'
  BY <1>1, <1>5, <1>6 DEF TypeOK
<1>8. CacheHolds' /\ AnswersFed'
  BY <1>1 DEF CacheHolds, AnswersFed
<1>9. KnownHolds' /\ PendingBlock'
  BY <1>6 DEF KnownHolds, PendingBlock
<1>10. PendingLoop'
  <2>1. ASSUME NEW i \in Span(pos)
        PROVE  bufs[flipped][i] = Prefix(Consumed(0)', i + 1)
    <3>1. bufs[flipped][i] = Prefix(fed, i + 1)
      BY DEF CacheHolds
    <3>2. Consumed(0)' = [k \in Span(pos) |-> IF k < pos THEN fed[k]
                                             ELSE IF k = pos THEN op.seed ELSE ring'[k]]
      BY <1>1, <1>2, <1>6 DEF Consumed
    <3>3. \A k \in Span(i + 1) : k \in Span(pos) /\ k < pos
      BY <1>2 DEF Span
    <3> QED
      BY <3>1, <3>2, <3>3 DEF Prefix
  <2>2. Span(pos + 0) = Span(pos) /\ 1 .. 0 = {}
    BY <1>2
  <2> QED
    BY <1>1, <1>3, <1>4, <1>5, <1>6, <2>1, <2>2 DEF PendingLoop
<1> QED
  BY <1>7, <1>8, <1>9, <1>10

\* Launch j consumes what launch j - 1 left, or the seed, at the position
\* after the rows consumed so far.
LEMMA LoopLaunchKeeps ==
  ASSUME IInv, NEW out \in Token, LoopLaunch(out)
  PROVE  IInv'
<1> USE DEF IInv
<1> DEFINE at == pos + op.j
           buf == Scatter(bufs[flipped], at, <<ring[at]>>, Capacity, Capacity + 1)
<1>1. /\ op.kind = "loop"
      /\ op.j < op.n
      /\ bufs' = [bufs EXCEPT ![flipped] = buf]
      /\ ring' = [ring EXCEPT ![at + 1] = out]
      /\ op' = [op EXCEPT !.j = op.j + 1]
      /\ UNCHANGED <<pos, flipped, known, fed, basis>>
  BY DEF LoopLaunch, hostVars, seqVars
<1>2. /\ pos \in 0 .. Capacity
      /\ flipped \in BOOLEAN
      /\ ring \in [0 .. Capacity -> Word]
      /\ bufs \in [BOOLEAN -> Buffer(Capacity)]
  BY DEF TypeOK
<1>3. op \in [kind : {"loop"}, seed : Token, n : 1 .. Capacity, j : 0 .. Capacity]
  BY <1>1 DEF TypeOK, Idle
<1>4. /\ pos + op.n <= Capacity
      /\ ring[pos] = op.seed
      /\ \A i \in 1 .. op.j : ring[pos + i] \in Token
      /\ \A i \in Span(at) : bufs[flipped][i] = Prefix(Consumed(op.j), i + 1)
  BY <1>1 DEF PendingLoop
<1>5. /\ at \in Nat /\ at + 1 <= Capacity /\ at >= pos /\ op.j \in Nat
      /\ at \in 0 .. Capacity /\ at + 1 \in 0 .. Capacity
  BY <1>1, <1>2, <1>3, <1>4
<1>6. /\ op'.kind = "loop" /\ op'.n = op.n /\ op'.seed = op.seed /\ op'.j = op.j + 1
      /\ op' \in [kind : {"loop"}, seed : Token, n : 1 .. Capacity, j : 0 .. Capacity]
      /\ op'.j <= op'.n
      /\ pos' + op'.j = at + 1
  <2>1. op.j + 1 \in 0 .. Capacity /\ op.j + 1 <= op.n
    BY <1>1, <1>2, <1>3, <1>4
  <2>2. op' \in [kind : {"loop"}, seed : Token, n : 1 .. Capacity, j : 0 .. Capacity]
        /\ op'.kind = "loop" /\ op'.n = op.n /\ op'.seed = op.seed /\ op'.j = op.j + 1
    BY <1>1, <1>3, <2>1
  <2> QED
    BY <1>1, <1>2, <1>3, <2>1, <2>2
<1>7. ring[at] \in Word /\ Len(<<ring[at]>>) = 1 /\ <<ring[at]>>[1] = ring[at]
  BY <1>2, <1>5
<1> HIDE DEF at
<1>8. buf \in Buffer(Capacity)
  <2>1. \A i \in 1 .. 1 : <<ring[at]>>[i] \in Word
    BY <1>7
  <2> QED
    BY <1>2, <1>5, <1>7, <2>1, ScatterType
<1>9. \A i \in Span(at + 1) :
        buf[i] = Prefix(Extend(Consumed(op.j), at, <<ring[at]>>), i + 1)
  <2> DEFINE one == <<ring[at]>>
  <2>1. RowsOf(bufs[flipped], at, Consumed(op.j))
    BY <1>4 DEF RowsOf
  <2>2. /\ Len(one) \in Nat
        /\ at + Len(one) = at + 1
        /\ at + Len(one) <= Capacity
        /\ at + Len(one) <= Capacity + 1
    BY <1>5, <1>7
  <2>3. at \in Nat /\ Capacity \in Nat /\ Capacity + 1 \in Int
    BY <1>5
  <2> HIDE DEF one
  <2>4. RowsOf(Scatter(bufs[flipped], at, one, Capacity, Capacity + 1),
               at + Len(one), Extend(Consumed(op.j), at, one))
    BY ONLY <2>1, <2>2, <2>3, ScatterRows
  <2> QED
    BY <2>2, <2>4 DEF RowsOf, one
<1> HIDE DEF buf
<1>10. Extend(Consumed(op.j), at, <<ring[at]>>) = Consumed(op.j)'
  <2>1. Consumed(op.j)' =
          [i \in Span(at + 1) |-> IF i < pos THEN fed[i]
                                  ELSE IF i = pos THEN op.seed ELSE ring'[i]]
    BY <1>1, <1>6 DEF Consumed
  <2>2. \A i \in Span(at) :
          Consumed(op.j)[i] = IF i < pos THEN fed[i]
                              ELSE IF i = pos THEN op.seed ELSE ring[i]
    BY DEF Consumed, at
  <2>3. ASSUME NEW i \in Span(at + 1)
        PROVE  (IF i < at THEN Consumed(op.j)[i] ELSE <<ring[at]>>[i - at + 1])
                 = IF i < pos THEN fed[i]
                   ELSE IF i = pos THEN op.seed ELSE ring'[i]
    <3>1. CASE i < at
      <4>1. i \in Span(at) /\ i # at + 1 /\ i \in 0 .. Capacity
        BY <1>5, <3>1 DEF Span
      <4>2. ring'[i] = ring[i]
        BY <1>1, <1>2, <4>1
      <4> QED
        BY <2>2, <3>1, <4>1, <4>2
    <3>2. CASE i >= at
      <4>1. i = at /\ i - at + 1 = 1 /\ ring'[at] = ring[at]
        BY <1>1, <1>2, <1>5, <3>2 DEF Span
      <4> QED
        BY <1>2, <1>4, <1>5, <1>7, <4>1
    <3> QED
      BY <1>5, <3>1, <3>2 DEF Span
  <2> QED
    BY <1>7, <2>1, <2>3 DEF Extend
<1>11. TypeOK'
  <2>1. ring' \in [0 .. Capacity -> Word]
    BY <1>1, <1>2 DEF Word
  <2>2. bufs' \in [BOOLEAN -> Buffer(Capacity)]
    BY <1>1, <1>2, <1>8
  <2> QED
    BY <1>1, <1>6, <2>1, <2>2 DEF TypeOK
<1>12. CacheHolds'
  <2>1. ASSUME NEW i \in Span(pos) PROVE bufs'[flipped][i] = bufs[flipped][i]
    <3>1. bufs'[flipped] = buf
      BY <1>1, <1>2
    <3>2. buf[i] = bufs[flipped][i]
      BY <1>2, <1>5 DEF buf, Scatter, Span
    <3> QED
      BY <3>1, <3>2
  <2> QED
    BY <1>1, <2>1 DEF CacheHolds
<1>13. KnownHolds' /\ PendingBlock' /\ AnswersFed'
  BY <1>1, <1>6 DEF KnownHolds, PendingBlock, AnswersFed
<1>14. PendingLoop'
  <2>1. ring'[pos] = op.seed
    BY <1>1, <1>2, <1>4, <1>5
  <2>2. \A i \in 1 .. op.j + 1 : ring'[pos + i] \in Token
    <3>1. ASSUME NEW i \in 1 .. op.j + 1 PROVE ring'[pos + i] \in Token
      <4>1. CASE i = op.j + 1
        BY <1>1, <1>2, <1>5, <4>1 DEF at
      <4>2. CASE i # op.j + 1
        <5>1. i \in 1 .. op.j /\ pos + i # at + 1 /\ pos + i \in 0 .. Capacity
          BY <1>2, <1>5, <4>2 DEF at
        <5> QED
          BY <1>1, <1>2, <1>4, <5>1
      <4> QED
        BY <4>1, <4>2
    <3> QED
      BY <3>1
  <2>3. bufs'[flipped] = buf
    BY <1>1, <1>2
  <2> QED
    BY <1>1, <1>4, <1>6, <1>9, <1>10, <2>1, <2>2, <2>3 DEF PendingLoop
<1> QED
  BY <1>11, <1>12, <1>13, <1>14

\* The run has been read: what it consumed is what the caller is told.
LEMMA LoopReadKeeps ==
  ASSUME IInv, LoopRead
  PROVE  /\ IInv'
         /\ op.n \in 1 .. Capacity
         /\ pos + op.n <= Capacity
         /\ fed' = Consumed(op.n)
<1> USE DEF IInv
<1> DEFINE n == op.n
<1>1. /\ op.kind = "loop"
      /\ op.j = n
      /\ known' = {<<pos + n, ring[pos + n]>>}
      /\ pos' = pos + n
      /\ fed' = Consumed(n)
      /\ basis' = bufs[flipped][pos + n - 1]
      /\ op' = Idle
      /\ UNCHANGED <<flipped, bufs, ring>>
  BY DEF LoopRead
<1>2. /\ n \in 1 .. Capacity /\ op.seed \in Token
      /\ pos \in 0 .. Capacity
      /\ ring \in [0 .. Capacity -> Word]
  BY <1>1 DEF TypeOK, Idle
<1>3. /\ pos + n <= Capacity
      /\ \A i \in 1 .. n : ring[pos + i] \in Token
      /\ \A i \in Span(pos + n) : bufs[flipped][i] = Prefix(Consumed(n), i + 1)
  BY <1>1 DEF PendingLoop
<1>4. Consumed(n) \in [Span(pos + n) -> Token]
  <2>1. ASSUME NEW i \in Span(pos + n)
        PROVE  (IF i < pos THEN fed[i] ELSE IF i = pos THEN op.seed ELSE ring[i]) \in Token
    <3>1. CASE i < pos
      <4>1. i \in Span(pos)
        BY <1>2, <3>1 DEF Span
      <4> QED
        BY <3>1, <4>1, FedIsPrefix
    <3>2. CASE i = pos
      BY <1>2, <3>2
    <3>3. CASE i > pos
      <4>1. i - pos \in 1 .. n /\ pos + (i - pos) = i
        BY <1>2, <3>3 DEF Span
      <4>2. ring[i] \in Token
        BY <1>3, <4>1
      <4> QED
        BY <1>2, <3>3, <4>2 DEF Span
    <3> QED
      BY <1>2, <3>1, <3>2, <3>3 DEF Span
  <2> QED
    BY <2>1 DEF Consumed
<1>5. Prefix(Consumed(n), pos + n) = Consumed(n)
  BY <1>4 DEF Prefix
<1>6. basis' = fed'
  <2>1. pos + n - 1 \in Span(pos + n) /\ pos + n - 1 + 1 = pos + n
    BY <1>2, <1>3 DEF Span
  <2> QED
    BY <1>1, <1>3, <1>5, <2>1
<1>7. TypeOK'
  <2>1. pos' \in 0 .. Capacity
    BY <1>1, <1>2, <1>3
  <2>2. fed' \in TokensUpTo(Capacity)
    BY <1>1, <1>4, <2>1 DEF TokensUpTo
  <2>3. fed' \in [Span(pos') -> Word]
    BY <1>1, <1>4 DEF Word
  <2>4. basis' \in UNION {[Span(k) -> Word] : k \in 0 .. Capacity + 1}
    BY <1>6, <2>1, <2>3
  <2>5. pos + n \in 0 .. Capacity /\ ring[pos + n] \in Token
    BY <1>2, <1>3
  <2>6. known' \subseteq (0 .. Capacity) \X Token
    BY <1>1, <2>5
  <2> QED
    BY <1>1, <2>1, <2>2, <2>4, <2>6 DEF TypeOK
<1>8. CacheHolds'
  BY <1>1, <1>3, <1>4 DEF CacheHolds
<1>9. KnownHolds'
  BY <1>1 DEF KnownHolds
<1>10. PendingBlock' /\ PendingLoop'
  BY <1>1 DEF PendingBlock, PendingLoop, Idle
<1> QED
  BY <1>1, <1>2, <1>3, <1>6, <1>7, <1>8, <1>9, <1>10 DEF AnswersFed

\* A reset forgets the tokens, and with them every row.
LEMMA ResetKeeps ==
  ASSUME IInv, Reset
  PROVE  IInv' /\ fed' = Empty /\ basis' = Empty
<1> USE DEF IInv
<1>1. /\ op = Idle
      /\ pos' = 0
      /\ fed' = Empty
      /\ basis' = Empty
      /\ UNCHANGED <<flipped, known, bufs, ring, op>>
  BY DEF Reset
<1>2. Empty \in [Span(0) -> Word]
  BY EmptyIsOne DEF Empty, Junk
<1>3. TypeOK'
  <2>1. basis' \in UNION {[Span(k) -> Word] : k \in 0 .. Capacity + 1}
    BY <1>1, <1>2
  <2> QED
    BY <1>1, <2>1, EmptyIsOne DEF TypeOK
<1>4. CacheHolds'
  BY <1>1, EmptyIsOne DEF CacheHolds
<1>5. KnownHolds'
  BY <1>1 DEF KnownHolds
<1>6. PendingBlock' /\ PendingLoop' /\ AnswersFed'
  BY <1>1 DEF PendingBlock, PendingLoop, AnswersFed, Idle
<1> QED
  BY <1>1, <1>3, <1>4, <1>5, <1>6

\* A block that failed has written only rows no query is admitted to.
LEMMA FailKeeps ==
  ASSUME IInv, Fail, LoopMayFail = FALSE
  PROVE  IInv' /\ UNCHANGED <<fed, basis>>
<1> USE DEF IInv
<1>1. /\ op.kind = "block"
      /\ op' = Idle
      /\ UNCHANGED <<pos, flipped, known, bufs, ring, fed, basis>>
  BY DEF Fail, hostVars, seqVars
<1>2. TypeOK'
  BY <1>1 DEF TypeOK
<1>3. CacheHolds' /\ AnswersFed'
  BY <1>1 DEF CacheHolds, AnswersFed
<1>4. KnownHolds'
  BY <1>1 DEF KnownHolds
<1>5. PendingBlock' /\ PendingLoop'
  BY <1>1 DEF PendingBlock, PendingLoop, Idle
<1> QED
  BY <1>1, <1>2, <1>3, <1>4, <1>5

LEMMA NextKeeps ==
  ASSUME IInv, [Next]_vars, LoopMayFail = FALSE
  PROVE  IInv'
<1>1. ASSUME NEW toks \in Blocks, BlockLaunch(toks) PROVE IInv'
  BY <1>1, BlockLaunchKeeps
<1>2. CASE BlockRead
  BY <1>2, BlockReadKeeps
<1>3. ASSUME NEW seed \in Token, NEW n \in 1 .. Capacity, LoopSeed(seed, n)
      PROVE  IInv'
  BY <1>3, LoopSeedKeeps
<1>4. CASE LoopFill
  BY <1>4, LoopFillKeeps
<1>5. ASSUME NEW out \in Token, LoopLaunch(out) PROVE IInv'
  BY <1>5, LoopLaunchKeeps
<1>6. CASE LoopRead
  BY <1>6, LoopReadKeeps
<1>7. CASE Fail
  BY <1>7, FailKeeps
<1>8. CASE Reset
  BY <1>8, ResetKeeps
<1>9. CASE UNCHANGED vars
  <2> USE <1>9 DEF vars, IInv
  <2>1. TypeOK' /\ CacheHolds' /\ KnownHolds' /\ AnswersFed'
    BY DEF TypeOK, CacheHolds, KnownHolds, AnswersFed
  <2>2. PendingBlock'
    BY DEF PendingBlock, Target
  <2>3. PendingLoop'
    BY DEF PendingLoop, Consumed
  <2> QED
    BY <2>1, <2>2, <2>3
<1> QED
  BY <1>1, <1>2, <1>3, <1>4, <1>5, <1>6, <1>7, <1>8, <1>9 DEF Next

-----------------------------------------------------------------------------
(* Theorems.                                                               *)

\* As long as no call fails inside loop_steps, the rows below pos are those
\* of the tokens fed, the ring slot the host believes in holds what it
\* believes, and a call under way has written what it should have.
THEOREM Invariant ==
  ASSUME LoopMayFail = FALSE
  PROVE  Spec => []IInv
<1>1. Init => IInv
  BY InitInvariant
<1>2. IInv /\ [Next]_vars => IInv'
  BY NextKeeps
<1> QED
  BY <1>1, <1>2, PTL DEF Spec

\* Every answer is computed from all the tokens fed and nothing else.
THEOREM Answers ==
  ASSUME LoopMayFail = FALSE
  PROVE  Spec => []AnswersFed
<1>1. IInv => AnswersFed
  BY DEF IInv
<1> QED
  BY <1>1, Invariant, PTL

\* A call that answers extends the sequence by at least one token, and any
\* other step leaves it alone or starts it afresh: CachedModel is one
\* sequence of TokenSequences.
THEOREM Implementation ==
  ASSUME LoopMayFail = FALSE
  PROVE  Spec => Implements
<1> DEFINE S == {"sequence"}
           F == [s \in S |-> fed]
           B == [s \in S |-> basis]
<1>1. Init => Abstract!SeqInit
  BY DEF Init, Abstract!SeqInit, Abstract!Empty, Empty, Abstract!Junk, Junk,
         Abstract!Span, Span
<1>2. ASSUME IInv, IInv', Abstract!Longer(fed, fed')
      PROVE  Abstract!SeqNext
  <2>1. fed' \in TokensUpTo(Capacity) /\ basis' = fed'
    BY <1>2 DEF IInv, TypeOK, AnswersFed
  <2>2. F' \in [S -> Abstract!TokensUpTo(Capacity)]
    BY <2>1 DEF TokensUpTo, Abstract!TokensUpTo, Span, Abstract!Span
  <2>3. B' = [s \in S |-> IF s \in S THEN F'[s] ELSE B[s]]
    BY <2>1
  <2>4. \A s \in S : Abstract!Longer(F[s], F'[s])
    BY <1>2
  <2>5. Abstract!Feed(S)
    BY <2>2, <2>3, <2>4 DEF Abstract!Feed
  <2>6. S \in SUBSET S
    OBVIOUS
  <2> QED
    BY <2>5, <2>6 DEF Abstract!SeqNext
<1>3. ASSUME IInv, [Next]_vars, IInv'
      PROVE  [Abstract!SeqNext]_Abstract!seqVars
  <2>1. CASE UNCHANGED <<fed, basis>>
    BY <2>1 DEF Abstract!seqVars
  <2>2. CASE BlockRead
    <3>1. /\ fed' = Extend(fed, pos, op.toks)
          /\ Len(op.toks) \in 1 .. Rows
      BY <1>3, <2>2, BlockReadKeeps, BlockIsSeq
    <3>2. fed \in [Span(pos) -> Token] /\ pos \in Nat
      BY <1>3, FedIsPrefix DEF IInv, TypeOK
    <3>3. DOMAIN fed' = Span(pos + Len(op.toks)) /\ \A i \in Span(pos) : fed'[i] = fed[i]
      BY <3>1, <3>2 DEF Extend, Span
    <3>4. Span(pos) \subseteq Span(pos + Len(op.toks))
          /\ pos \in Span(pos + Len(op.toks)) /\ pos \notin Span(pos)
      BY <3>1, <3>2 DEF Span
    <3>5. Abstract!Longer(fed, fed')
      BY <3>2, <3>3, <3>4 DEF Abstract!Longer
    <3> QED
      BY <1>2, <1>3, <3>5
  <2>3. CASE LoopRead
    <3>1. fed' = Consumed(op.n) /\ op.n \in 1 .. Capacity
      BY <1>3, <2>3, LoopReadKeeps
    <3>2. fed \in [Span(pos) -> Token] /\ pos \in Nat
      BY <1>3, FedIsPrefix DEF IInv, TypeOK
    <3>3. DOMAIN fed' = Span(pos + op.n) /\ \A i \in Span(pos) : fed'[i] = fed[i]
      BY <3>1, <3>2 DEF Consumed, Span
    <3>4. Span(pos) \subseteq Span(pos + op.n)
          /\ pos \in Span(pos + op.n) /\ pos \notin Span(pos)
      BY <3>1, <3>2 DEF Span
    <3>5. Abstract!Longer(fed, fed')
      BY <3>2, <3>3, <3>4 DEF Abstract!Longer
    <3> QED
      BY <1>2, <1>3, <3>5
  <2>4. CASE Reset
    <3>1. fed' = Empty /\ basis' = Empty
      BY <1>3, <2>4, ResetKeeps
    <3>2. Abstract!Restart("sequence")
      BY <3>1 DEF Abstract!Restart, Abstract!Empty, Empty, Abstract!Junk, Junk,
                  Abstract!Span, Span
    <3> QED
      BY <3>2 DEF Abstract!SeqNext
  <2>5. ASSUME NEW toks \in Blocks, BlockLaunch(toks) PROVE UNCHANGED <<fed, basis>>
    BY <2>5 DEF BlockLaunch, seqVars
  <2>6. ASSUME NEW seed \in Token, NEW n \in 1 .. Capacity, LoopSeed(seed, n)
        PROVE  UNCHANGED <<fed, basis>>
    BY <2>6 DEF LoopSeed, seqVars
  <2>7. ASSUME NEW out \in Token, LoopLaunch(out) PROVE UNCHANGED <<fed, basis>>
    BY <2>7 DEF LoopLaunch, seqVars
  <2>8. LoopFill \/ Fail \/ UNCHANGED vars => UNCHANGED <<fed, basis>>
    BY DEF LoopFill, Fail, vars, seqVars
  <2> QED
    BY <1>3, <2>1, <2>2, <2>3, <2>4, <2>5, <2>6, <2>7, <2>8 DEF Next
<1>4. Spec => []IInv
  BY Invariant
<1> QED
  BY <1>1, <1>3, <1>4, PTL DEF Spec, Implements, Abstract!SeqSpec
=============================================================================
