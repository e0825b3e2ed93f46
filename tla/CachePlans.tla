----------------------------- MODULE CachePlans -----------------------------
(***************************************************************************)
(* CachePlan (reng-model/src/lib.rs): what a KV cache of a capacity costs  *)
(* on one card, and the largest one that fits.  A plan is a record: the    *)
(* shape of the model (layers, n_kv_heads, head_dim, n_heads, vocab), the  *)
(* rows of the widest recipe, the masks a recipe holds, the sequences of   *)
(* the batched path (0 for the single one), the ceiling the caller asked   *)
(* for, and the bytes of the weights, of the card and held in reserve.     *)
(***************************************************************************)
EXTENDS Integers

CONSTANTS MinCapacity,   \* the smallest bucket
          MaxKeyBuckets  \* wide recipes a single-sequence model may hold

\* A model has layers and heads, a card a size; a caller asks for positions.
Plan ==
  [layers : Nat \ {0}, n_kv_heads : Nat \ {0}, head_dim : Nat \ {0}, n_heads : Nat, vocab : Nat,
   masks : Nat, rows : Nat \ {0}, weight_bytes : Nat, batch : Nat, capacity : Nat \ {0},
   reserve_bytes : Nat, device_bytes : Nat]

ASSUME BucketAssumption == {MinCapacity, MaxKeyBuckets} \subseteq Nat \ {0}

Shape == INSTANCE KvCache WITH Token <- {0}, Garbage <- 1

Single(p) == p.batch = 0

BytesPerPosition(p) == 2 * p.n_kv_heads * p.head_dim * 2 * p.layers

\* Mutant: the bucket the cache grew from is not counted.
HalvesNow(p) == IF Single(p) THEN 4 ELSE 2 * p.batch + 4

\* buffers(), in halves: 2, or 1.5 for each sequence and the prefill pair.
Halves(p) == IF Single(p) THEN 4 ELSE 3 * p.batch + 4
CacheBytesAt(p, capacity) == (BytesPerPosition(p) * (capacity + 1) * Halves(p)) \div 2

\* The key columns of all the wide recipes, rounded up to whole buckets.
BucketKeys(p, keys) ==
  IF Single(p)
  THEN LET step == Shape!KeyStep(p.rows, keys, MaxKeyBuckets)
           n == Shape!DivCeil(keys, step)
       IN  (step * n * (n + 1)) \div 2
  ELSE keys
TransientBytesAt(p, capacity) ==
  LET keys == capacity + 1
  IN  2 * keys * p.rows * p.n_heads * 2 + p.masks * BucketKeys(p, keys) * p.rows * 2
      + BucketKeys(p, keys) * p.n_kv_heads * 4 + 6 * p.vocab * p.rows

TotalBytesAt(p, capacity) ==
  p.weight_bytes + CacheBytesAt(p, capacity) + TransientBytesAt(p, capacity) + p.reserve_bytes
FitsAt(p, capacity) == TotalBytesAt(p, capacity) <= p.device_bytes

AllocatedCapacity(p, need) ==
  IF Single(p) THEN p.capacity ELSE Shape!CacheBucket(need, MinCapacity, p.capacity)

\* max_capacity: doubled past what fits, then a bisection between lo, which
\* fits, and hi, which does not.
FirstHi(p) ==
  LET hi == Shape!Doubled(1) IN
  hi[CHOOSE k \in 0 .. p.device_bytes :
       ~FitsAt(p, hi[k]) /\ \A j \in Shape!Span(k) : FitsAt(p, hi[j])]
\* Mutant: the last half is not searched.
BisectCoarsely(p, lo, hi) ==
  LET f[r \in Nat \X Nat] ==
        IF r[1] + 2 >= r[2] THEN r[1]
        ELSE LET mid == r[1] + (r[2] - r[1]) \div 2
             IN  IF FitsAt(p, mid) THEN f[<<mid, r[2]>>] ELSE f[<<r[1], mid>>]
  IN  f[<<lo, hi>>]
Bisected(p, lo, hi) ==
  LET f[r \in Nat \X Nat] ==
        IF r[1] + 1 >= r[2] THEN r[1]
        ELSE LET mid == r[1] + (r[2] - r[1]) \div 2
             IN  IF FitsAt(p, mid) THEN f[<<mid, r[2]>>] ELSE f[<<r[1], mid>>]
  IN  f[<<lo, hi>>]
MaxCapacity(p) ==
  IF ~FitsAt(p, 0) THEN 0 ELSE Bisected(p, FirstHi(p) \div 2, FirstHi(p))
=============================================================================
