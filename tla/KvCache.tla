------------------------------ MODULE KvCache -------------------------------
(***************************************************************************)
(* What is in a KV cache, told apart only as far as the answers depend on  *)
(* it.  A position's key and value are computed from the tokens at that    *)
(* position and before it, so the content of a cache row is the function   *)
(* from positions to the tokens it was computed from: the row of position  *)
(* i, computed right, is the first i + 1 tokens of the sequence.  The      *)
(* layers, heads and numbers are the same for every row and are left out.  *)
(*                                                                         *)
(* Also the arithmetic of the compiled shapes (reng-synapse/src/lib.rs):   *)
(* key_step and key_bucket of the wide recipes, cache_bucket of the        *)
(* batched decoder.                                                        *)
(***************************************************************************)
EXTENDS Integers, Sequences

CONSTANTS
  Token,    \* the vocabulary
  Garbage   \* what was never a token: the sentinel, a row nobody computed

ASSUME TokenAssumption == Token # {} /\ Garbage \notin Token

\* What a device word may hold where a token id is expected.
Word == Token \cup {Garbage}

Span(n) == 0 .. n - 1

\* The tokens of the first n positions of f.
Prefix(f, n) == [i \in Span(n) |-> f[i]]

\* The first n tokens of f followed by the tokens more.
Extend(f, n, more) ==
  [i \in Span(n + Len(more)) |-> IF i < n THEN f[i] ELSE more[i - n + 1]]

\* What is computed from garbage.
Junk(n) == [i \in Span(n) |-> Garbage]

Empty == Junk(0)

\* The sequences of tokens a cache of n positions has room for.
TokensUpTo(n) == UNION {[Span(k) -> Token] : k \in 0 .. n}

\* A cache buffer of cap positions and the trash slot at cap.
Buffer(cap) == [0 .. cap -> UNION {[Span(k) -> Word] : k \in 0 .. cap + 1}]

FreshBuffer(cap) == [i \in 0 .. cap |-> Junk(i + 1)]

\* The first n rows of buf are those of the tokens f.
RowsOf(buf, n, f) == \A i \in Span(n) : buf[i] = Prefix(f, i + 1)

\* What a query at position n takes in from the n rows before it: they count
\* only if they are the rows of one sequence.
Seen(buf, n) ==
  IF n > 0 /\ RowsOf(buf, n, buf[n - 1])
  THEN buf[n - 1]
  ELSE Junk(n)

-----------------------------------------------------------------------------
(* One launch.                                                             *)

Least(a, b) == IF a < b THEN a ELSE b
Greatest(a, b) == IF a < b THEN b ELSE a

\* The positions row q of a block at pos is admitted to (mask_rows): up to
\* its own, but neither the trash slot nor a slot past the recipe's keys.
Visible(pos, q, cap, keys) == Least(Least(pos + q + 1, cap), keys)

\* The key and value of row q of the block toks at pos, over the rows in buf.
BlockRow(buf, pos, toks, q, cap, keys) ==
  IF Visible(pos, q, cap, keys) = pos + q + 1
  THEN Prefix(Extend(Seen(buf, pos), pos, toks), pos + q + 1)
  ELSE Junk(pos + q + 1)

\* The buffer a launch of the block leaves (ScatterND): the real rows at
\* their positions, padding in the trash slot, all else as it was in buf.
Scatter(buf, pos, toks, cap, keys) ==
  [i \in 0 .. cap |->
     IF i >= pos /\ i < pos + Len(toks)
     THEN BlockRow(buf, pos, toks, i - pos, cap, keys)
     ELSE buf[i]]

-----------------------------------------------------------------------------
(* Shapes.                                                                 *)

\* n.div_ceil(d)
DivCeil(n, d) == (n + d - 1) \div d

\* n doubled k times, by k.
Doubled(n) == LET d[k \in Nat] == IF k = 0 THEN n ELSE 2 * d[k - 1] IN d

\* key_step: rows doubled until at most maxBuckets buckets span full slots.
KeyStep(rows, full, maxBuckets) ==
  LET step == Doubled(rows) IN
  step[CHOOSE k \in 0 .. full :
         /\ DivCeil(full, step[k]) <= maxBuckets
         /\ \A j \in Span(k) : DivCeil(full, step[j]) > maxBuckets]

\* key_bucket: the multiple of step that holds need slots, or all of them.
KeyBucket(need, step, full) ==
  Least(DivCeil(Greatest(need, 1), step) * step, full)

\* cache_bucket: minCap doubled until it holds need positions, at most full.
CacheBucket(need, minCap, full) ==
  LET cap == Doubled(minCap) IN
  Least(cap[CHOOSE k \in 0 .. need :
              /\ cap[k] >= need
              /\ \A j \in Span(k) : cap[j] < need],
        full)
=============================================================================
