------------------------------- MODULE Tensors -------------------------------
(***************************************************************************)
(* The nodes the graph builders use, as functions of small tensors.  They  *)
(* are kernels of the Synapse libraries, not code of this repository: each *)
(* one is what the builders (model.rs, cached.rs, batched.rs, tp.rs) rely  *)
(* on it to compute.                                                       *)
(*                                                                         *)
(* A tensor is [sz, at]: its sizes, the fastest-changing dimension first   *)
(* as Synapse orders them, and its elements in memory order.  Elements are *)
(* residues modulo the prime P, so that sums and products obey the laws of *)
(* arithmetic exactly and in any order; rounding to bf16 is left out, and  *)
(* the functions that have no algebraic law the graphs depend on (exp,     *)
(* 1/x, 1/sqrt) are arbitrary functions of the residues.  What the graphs  *)
(* do depend on is kept: 0.5 * (1 + tanh(u)) = sigmoid(2u), the mask value *)
(* whose exponential is exactly zero, and the soft maximum's invariance.   *)
(***************************************************************************)
EXTENDS Integers, Sequences, TLC

P == 251

\* MASK_NEG: added to a score it leaves itself, and its exponential is zero.
Neg == -1

Plus(a, b) == IF a = Neg \/ b = Neg THEN Neg ELSE (a + b) % P
Times(a, b) == (a * b) % P
Exp(x) == IF x = Neg THEN 0 ELSE (x * x * 3 + 5 * x + 7) % P
Recip(x) == (x * x * 11 + 2 * x + 9) % P
Half == (P + 1) \div 2
Sigmoid(x) == Recip((1 + Exp((P - x) % P)) % P)
Tanh(x) == (2 * Sigmoid((2 * x) % P) + P - 1) % P
\* 1 / sqrt(mean of the squares + eps), from the sum of n squares.
InvRms(sum, n) == (sum * sum * 5 + 7 * sum + 13 * n + 1) % P

\* A sequence whose elements TLC computes once.
Elements(n, f(_)) == [k \in 1..n |-> f(k - 1)] \o <<>>

\* f(0) + ... + f(n - 1)
Total(n, f(_)) ==
    LET sum[k \in 0..n] == IF k = 0 THEN 0 ELSE (sum[k-1] + f(k-1)) % P
    IN  sum[n]

\* first, taken n times through f(_, k), k = 1..n.
Stepped(n, first, f(_, _)) ==
    LET upto[k \in 0..n] == IF k = 0 THEN first ELSE f(upto[k-1], k)
    IN  upto[n]

\* The distance in memory between neighbours along dimension d, and the number
\* of elements of a tensor of sizes sz.
Stride(sz, d) ==
    LET prod[k \in 1..d] == IF k = 1 THEN 1 ELSE prod[k-1] * sz[k-1]
    IN  prod[d]
Count(sz) == Stride(sz, Len(sz) + 1)

Tensor(sz, f(_)) == [sz |-> sz, at |-> Elements(Count(sz), f)]

\* Where the elements of a tensor of sizes out lie in an operand of sizes sz,
\* whose dimensions of size 1 are broadcast.
Spread(sz, out) ==
    LET n == Len(sz)
        far == Elements(n, LAMBDA d : Stride(out, d + 1))
        near == Elements(n, LAMBDA d : Stride(sz, d + 1))
        upto(i) == LET at[d \in 0..n] ==
                         IF d = 0 THEN 0
                         ELSE at[d-1] + (((i \div far[d]) % out[d]) % sz[d]) * near[d]
                   IN  at[n]
    IN  IF sz = out THEN Elements(Count(out), LAMBDA i : i)
        ELSE Elements(Count(out), upto)

At(t, i) == t.at[i + 1]
Outer(sz) == SubSeq(sz, 3, Len(sz))

Pointwise(sz, a, b, op(_, _)) ==
    LET pa == Spread(a.sz, sz)
        pb == Spread(b.sz, sz)
    IN  Tensor(sz, LAMBDA i : op(At(a, pa[i + 1]), At(b, pb[i + 1])))

\* gemm and batch_gemm: [K, M, ..] by [K, N, ..] (B transposed) or by
\* [N, K, ..], into [N, M, ..].
MatMul(sz, a, b, transposed) ==
    LET k == a.sz[1]
        pa == Spread(Outer(a.sz), Outer(sz))
        pb == Spread(Outer(b.sz), Outer(sz))
        along == IF transposed THEN 1 ELSE sz[1]
        dot(p, q) == Total(k, LAMBDA j : At(a, p + j) * At(b, q + along * j))
    IN  Tensor(sz, LAMBDA i :
            LET n == i % sz[1]
                m == (i \div sz[1]) % sz[2]
                o == i \div (sz[1] * sz[2]) + 1
            IN  dot(k * (m + sz[2] * pa[o]),
                    k * sz[1] * pb[o] + (IF transposed THEN k * n ELSE n)))

\* rms_norm_fwd: every run of the fastest dimension over its root mean square.
RmsNorm(x, gain) ==
    LET n == x.sz[1]
        inv == Elements(Count(x.sz) \div n, LAMBDA r :
                   InvRms(Total(n, LAMBDA j : At(x, r * n + j) * At(x, r * n + j)), n))
    IN  Tensor(x.sz, LAMBDA i : Times(At(x, i), inv[i \div n + 1] * At(gain, i % n)))

\* Its second output, one inverse root mean square per run.
InvRmsOf(x) ==
    LET n == x.sz[1]
    IN  Tensor(<<1, Count(x.sz) \div n>>, LAMBDA r :
            InvRms(Total(n, LAMBDA j : At(x, r * n + j) * At(x, r * n + j)), n))

\* rope_st2_fwd: x * cos + rotate_half(x) * sin, the tables broadcast.
RotateHalf(x, i) ==
    LET n == x.sz[1]
        d == i % n
    IN  IF d < n \div 2 THEN (P - At(x, i + n \div 2)) % P ELSE At(x, i - n \div 2)
Rope(x, sin, cos) ==
    LET ps == Spread(sin.sz, x.sz)
        pc == Spread(cos.sz, x.sz)
    IN  Tensor(x.sz, LAMBDA i : (At(x, i) * At(cos, pc[i + 1])
                                  + RotateHalf(x, i) * At(sin, ps[i + 1])) % P)

\* softmax_fwd over the fastest dimension.
Softmax(x) ==
    LET n == x.sz[1]
        inv == Elements(Count(x.sz) \div n, LAMBDA r :
                   Recip(Total(n, LAMBDA j : Exp(At(x, r * n + j)))))
    IN  Tensor(x.sz, LAMBDA i : Times(Exp(At(x, i)), inv[i \div n + 1]))

\* sdpa_recomp_fwd: the fused attention over q [hd, t, hpg, groups, ..], k and
\* v [hd, keys, 1, groups, ..] and, when given, the additive mask.
Sdpa(q, k, v, mask) ==
    LET sz == <<k.sz[2]>> \o Tail(q.sz)
        scores == MatMul(sz, q, k, TRUE)
        masked == IF mask = <<>> THEN scores ELSE Pointwise(sz, scores, mask[1], Plus)
    IN  MatMul(q.sz, Softmax(masked), v, FALSE)

\* transpose with permutation [0, 2, 1] of a three-dimensional tensor.
Transpose(x) ==
    LET sz == <<x.sz[1], x.sz[3], x.sz[2]>>
    IN  Tensor(sz, LAMBDA i :
            LET row == (i \div sz[1]) % sz[2]
                slab == i \div (sz[1] * sz[2])
            IN  At(x, (i % sz[1]) + sz[1] * (slab + sz[3] * row)))

\* The part of x from position `from` of dimension axis (from 0), as split
\* cuts it into an output of sizes sz.
Cut(x, axis, from, sz) ==
    LET inner == Stride(sz, axis + 1)
        n == sz[axis + 1]
    IN  Tensor(sz, LAMBDA i :
            LET here == from + ((i \div inner) % n)
                slab == i \div (inner * n)
            IN  At(x, (i % inner) + inner * (here + x.sz[axis + 1] * slab)))

\* concat of equally wide operands along the fastest dimension.
Concat(sz, a) ==
    LET n == a[1].sz[1]
    IN  Tensor(sz, LAMBDA i :
            LET col == i % sz[1]
            IN  At(a[(col \div n) + 1], (col % n) + n * (i \div sz[1])))

\* A matrix stored the other way round, as transpose_a of gemm reads it.
Flipped(x) ==
    Tensor(<<x.sz[2], x.sz[1]>>, LAMBDA i :
        At(x, (i \div x.sz[2]) + x.sz[1] * (i % x.sz[2])))

\* gather_fwd along dimension axis (from 0) at the positions in idx.
Gather(x, axis, idx, sz) ==
    LET inner == Stride(sz, axis + 1)
        n == sz[axis + 1]
    IN  Tensor(sz, LAMBDA i :
            LET here == At(idx, (i \div inner) % n)
                slab == i \div (inner * n)
            IN  At(x, (i % inner) + inner * (here + x.sz[axis + 1] * slab)))

\* scatter_nd_update_fwd: row u of the updates goes to the place the u-th index
\* names, the slowest dimension first as ONNX orders them.
ScatterNd(x, idx, upd) ==
    LET r == idx.sz[1]
        row == Stride(x.sz, Len(x.sz) - r + 1)
        place[u \in 0..(idx.sz[2] - 1)] ==
          LET at[d \in 0..r] ==
                IF d = 0 THEN 0
                ELSE at[d-1] + At(idx, u * r + d - 1) * Stride(x.sz, Len(x.sz) - d + 1)
          IN  at[r]
        last(i) == {u \in DOMAIN place : place[u] <= i /\ i < place[u] + row}
    IN  Tensor(x.sz, LAMBDA i :
            IF last(i) = {} THEN At(x, i)
            ELSE LET u == CHOOSE u \in last(i) : \A o \in last(i) : o <= u
                 IN  At(upd, u * row + i - place[u]))

\* argmax_fwd over the fastest dimension: the first of the largest.
ArgMax(x) ==
    LET n == x.sz[1]
    IN  Tensor(<<1>> \o Tail(x.sz), LAMBDA r :
            CHOOSE j \in 0..(n - 1) :
                /\ \A o \in 0..(n - 1) : At(x, r * n + o) <= At(x, r * n + j)
                /\ \A o \in 0..(j - 1) : At(x, r * n + o) < At(x, r * n + j))

-----------------------------------------------------------------------------
(***************************************************************************)
(* A node is [op, par, in, out, sz]: the kernel, its axis where it has     *)
(* one, the names of its operands and of its outputs, and their sizes.     *)
(***************************************************************************)
Node(op, in, out, sz) ==
    << [op |-> op, par |-> 0, in |-> in, out |-> <<out>>, sz |-> <<sz>>] >>

\* What the node computes from its operands: the sequence of its outputs.
Outputs(node, a) ==
    LET sz == node.sz[1]
        one(t) == <<t>>
    IN  CASE node.op = "gemm" -> one(MatMul(sz, a[1], a[2], TRUE))
          [] node.op = "gemm_plain" -> one(MatMul(sz, a[1], a[2], FALSE))
          [] node.op = "gemm_ta" -> one(MatMul(sz, Flipped(a[1]), a[2], FALSE))
          [] node.op = "gemm_tab" -> one(MatMul(sz, Flipped(a[1]), a[2], TRUE))
          [] node.op = "concat" -> one(Concat(sz, a))
          [] node.op = "add" -> one(Pointwise(sz, a[1], a[2], Plus))
          [] node.op = "mult" -> one(Pointwise(sz, a[1], a[2], Times))
          [] node.op = "sub" -> one(Pointwise(sz, a[1], a[2], LAMBDA x, y : (x + P - y) % P))
          [] node.op = "rms_norm" -> one(RmsNorm(a[1], a[2]))
          [] node.op = "rms_norm_inv" -> <<RmsNorm(a[1], a[2]), InvRmsOf(a[1])>>
          [] node.op = "rope" -> one(Rope(a[1], a[2], a[3]))
          [] node.op = "softmax" -> one(Softmax(a[1]))
          [] node.op = "sdpa" -> one(Sdpa(a[1], a[2], a[3], SubSeq(a, 4, Len(a))))
          [] node.op = "sigmoid" -> one(Tensor(sz, LAMBDA i : Sigmoid(At(a[1], i))))
          [] node.op = "tanh" -> one(Tensor(sz, LAMBDA i : Tanh(At(a[1], i))))
          [] node.op \in {"reshape", "cast"} -> one([sz |-> sz, at |-> a[1].at])
          [] node.op = "transpose" -> one(Transpose(a[1]))
          [] node.op = "split" ->
                LET from[j \in DOMAIN node.sz] ==
                      IF j = 1 THEN 0 ELSE from[j-1] + node.sz[j-1][node.par + 1]
                IN  [j \in DOMAIN node.sz |-> Cut(a[1], node.par, from[j], node.sz[j])]
          [] node.op = "gather" -> one(Gather(a[1], node.par, a[2], sz))
          [] node.op = "scatter_nd" -> one(ScatterNd(a[1], a[2], a[3]))
          [] node.op = "argmax" -> one(ArgMax(a[1]))
=============================================================================
