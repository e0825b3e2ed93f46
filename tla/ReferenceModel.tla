--------------------------- MODULE ReferenceModel ---------------------------
(***************************************************************************)
(* What a decoder layer and a whole model compute: the CPU reference of    *)
(* model.rs (layer_cpu, model_forward_cpu), over the residues of Tensors.  *)
(* Matrices are sequences in row-major order, a row per token.             *)
(***************************************************************************)
EXTENDS LayerGraph

\* Every run of n elements over its root mean square, with a gain.
NormRows(m, n, gain) ==
    LET inv == Elements(Len(m) \div n, LAMBDA r :
                   InvRms(Total(n, LAMBDA j : m[r * n + j + 1] * m[r * n + j + 1]), n))
    IN  Elements(Len(m), LAMBDA k : Times(m[k + 1], Times(inv[k \div n + 1], gain[(k % n) + 1])))
RmsRows(m, gain) == NormRows(m, Len(gain), gain)
\* Over every head with a gain of the head's width, or over the whole row.
HeadNormRows(m, gain) == IF gain = <<>> THEN m ELSE NormRows(m, Len(gain), gain)

\* a [tokens, kin] by the transpose of mtx [kout, kin].
MatMulRows(a, mtx, kin, kout) ==
    Elements((Len(a) \div kin) * kout, LAMBDA k :
        Total(kin, LAMBDA j : a[(k \div kout) * kin + j + 1] * mtx[(k % kout) * kin + j + 1]))

BiasRows(m, b, c) ==
    IF b = <<>> THEN m
    ELSE Elements(Len(m), LAMBDA k : (m[k + 1] + b[(k % Len(b)) + 1] * c) % P)

\* Rotate-half RoPE of every head of a [tokens, width] matrix.
RopeRows(m, width, hd, sin, cos) ==
    Elements(Len(m), LAMBDA k :
        LET tk == k \div width
            d == k % hd
            c == tk * hd + d + 1
            rot == IF d < hd \div 2 THEN P - m[k + hd \div 2 + 1] ELSE m[k - hd \div 2 + 1]
        IN  (m[k + 1] * cos[c] + rot * sin[c]) % P)

\* The keys query qi sees: up to it, and with a window no further back.
VisibleKeys(w, qi, tokens, causal) ==
    IF ~causal THEN 0..(tokens - 1)
    ELSE (IF w.window = 0 \/ qi + 1 <= w.window THEN 0 ELSE qi + 1 - w.window)..qi

\* The weights of every key for every head of every query, before they are
\* divided by their sum.
HeadDot(q, k, w, head, qi, ki) ==
    LET hd == w.head_dim
    IN  Total(hd, LAMBDA d :
            q[qi * QWidth(w) + head * hd + d + 1]
            * k[ki * w.n_kv_heads * hd + (head \div Hpg(w)) * hd + d + 1])
Capped(x, cap) == IF cap = 0 THEN x ELSE Times(Tanh(x), cap)
KeyWeights(q, k, w, tokens, causal) ==
    Elements(tokens * w.n_heads * tokens, LAMBDA n :
        LET ki == n % tokens
            head == (n \div tokens) % w.n_heads
            qi == n \div (tokens * w.n_heads)
        IN  IF ki \in VisibleKeys(w, qi, tokens, causal)
            THEN Exp(Capped(HeadDot(q, k, w, head, qi, ki), w.attn_softcap)) ELSE 0)

\* Attention of every head over the visible keys.
WeightedValues(weight, v, w, tokens) ==
    LET hd == w.head_dim
        qw == QWidth(w)
    IN  Elements(tokens * qw, LAMBDA n :
            LET head == (n % qw) \div hd
                base == ((n \div qw) * w.n_heads + head) * tokens + 1
                from == (head \div Hpg(w)) * hd + (n % hd) + 1
            IN  Times(Recip(Total(tokens, LAMBDA ki : weight[base + ki])),
                      Total(tokens, LAMBDA ki :
                          weight[base + ki] * v[ki * w.n_kv_heads * hd + from])))
AttendRows(q, k, v, w, tokens, causal) ==
    WeightedValues(KeyWeights(q, k, w, tokens, causal), v, w, tokens)

\* The two forms of the gate activation, in the closed form of each.
Act(act, g) ==
    IF act = "silu" THEN Times(g, Recip((1 + Exp((P - g) % P)) % P))
    ELSE LET cube == Times(GeluK, Times(g, Times(g, g)))
         IN  Times(Times(Half, g), (1 + Tanh(Times(GeluC, (g + cube) % P))) % P)

\* What a branch reads of the residual stream, and how it joins it.
BranchIn(x, w, g) == IF w.post_norm THEN x ELSE RmsRows(x, g)
OptNorm(m, gain) == IF gain = <<>> THEN m ELSE RmsRows(m, gain)
BranchOut(m, w, g, post) == OptNorm(IF w.post_norm THEN RmsRows(m, g) ELSE m, post)
SumRows(a, b) == Elements(Len(a), LAMBDA n : (a[n + 1] + b[n + 1]) % P)

RopedRows(m, width, w) ==
    IF w.use_rope THEN RopeRows(m, width, w.head_dim, w.sin, w.cos) ELSE m
QRows(n1, w, hidden) ==
    HeadNormRows(BiasRows(MatMulRows(n1, ScaledWq(w), hidden, QWidth(w)), w.bq, QScale(w)),
                 Scaled(w.qn, ScoreScale(w)))
KRows(n1, w, hidden, kvd) ==
    HeadNormRows(BiasRows(MatMulRows(n1, w.wk, hidden, kvd), w.bk, 1), w.kn)
AttnRows(n1, w, tokens, hidden, causal) ==
    LET qw == QWidth(w)
        kvd == w.n_kv_heads * w.head_dim
    IN  MatMulRows(
            AttendRows(RopedRows(QRows(n1, w, hidden), qw, w),
                       RopedRows(KRows(n1, w, hidden, kvd), kvd, w),
                       BiasRows(MatMulRows(n1, w.wv, hidden, kvd), w.bv, 1), w, tokens, causal),
            ColInput(w.wo, hidden, qw, w.wo_pitch), qw, hidden)
GatedRows(act, gate, up) ==
    Elements(Len(gate), LAMBDA n : Times(Act(act, gate[n + 1]), up[n + 1]))
MlpRows(n2, w, hidden, inter) ==
    MatMulRows(GatedRows(w.act, MatMulRows(n2, w.wg, hidden, inter),
                         MatMulRows(n2, w.wu, hidden, inter)),
               ColInput(w.wd, hidden, inter, w.wd_pitch), inter, hidden)

AttnHalf(x, w, tokens, hidden, causal) ==
    SumRows(x, BranchOut(AttnRows(BranchIn(x, w, w.g1), w, tokens, hidden, causal),
                         w, w.g1, w.g_post_attn))
MlpHalf(x, w, hidden, inter) ==
    SumRows(x, BranchOut(MlpRows(BranchIn(x, w, w.g2), w, hidden, inter),
                         w, w.g2, w.g_post_mlp))
LayerCpu(x, w, tokens, hidden, inter, causal) ==
    MlpHalf(AttnHalf(x, w, tokens, hidden, causal), w, hidden, inter)

\* The residual stream after the first n layers.
ProbeCpu(x, layers, tokens, hidden, inter, causal, n) ==
    Stepped(n, x, LAMBDA cur, k : LayerCpu(cur, layers[k], tokens, hidden, inter, causal))

HeadRows(cur, m, hidden, vocab) ==
    MatMulRows(RmsRows(cur, m.final_gamma), m.lm_head, hidden, vocab)
CappedRows(raw, cap) == IF cap = 0 THEN raw ELSE Elements(Len(raw), LAMBDA n : Capped(raw[n + 1], cap))
ModelForwardCpu(x, m, tokens, hidden, inter, vocab, causal) ==
    CappedRows(HeadRows(ProbeCpu(x, m.layers, tokens, hidden, inter, causal, Len(m.layers)),
                        m, hidden, vocab), m.final_softcap)
=============================================================================
