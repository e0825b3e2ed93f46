----------------------------- MODULE LayerGraph -----------------------------
(***************************************************************************)
(* The graph of one decoder layer, of the head and of the parts around     *)
(* them (model.rs): which tensors each declares and which nodes it         *)
(* appends, for every form a layer takes.  A graph is a record of its      *)
(* inputs with their host data, its scratch tensors with the memory each   *)
(* lies in, and its nodes in creation order.                               *)
(*                                                                         *)
(* The weights w of a layer are a record with the fields of LayerWeights;  *)
(* an absent gain, bias or softcap is <<>> or 0 as there.  `rest` is the   *)
(* fifth dimension of the batched layer: <<>> for one sequence, <<B>> for  *)
(* B of them.                                                              *)
(***************************************************************************)
EXTENDS Tensors

\* Tensors are named by the layer they belong to; -1 for the whole graph's.
Nm(s, li) == <<s, li>>
Gl(s) == <<s, -1>>

In(name, sz, data) == << [name |-> name, sz |-> sz, at |-> data] >>
Scratch(name, sz, of) == << [name |-> name, sz |-> sz, of |-> of] >>
When(cond, seq) == IF cond THEN seq ELSE <<>>
Ones(n) == [k \in 1..n |-> 1]
Scaled(data, c) == Elements(Len(data), LAMBDA k : Times(data[k + 1], c))
Inverse(c) == CHOOSE x \in 1..(P - 1) : (x * c) % P = 1

-----------------------------------------------------------------------------
\* The forms of a layer.

WideQkNorm(w) == w.qn # <<>> /\ Len(w.qn) # w.head_dim
HeadNorm(w) == w.qn # <<>> /\ ~WideQkNorm(w)
FusedQkv(w, blocks) == w.bq # <<>> /\ ~blocks /\ ~WideQkNorm(w)

\* The factor on q before the scores: with a softcap they come out divided by
\* the cap.
ScoreScale(w) ==
    IF w.attn_softcap = 0 THEN w.scale ELSE Times(w.scale, Inverse(w.attn_softcap))
\* With a q norm the scale rides on its gain: the norm would divide it out.
ScaledWq(w) == IF w.qn = <<>> THEN Scaled(w.wq, ScoreScale(w)) ELSE w.wq
QScale(w) == IF w.qn = <<>> THEN ScoreScale(w) ELSE 1
QkvWeight(w) == ScaledWq(w) \o w.wk \o w.wv

\* A column window of a row-major matrix, gathered row by row.
GatherColumns(data, rows, cols, pitch) ==
    Elements(rows * cols, LAMBDA k : data[(k \div cols) * pitch + (k % cols) + 1])
ColInput(data, rows, cols, pitch) ==
    IF pitch = 0 THEN data ELSE GatherColumns(data, rows, cols, pitch)

CommonWindow(layers) ==
    LET windows == {layers[k].window : k \in DOMAIN layers} \ {0}
    IN  IF windows = {} THEN 0 ELSE CHOOSE v \in windows : TRUE
UsesLocalRope(layers) == \E k \in DOMAIN layers : layers[k].local_rope
UsesFullMask(layers) == \E k \in DOMAIN layers : layers[k].window = 0

QWidth(w) == w.n_heads * w.head_dim
Hpg(w) == w.n_heads \div w.n_kv_heads
QSizes(w, t, rest) == <<w.head_dim, t, Hpg(w), w.n_kv_heads>> \o rest
KSizes(w, t, rest) == <<w.head_dim, t, 1, w.n_kv_heads>> \o rest

-----------------------------------------------------------------------------
\* The inputs of a layer with their host data.

ProjIns(li, w, blocks, h) ==
    LET hd == w.head_dim  g == w.n_kv_heads
        in(s, sz, data) == In(Nm(s, li), sz, data)
    IN  IF FusedQkv(w, blocks)
        THEN in("wqkv", <<h, hd * (w.n_heads + 2 * g)>>, QkvWeight(w))
        ELSE IF blocks /\ ~WideQkNorm(w)
        THEN in("wq", <<h, hd, Hpg(w), g>>, ScaledWq(w))
             \o in("wk", <<h, hd, 1, g>>, w.wk) \o in("wv", <<h, hd, 1, g>>, w.wv)
        ELSE in("wq2", <<h, QWidth(w)>>, ScaledWq(w))
             \o in("wk2", <<h, hd * g>>, w.wk) \o in("wv2", <<h, hd * g>>, w.wv)

NormIns(li, w, rest) ==
    LET hd == w.head_dim  g == w.n_kv_heads
        in(s, sz, data) == In(Nm(s, li), sz, data)
        wide == WideQkNorm(w)
    IN  When(w.qn # <<>>,
              in("qn", <<IF wide THEN QWidth(w) ELSE hd>>, Scaled(w.qn, ScoreScale(w)))
              \o in("kn", <<IF wide THEN hd * g ELSE hd>>, w.kn))
        \o When(w.bq # <<>>,
              in("bq", <<hd, 1, Hpg(w), g>> \o Ones(Len(rest)), Scaled(w.bq, QScale(w)))
              \o in("bk", <<hd, 1, 1, g>> \o Ones(Len(rest)), w.bk)
              \o in("bv", <<hd, 1, 1, g>> \o Ones(Len(rest)), w.bv))

\* The constants of the composed GELU: sigmoid(c1 * x + c3 * x^3) * x.
GeluC == 23
GeluK == 31
C1 == (2 * GeluC) % P
C3 == (GeluK * C1) % P

LayerIns(li, w, blocks, h, i, rest) ==
    LET in(s, sz, data) == In(Nm(s, li), sz, data)
        ones == Ones(4 + Len(rest))
    IN  in("g1", <<h>>, w.g1) \o in("g2", <<h>>, w.g2)
        \o ProjIns(li, w, blocks, h) \o NormIns(li, w, rest)
        \o in("wo", <<QWidth(w), h>>, ColInput(w.wo, h, QWidth(w), w.wo_pitch))
        \o in("wg", <<h, i>>, w.wg) \o in("wu", <<h, i>>, w.wu)
        \o in("wd", <<i, h>>, ColInput(w.wd, h, i, w.wd_pitch))
        \o When(w.attn_softcap # 0, in("softcap", ones, <<w.attn_softcap>>))
        \o When(w.act = "gelu_tanh",
                in("gelu_c1", <<1, 1>>, <<C1>>) \o in("gelu_c3", <<1, 1>>, <<C3>>))
        \o When(w.g_post_attn # <<>>, in("g_post_attn_norm", <<h>>, w.g_post_attn))
        \o When(w.g_post_mlp # <<>>, in("g_post_mlp_norm", <<h>>, w.g_post_mlp))

-----------------------------------------------------------------------------
\* From the block input to q, k and v by heads.

Norm1(li, x, w, h, cols) ==
    When(~w.post_norm, Node("rms_norm", <<x, Nm("g1", li)>>, Nm("n1", li), <<h, cols>>))

FusedProj(li, ain, w, t) ==
    LET hd == w.head_dim  g == w.n_kv_heads  nh == w.n_heads
        all == nh + 2 * g
        nm(s) == Nm(s, li)
    IN  Node("gemm", <<ain, nm("wqkv")>>, nm("qkv2"), <<hd * all, t>>)
        \o Node("reshape", <<nm("qkv2")>>, nm("qkv_heads"), <<hd, all, t>>)
        \o Node("transpose", <<nm("qkv_heads")>>, nm("qkv_tokens"), <<hd, t, all>>)
        \o << [op |-> "split", par |-> 2, in |-> <<nm("qkv_tokens")>>,
               out |-> <<nm("q_tokens"), nm("k_tokens"), nm("v_tokens")>>,
               sz |-> << <<hd, t, nh>>, <<hd, t, g>>, <<hd, t, g>> >>] >>
        \o Node("reshape", <<nm("q_tokens")>>, nm("q"), QSizes(w, t, <<>>))
        \o Node("reshape", <<nm("k_tokens")>>, nm("k"), KSizes(w, t, <<>>))
        \o Node("reshape", <<nm("v_tokens")>>, nm("v"), KSizes(w, t, <<>>))

BlocksProj(li, ain, w, t, h) ==
    LET nm(s) == Nm(s, li)
    IN  Node("reshape", <<ain>>, nm("n1_4"), <<h, t, 1, 1>>)
        \o Node("gemm", <<nm("n1_4"), nm("wq")>>, nm("q"), QSizes(w, t, <<>>))
        \o Node("gemm", <<nm("n1_4"), nm("wk")>>, nm("k"), KSizes(w, t, <<>>))
        \o Node("gemm", <<nm("n1_4"), nm("wv")>>, nm("v"), KSizes(w, t, <<>>))

\* One flat projection, its full-width norm where there is one, and its way
\* into the layout by heads.
FlatProj(li, ain, w, t, name, heads, gain, sz) ==
    LET hd == w.head_dim
        nm(s) == Nm(name \o s, li)
        src == IF gain THEN nm("2n") ELSE nm("2")
    IN  Node("gemm", <<ain, Nm("w" \o name \o "2", li)>>, nm("2"), <<hd * heads, t>>)
        \o When(gain, Node("rms_norm", <<nm("2"), nm("n")>>, nm("2n"), <<hd * heads, t>>))
        \o Node("reshape", <<src>>, nm("_heads"), <<hd, heads, t>>)
        \o Node("transpose", <<nm("_heads")>>, nm("_tokens"), <<hd, t, heads>>)
        \o Node("reshape", <<nm("_tokens")>>, Nm(name, li), sz)

SeparateProj(li, ain, w, t) ==
    LET wide == WideQkNorm(w)  g == w.n_kv_heads
    IN  FlatProj(li, ain, w, t, "q", w.n_heads, wide, QSizes(w, t, <<>>))
        \o FlatProj(li, ain, w, t, "k", g, wide, KSizes(w, t, <<>>))
        \o FlatProj(li, ain, w, t, "v", g, FALSE, KSizes(w, t, <<>>))

Proj(li, ain, w, blocks, t, h) ==
    IF FusedQkv(w, blocks) THEN FusedProj(li, ain, w, t)
    ELSE IF blocks /\ ~WideQkNorm(w) THEN BlocksProj(li, ain, w, t, h)
    ELSE SeparateProj(li, ain, w, t)

-----------------------------------------------------------------------------
\* Biases, per-head norms and RoPE on the heads; what each stage leaves.

BiasNodes(li, w, t, rest) ==
    LET nm(s) == Nm(s, li)
    IN  When(w.bq # <<>>,
          Node("add", <<nm("q"), nm("bq")>>, nm("qb"), QSizes(w, t, rest))
          \o Node("add", <<nm("k"), nm("bk")>>, nm("kb"), KSizes(w, t, rest))
          \o Node("add", <<nm("v"), nm("bv")>>, nm("vb"), KSizes(w, t, rest)))
Biased(li, w, name) == IF w.bq = <<>> THEN Nm(name, li) ELSE Nm(name \o "b", li)

HeadNormNodes(li, w, t, rest) ==
    When(HeadNorm(w),
      Node("rms_norm", <<Biased(li, w, "q"), Nm("qn", li)>>, Nm("qn_out", li), QSizes(w, t, rest))
      \o Node("rms_norm", <<Biased(li, w, "k"), Nm("kn", li)>>, Nm("kn_out", li),
              KSizes(w, t, rest)))
Normed(li, w, name) == IF HeadNorm(w) THEN Nm(name \o "n_out", li) ELSE Biased(li, w, name)

\* The layer's RoPE table: the second one for a local-rope layer.
SinCos(w, sh) == IF w.local_rope THEN sh.local ELSE sh.rope
RopeNodes(li, w, sh, t, rest) ==
    When(w.use_rope,
      Node("rope", <<Normed(li, w, "q")>> \o SinCos(w, sh), Nm("qr", li), QSizes(w, t, rest))
      \o Node("rope", <<Normed(li, w, "k")>> \o SinCos(w, sh), Nm("kr", li), KSizes(w, t, rest)))
Roped(li, w, name) == IF w.use_rope THEN Nm(name \o "r", li) ELSE Normed(li, w, name)

-----------------------------------------------------------------------------
\* The cache and the attention over it.

CacheScratch(li, w, slots, inplace, rest) ==
    LET sz == KSizes(w, slots, rest)
        one(in, out) ==
          Scratch(Nm(in, li), sz, Nm(in, li))
          \o Scratch(Nm(out, li), sz, IF inplace THEN Nm(in, li) ELSE Nm(out, li))
    IN  one("kci", "kco") \o one("vci", "vco")

ScatterNodes(li, w, sh, t, rest) ==
    LET rows == <<w.head_dim, t * w.n_kv_heads * Count(rest)>>
        one(s, src, in, upd, out) ==
          Node("reshape", <<src>>, Nm(upd, li), rows)
          \o Node("scatter_nd", <<Nm(in, li)>> \o sh.kidx \o <<Nm(upd, li)>>,
                  Nm(out, li), KSizes(w, sh.cache + 1, rest))
    IN  When(sh.kidx # <<>>,
          one("k", Roped(li, w, "k"), "kci", "kru", "kco")
          \o one("v", Biased(li, w, "v"), "vci", "vu", "vco"))
\* The keys or values the scores are computed from: the block's own, or the
\* cache the block has just been written to.
\* Mutant: the cache is read through the tensor the scatter reads.
FullFromInput(li, w, sh, own, name) == IF sh.kidx = <<>> THEN own ELSE Nm(name \o "ci", li)
Full(li, w, sh, own, name) == IF sh.kidx = <<>> THEN own ELSE Nm(name \o "co", li)

\* With a key window, the first keys slots of every KV head's slab.
Windowed(sh) == sh.cache # -1 /\ sh.keys # 0 /\ sh.keys < sh.cache + 1
WindowNodes(li, w, sh) ==
    LET hd == w.head_dim  g == w.n_kv_heads
        one(name) ==
          Node("reshape", <<Nm(name \o "co", li)>>, Nm(name \o "_flat", li),
               <<hd, (sh.cache + 1) * g>>)
          \o << [op |-> "gather", par |-> 1, in |-> <<Nm(name \o "_flat", li), Gl("KWIN")>>,
                 out |-> <<Nm(name \o "_picked", li)>>, sz |-> << <<hd, sh.keys * g>> >>] >>
          \o Node("reshape", <<Nm(name \o "_picked", li)>>, Nm(name \o "_win", li),
                  KSizes(w, sh.keys, <<>>))
    IN  When(Windowed(sh), one("k") \o one("v"))
Read(li, w, sh, own, name) ==
    IF Windowed(sh) THEN Nm(name \o "_win", li) ELSE Full(li, w, sh, own, name)
\* The key axis of the scores.
KeyAxis(sh, t) ==
    IF sh.cache = -1 THEN t ELSE IF sh.keys # 0 THEN sh.keys ELSE sh.cache + 1

MaskOf(w, sh) == IF w.window # 0 THEN sh.mask_window ELSE sh.mask

SoftcapNodes(li, x, sz) ==
    Node("tanh", <<x>>, Nm("sc_tanh", li), sz)
    \o Node("mult", <<Nm("sc_tanh", li), Nm("softcap", li)>>, Nm("sc_capped", li), sz)

AttentionNodes(li, w, sh, t, rest) ==
    LET nm(s) == Nm(s, li)
        k == Read(li, w, sh, Roped(li, w, "k"), "k")
        v == Read(li, w, sh, Biased(li, w, "v"), "v")
        q == Roped(li, w, "q")
        mask == MaskOf(w, sh)
        sz == <<KeyAxis(sh, t), t, Hpg(w), w.n_kv_heads>> \o rest
        capped == IF w.attn_softcap # 0 THEN nm("sc_capped") ELSE nm("scores")
        sm == IF mask = <<>> THEN capped ELSE nm("masked")
    IN  IF sh.sdpa /\ w.attn_softcap = 0
        THEN Node("sdpa", <<q, k, v>> \o mask, nm("at"), QSizes(w, t, rest))
        ELSE Node("gemm", <<q, k>>, nm("scores"), sz)
             \o When(w.attn_softcap # 0, SoftcapNodes(li, nm("scores"), sz))
             \o When(mask # <<>>, Node("add", <<capped>> \o mask, nm("masked"), sz))
             \o Node("softmax", <<sm>>, nm("probs"), sz)
             \o Node("gemm_plain", <<nm("probs"), v>>, nm("at"), QSizes(w, t, rest))

-----------------------------------------------------------------------------
\* The output projection, the residuals and the MLP, over cols columns.

HeadsLast(li, w, t) ==
    LET nm(s) == Nm(s, li)
    IN  Node("reshape", <<nm("at")>>, nm("at3"), <<w.head_dim, t, w.n_heads>>)
        \o Node("transpose", <<nm("at3")>>, nm("att"), <<w.head_dim, w.n_heads, t>>)
        \o Node("reshape", <<nm("att")>>, nm("attn"), <<QWidth(w), t>>)

PostNorm(li, x, name, sz) ==
    Node("rms_norm", <<x, Nm("g_" \o name, li)>>, Nm(name \o "_out", li), sz)

\* A branch joins the residual stream, with OLMo-2's norm of the branch output
\* (gain g) and Gemma's (named post) where the layer has them.
Residual(li, x, branch, w, g, normed, post, gain, out, sz) ==
    LET on == IF w.post_norm THEN Nm(normed, li) ELSE branch
        res == IF gain # <<>> THEN Nm(post \o "_out", li) ELSE on
    IN  When(w.post_norm, Node("rms_norm", <<branch, Nm(g, li)>>, Nm(normed, li), sz))
        \o When(gain # <<>>, PostNorm(li, on, post, sz))
        \o Node("add", <<x, res>>, out, sz)

OutProj(li, x, w, h, cols) ==
    Node("gemm", <<Nm("attn", li), Nm("wo", li)>>, Nm("o", li), <<h, cols>>)
    \o Residual(li, x, Nm("o", li), w, "g1", "on", "post_attn_norm", w.g_post_attn,
                Nm("h", li), <<h, cols>>)

GeluNodes(li, x, sz, out) ==
    LET nm(s) == Nm("gelu_" \o s, li)
    IN  Node("mult", <<x, x>>, nm("x2"), sz)
        \o Node("mult", <<nm("x2"), x>>, nm("x3"), sz)
        \o Node("mult", <<nm("x3"), nm("c3")>>, nm("a"), sz)
        \o Node("mult", <<x, nm("c1")>>, nm("b"), sz)
        \o Node("add", <<nm("a"), nm("b")>>, nm("u"), sz)
        \o Node("sigmoid", <<nm("u")>>, nm("sig"), sz)
        \o Node("mult", <<x, nm("sig")>>, out, sz)

ActivationNodes(li, act, x, sz, out) ==
    IF act = "silu"
    THEN Node("sigmoid", <<x>>, Nm("sg", li), sz) \o Node("mult", <<x, Nm("sg", li)>>, out, sz)
    ELSE GeluNodes(li, x, sz, out)

MlpNodes(li, w, h, i, cols, out) ==
    LET nm(s) == Nm(s, li)
        min == IF w.post_norm THEN nm("h") ELSE nm("n2")
    IN  When(~w.post_norm, Node("rms_norm", <<nm("h"), nm("g2")>>, nm("n2"), <<h, cols>>))
        \o Node("gemm", <<min, nm("wg")>>, nm("gate"), <<i, cols>>)
        \o Node("gemm", <<min, nm("wu")>>, nm("up"), <<i, cols>>)
        \o ActivationNodes(li, w.act, nm("gate"), <<i, cols>>, nm("act"))
        \o Node("mult", <<nm("act"), nm("up")>>, nm("gated"), <<i, cols>>)
        \o Node("gemm", <<nm("gated"), nm("wd")>>, nm("down"), <<h, cols>>)
        \o Residual(li, nm("h"), nm("down"), w, "g2", "dn", "post_mlp_norm", w.g_post_mlp,
                    out, <<h, cols>>)

-----------------------------------------------------------------------------
\* The layer over a block of t positions, and the one over B sequences.

LayerNodes(li, x, w, sh, t, h, i, out) ==
    LET ain == IF w.post_norm THEN x ELSE Nm("n1", li)
    IN  Norm1(li, x, w, h, t) \o Proj(li, ain, w, sh.blocks, t, h)
        \o BiasNodes(li, w, t, <<>>) \o HeadNormNodes(li, w, t, <<>>)
        \o RopeNodes(li, w, sh, t, <<>>) \o ScatterNodes(li, w, sh, t, <<>>)
        \o WindowNodes(li, w, sh) \o AttentionNodes(li, w, sh, t, <<>>)
        \o HeadsLast(li, w, t) \o OutProj(li, x, w, h, t) \o MlpNodes(li, w, h, i, t, out)

\* One gemm of M = B each: [hidden, B] already lies as [hd, 1, hpg, groups, B].
BatchedProj(li, ain, w, b) ==
    LET hd == w.head_dim  g == w.n_kv_heads  nh == w.n_heads
        nm(s) == Nm(s, li)
        wide == WideQkNorm(w)
        flat(s, heads, gain) ==
          Node("gemm", <<ain, nm("w" \o s \o "2")>>, nm(s \o "2"), <<hd * heads, b>>)
          \o When(gain, Node("rms_norm", <<nm(s \o "2"), nm(s \o "n")>>, nm(s \o "2n"),
                             <<hd * heads, b>>))
        src(s) == IF FusedQkv(w, FALSE) THEN nm(s \o "_heads")
                  ELSE IF wide /\ s # "v" THEN nm(s \o "2n") ELSE nm(s \o "2")
    IN  (IF FusedQkv(w, FALSE)
         THEN Node("gemm", <<ain, nm("wqkv")>>, nm("qkv2"), <<hd * (nh + 2 * g), b>>)
              \o Node("reshape", <<nm("qkv2")>>, nm("qkv_heads"), <<hd, nh + 2 * g, b>>)
              \o << [op |-> "split", par |-> 1, in |-> <<nm("qkv_heads")>>,
                     out |-> <<nm("q_heads"), nm("k_heads"), nm("v_heads")>>,
                     sz |-> << <<hd, nh, b>>, <<hd, g, b>>, <<hd, g, b>> >>] >>
         ELSE flat("q", nh, wide) \o flat("k", g, wide) \o flat("v", g, FALSE))
        \o Node("reshape", <<src("q")>>, nm("q"), QSizes(w, 1, <<b>>))
        \o Node("reshape", <<src("k")>>, nm("k"), KSizes(w, 1, <<b>>))
        \o Node("reshape", <<src("v")>>, nm("v"), KSizes(w, 1, <<b>>))

BatchedIns(li, w, h, i, b) == LayerIns(li, w, FALSE, h, i, <<b>>)
BatchedHeads(li, w, sh, b) ==
    BiasNodes(li, w, 1, <<b>>) \o HeadNormNodes(li, w, 1, <<b>>) \o RopeNodes(li, w, sh, 1, <<b>>)
BatchedAttention(li, w, sh, b) ==
    ScatterNodes(li, w, sh, 1, <<b>>) \o AttentionNodes(li, w, sh, 1, <<b>>)
BatchedTail(li, x, w, h, i, b, out) ==
    Node("reshape", <<Nm("at", li)>>, Nm("attn", li), <<QWidth(w), b>>)
    \o OutProj(li, x, w, h, b) \o MlpNodes(li, w, h, i, b, out)
LayerBatchedNodes(li, x, w, sh, h, i, b, out) ==
    LET ain == IF w.post_norm THEN x ELSE Nm("n1", li)
    IN  Norm1(li, x, w, h, b) \o BatchedProj(li, ain, w, b) \o BatchedHeads(li, w, sh, b)
        \o BatchedAttention(li, w, sh, b) \o BatchedTail(li, x, w, h, i, b, out)

-----------------------------------------------------------------------------
\* The head: final norm, LM head, softcap, and the argmax of a decode recipe.

LmHeadInput(m, h, v) == In(Gl("LM"), <<h, v>>, m.lm_head)
HeadIns(m, h, v, lm) ==
    In(Gl("GF"), <<h>>, m.final_gamma)
    \o When(lm, LmHeadInput(m, h, v))
    \o When(m.final_softcap # 0, In(Gl("FINAL_SOFTCAP"), <<1, 1>>, <<m.final_softcap>>))
HeadScratch(t, v, ids_out) == When(ids_out, Scratch(Gl("LOGITS"), <<v, t>>, Gl("LOGITS")))
HeadNodes(cur, m, t, h, v, ids_out) ==
    LET raw == IF m.final_softcap # 0 THEN Gl("logits_raw") ELSE Gl("LOGITS")
    IN  Node("rms_norm", <<cur, Gl("GF")>>, Gl("nf"), <<h, t>>)
        \o Node("gemm", <<Gl("nf"), Gl("LM")>>, raw, <<v, t>>)
        \o When(m.final_softcap # 0,
              Node("tanh", <<raw>>, Gl("logits_tanh"), <<v, t>>)
              \o Node("mult", <<Gl("logits_tanh"), Gl("FINAL_SOFTCAP")>>, Gl("LOGITS"), <<v, t>>))
        \o When(ids_out,
              Node("cast", <<Gl("LOGITS")>>, Gl("logits_f32"), <<v, t>>)
              \o Node("argmax", <<Gl("logits_f32")>>, Gl("IDS"), <<1, t>>))

\* The stack of layers: each reads what the one before it left.
StackIns(m, blocks, h, i, rest, n) ==
    Stepped(n, <<>>, LAMBDA ins, k : ins \o LayerIns(k, m.layers[k], blocks, h, i, rest))
LayerOut(k) == IF k = 0 THEN Gl("X") ELSE Nm("out", k)
StackNodes(m, sh, t, h, i, n) ==
    Stepped(n, <<>>, LAMBDA nodes, k :
        nodes \o LayerNodes(k, LayerOut(k-1), m.layers[k], sh, t, h, i, LayerOut(k)))
CacheStack(m, slots, inplace, rest) ==
    Stepped(Len(m.layers), <<>>, LAMBDA scratch, k :
        scratch \o CacheScratch(k, m.layers[k], slots, inplace, rest))
=============================================================================
