------------------------------ MODULE TpGraphs ------------------------------
(***************************************************************************)
(* The recipes of the tensor-parallel decoder (tp.rs) and the shard of a   *)
(* model a rank holds (LlamaWeights::shard).  A layer is two recipes with  *)
(* an all-reduce after each: A ends in the rank's part of the attention's  *)
(* output projection (P1), B in its part of the MLP's (P2).  The weights   *)
(* and the caches carry layer 1's names in every launch; which layer they  *)
(* are is what they are bound to.                                          *)
(*                                                                         *)
(* A recipe is its persistent tensors (`has`: inputs with their data,      *)
(* scratch tensors with none) and its nodes.                               *)
(***************************************************************************)
EXTENDS StepGraphs

\* A persistent tensor of layer 1's name.
Nl(s) == Nm(s, 1)
Has(name, sz) == << [name |-> name, sz |-> sz, at |-> <<>>] >>

-----------------------------------------------------------------------------
\* The shard.

\* Rows and columns part * rank .. of a matrix, and an entry range of a vector.
RowsOf(mtx, part, cols, rank) == SubSeq(mtx, rank * part * cols + 1, (rank + 1) * part * cols)
VecPart(vec, part, rank) == IF vec = <<>> THEN <<>> ELSE RowsOf(vec, part, 1, rank)
\* A column window with its pitch: the view from the first row's window to the
\* end of the last row's, or gathered into a matrix of its own.
ColumnWindow(mtx, rows, all, part, rank, gather) ==
    LET view == SubSeq(mtx, rank * part + 1, rank * part + (rows - 1) * all + part)
    IN  IF gather THEN <<GatherColumns(view, rows, part, all), 0>> ELSE <<view, all>>

ShardLayer(w, h, i, rank, world, gather) ==
    LET q == QWidth(w) \div world
        kv == (w.n_kv_heads * w.head_dim) \div world
        in == i \div world
        wo == ColumnWindow(w.wo, h, QWidth(w), q, rank, gather)
        wd == ColumnWindow(w.wd, h, i, in, rank, gather)
    IN  [w EXCEPT !.n_heads = @ \div world, !.n_kv_heads = @ \div world,
                  !.wq = RowsOf(@, q, h, rank), !.wk = RowsOf(@, kv, h, rank),
                  !.wv = RowsOf(@, kv, h, rank), !.wg = RowsOf(@, in, h, rank),
                  !.wu = RowsOf(@, in, h, rank),
                  !.bq = VecPart(@, q, rank), !.bk = VecPart(@, kv, rank),
                  !.bv = VecPart(@, kv, rank),
                  !.wo = wo[1], !.wo_pitch = wo[2], !.wd = wd[1], !.wd_pitch = wd[2]]
\* The shard of rank (from 0): its model and its MLP width.
Shard(j, rank) ==
    [j EXCEPT !.m.layers = [k \in DOMAIN @ |-> ShardLayer(@[k], j.h, j.i, rank, j.world, j.gather)],
              !.i = @ \div j.world]

-----------------------------------------------------------------------------
\* The weights each recipe binds, in the order of its bind list.

AWeightNames(w) ==
    <<Nl("g1"), Nl("wq2"), Nl("wk2"), Nl("wv2"), Nl("wo")>>
    \o When(w.bq # <<>>, <<Nl("bq"), Nl("bk"), Nl("bv")>>)
    \o When(w.qn # <<>>, <<Nl("qn"), Nl("kn")>>)
\* Mutant: the value's and the key's bias change places.
SwappedBiases(w, h) ==
    <<w.g1, ScaledWq(w), w.wk, w.wv, ColInput(w.wo, h, QWidth(w), w.wo_pitch)>>
    \o When(w.bq # <<>>, <<Scaled(w.bq, QScale(w)), w.bv, w.bk>>)
    \o When(w.qn # <<>>, <<Scaled(w.qn, ScoreScale(w)), w.kn>>)
AWeightSources(w, h) ==
    <<w.g1, ScaledWq(w), w.wk, w.wv, ColInput(w.wo, h, QWidth(w), w.wo_pitch)>>
    \o When(w.bq # <<>>, <<Scaled(w.bq, QScale(w)), w.bk, w.bv>>)
    \o When(w.qn # <<>>, <<Scaled(w.qn, ScoreScale(w)), w.kn>>)
BWeightNames == <<Nl("g2"), Nl("wg"), Nl("wu"), Nl("wd")>>
BWeightSources(w, h, i) == <<w.g2, w.wg, w.wu, ColInput(w.wd, h, i, w.wd_pitch)>>

\* Layer 1's weights as the recipes' own inputs.
AWeightIns(w, h, rest) ==
    LET hd == w.head_dim  g == w.n_kv_heads
    IN  In(Nl("g1"), <<h>>, w.g1)
        \o In(Nl("wq2"), <<h, QWidth(w)>>, ScaledWq(w))
        \o In(Nl("wk2"), <<h, hd * g>>, w.wk) \o In(Nl("wv2"), <<h, hd * g>>, w.wv)
        \o In(Nl("wo"), <<QWidth(w), h>>, ColInput(w.wo, h, QWidth(w), w.wo_pitch))
        \o NormIns(1, w, rest)
BWeightIns(w, h, i) ==
    In(Nl("g2"), <<h>>, w.g2) \o In(Nl("wg"), <<h, i>>, w.wg) \o In(Nl("wu"), <<h, i>>, w.wu)
    \o In(Nl("wd"), <<i, h>>, ColInput(w.wd, h, i, w.wd_pitch))

-----------------------------------------------------------------------------
\* Recipe A.  s is "" for the rows the embedding recipe derives on the device
\* and "P" for those uploaded per block of a prefill.

TpShared(j, s, sdpa) ==
    [rope |-> <<Nl("SIN" \o s), Nl("COS" \o s)>>, local |-> <<>>, mask |-> <<Nl("MASK" \o s)>>,
     mask_window |-> <<>>, cache |-> j.cap, keys |-> 0, kidx |-> <<Nl("KIDX" \o s)>>,
     sdpa |-> sdpa, blocks |-> FALSE]

\* The residual stream with the last partial sum, rounded where one card's
\* graph rounds its branch.
Joined(name, part, to, sz) ==
    Node("cast", <<Nl(part)>>, Nl(name \o "b"), sz)
    \o Node("add", <<Nl(IF part = "P1" THEN "X" ELSE "H"), Nl(name \o "b")>>, to, sz)

\* A partial product over this rank's columns.
Partial(j, x, weight, mid, to, sz) ==
    IF j.bf16partial
    THEN Node("gemm", <<x, weight>>, mid, sz) \o Node("cast", <<mid>>, to, sz)
    ELSE Node("gemm", <<x, weight>>, to, sz)

CacheHas(w, cap, out, rest) ==
    LET sz == KSizes(w, cap + 1, rest)
    IN  Has(Nl("kci"), sz) \o Has(Nl("vci"), sz) \o Has(Nl("k" \o out), sz) \o Has(Nl("v" \o out), sz)

AHeads(w, sh, t, sz) ==
    Joined("p2", "P2", Nl("X"), sz)
    \o Node("rms_norm", <<Nl("X"), Nl("g1")>>, Nl("n1"), sz)
    \o SeparateProj(1, Nl("n1"), w, t) \o BiasNodes(1, w, t, <<>>)
    \o HeadNormNodes(1, w, t, <<>>) \o RopeNodes(1, w, sh, t, <<>>)
AAttention(w, sh, t) ==
    ScatterNodes(1, w, sh, t, <<>>) \o AttentionNodes(1, w, sh, t, <<>>) \o HeadsLast(1, w, t)
BuildA(j, t, s) ==
    LET w == j.m.layers[1]
        sz == <<j.h, t>>
        keys == j.cap + 1
        sh == TpShared(j, s, FusedSdpa(j, t = 1))
    IN  [has |-> Has(Nl("H"), sz) \o Has(Nl("P2"), sz) \o Has(Nl("X"), sz) \o Has(Nl("P1"), sz)
                 \o Has(Nl("SIN" \o s), <<w.head_dim, t>>) \o Has(Nl("COS" \o s), <<w.head_dim, t>>)
                 \o Has(Nl("MASK" \o s), <<keys, t, 1, 1>>)
                 \o Has(Nl("KIDX" \o s), <<3, t * w.n_kv_heads>>)
                 \o AWeightIns(w, j.h, <<>>) \o CacheHas(w, j.cap, "co", <<>>),
         nodes |-> AHeads(w, sh, t, sz) \o AAttention(w, sh, t)
                   \o Partial(j, Nl("attn"), Nl("wo"), Nl("o"), Nl("P1"), sz)]

\* The same for one token of each of b sequences.
BatchedHeadProj(w, b) ==
    LET hd == w.head_dim  g == w.n_kv_heads
        flat(s, heads) == Node("gemm", <<Nl("n1"), Nl("w" \o s \o "2")>>, Nl(s \o "2"), <<hd * heads, b>>)
        heads(s, sz) == Node("reshape", <<Nl(s \o "2")>>, Nl(s), sz)
    IN  flat("q", w.n_heads) \o flat("k", g) \o flat("v", g)
        \o heads("q", QSizes(w, 1, <<b>>)) \o heads("k", KSizes(w, 1, <<b>>))
        \o heads("v", KSizes(w, 1, <<b>>))
ABatchedHeads(w, sh, b, sz) ==
    Joined("p2", "P2", Nl("X"), sz)
    \o Node("rms_norm", <<Nl("X"), Nl("g1")>>, Nl("n1"), sz)
    \o BatchedHeadProj(w, b) \o BatchedHeads(1, w, sh, b)
ABatchedAttention(w, sh, b) ==
    BatchedAttention(1, w, sh, b) \o Node("reshape", <<Nl("at")>>, Nl("attn"), <<QWidth(w), b>>)
BuildABatched(j) ==
    LET w == j.m.layers[1]
        b == j.b
        sz == <<j.h, b>>
        sh == TpShared(j, "", FusedSdpa(j, FALSE))
    IN  [has |-> Has(Nl("H"), sz) \o Has(Nl("P2"), sz) \o Has(Nl("X"), sz) \o Has(Nl("P1"), sz)
                 \o Has(Nl("SIN"), <<w.head_dim, 1, 1, 1, b>>)
                 \o Has(Nl("COS"), <<w.head_dim, 1, 1, 1, b>>)
                 \o Has(Nl("MASK"), <<j.cap + 1, 1, 1, 1, b>>)
                 \o Has(Nl("KIDX"), <<4, w.n_kv_heads * b>>)
                 \o AWeightIns(w, j.h, <<b>>) \o CacheHas(w, j.cap, "co", <<b>>),
         nodes |-> ABatchedHeads(w, sh, b, sz) \o ABatchedAttention(w, sh, b)
                   \o Partial(j, Nl("attn"), Nl("wo"), Nl("o"), Nl("P1"), sz)]

\* Recipe B: H = X + P1, the norm, this rank's part of the MLP.
BuildB(j, t) ==
    LET w == j.m.layers[1]
        sz == <<j.h, t>>
        mid == <<j.i, t>>
    IN  [has |-> Has(Nl("X"), sz) \o Has(Nl("P1"), sz) \o Has(Nl("H"), sz) \o Has(Nl("P2"), sz)
                 \o BWeightIns(w, j.h, j.i),
         nodes |-> Joined("p1", "P1", Nl("H"), sz)
                   \o Node("rms_norm", <<Nl("H"), Nl("g2")>>, Nl("n2"), sz)
                   \o Node("gemm", <<Nl("n2"), Nl("wg")>>, Nl("gate"), mid)
                   \o Node("gemm", <<Nl("n2"), Nl("wu")>>, Nl("up"), mid)
                   \o Node("sigmoid", <<Nl("gate")>>, Nl("sg"), mid)
                   \o Node("mult", <<Nl("gate"), Nl("sg")>>, Nl("act"), mid)
                   \o Node("mult", <<Nl("act"), Nl("up")>>, Nl("gated"), mid)
                   \o Partial(j, Nl("gated"), Nl("wd"), Nl("down"), Nl("P2"), sz)]

\* The head over the residual stream with the last layer's partial sum.
BuildHeadTp(j, t) ==
    LET sz == <<j.h, t>>
    IN  [has |-> Has(Nl("H"), sz) \o Has(Nl("P2"), sz) \o HeadIns(j.m, j.h, j.v, TRUE)
                 \o Has(Gl("LOGITS"), <<j.v, t>>) \o Has(Gl("IDS"), <<t>>),
         nodes |-> Joined("p2_head_", "P2", Gl("x_head"), sz)
                   \o HeadNodes(Gl("x_head"), j.m, t, j.h, j.v, TRUE)]

-----------------------------------------------------------------------------
\* The embedding recipe: the residual stream's rows with nothing to add, and
\* what recipe A needs of the positions.

EmbedHas(j, b) ==
    LET sz == <<j.h, b>>
    IN  Has(Gl("IDS_IN"), <<b>>) \o Has(Gl("POS"), <<b>>) \o Has(Nl("H"), sz) \o Has(Nl("P2"), sz)
        \o (IF j.tied THEN LmHeadInput(j.m, j.h, j.v) ELSE <<>>) \o EmbedIns(j)
        \o In(Gl("ZERO"), sz, Elements(j.h * b, LAMBDA k : 0))
        \o TableIns(j) \o Has(Nl("SIN"), <<HeadDim(j), b>>) \o Has(Nl("COS"), <<HeadDim(j), b>>)
EmbedStart(j, b) ==
    EmbedNodes(j, b, Nl("H")) \o Node("cast", <<Gl("ZERO")>>, Nl("P2"), <<j.h, b>>)
    \o Gathered(1, Gl("SINT"), Gl("POS"), Nl("SIN"), <<HeadDim(j), b>>)
    \o Gathered(1, Gl("COST"), Gl("POS"), Nl("COS"), <<HeadDim(j), b>>)
\* The constant part of the scatter indices and the selector of the position.
KBase(g, b, r) ==
    Elements(r * g * b, LAMBDA e :
        LET u == e \div r  c == e % r
        IN  CASE c = r - 3 -> u % g [] c = r - 4 -> u \div g [] OTHER -> 0)
KSel(g, b, r) == Elements(r * g * b, LAMBDA e : IF e % r = r - 1 THEN 1 ELSE 0)

EmbedMask(keys) ==
    Node("sub", <<Gl("MASKI"), Gl("POS")>>, Gl("MASK_idx"), <<keys>>)
    \o Gathered(0, Gl("MASKP"), Gl("MASK_idx"), Nl("MASK"), <<keys>>)
EmbedIndex(g) ==
    Node("reshape", <<Gl("POS")>>, Gl("pos_2d"), <<1, 1>>)
    \o Node("mult", <<Gl("KSEL"), Gl("pos_2d")>>, Gl("kidx_pos"), <<3, g>>)
    \o Node("add", <<Gl("KBASE"), Gl("kidx_pos")>>, Nl("KIDX"), <<3, g>>)
BuildEmbed(j) ==
    LET keys == j.cap + 1  g == Groups(j)
    IN  [has |-> EmbedHas(j, 1) \o MaskRowIns("MASK", keys, 0, <<>>) \o Has(Nl("MASK"), <<keys>>)
                 \o In(Gl("KBASE"), <<3, g>>, KBase(g, 1, 3)) \o In(Gl("KSEL"), <<3, g>>, KSel(g, 1, 3))
                 \o Has(Nl("KIDX"), <<3, g>>),
         nodes |-> EmbedStart(j, 1)
                   \o EmbedMask(keys) \o EmbedIndex(g)]
EmbedBatchedMask(keys, b) ==
    Node("reshape", <<Gl("POS")>>, Gl("pos_2d"), <<1, b>>)
    \o Node("sub", <<Gl("MASKI"), Gl("pos_2d")>>, Gl("MASK_idx"), <<keys, b>>)
    \o Node("reshape", <<Gl("MASK_idx")>>, Gl("MASK_flat"), <<keys * b>>)
    \o Gathered(0, Gl("MASKP"), Gl("MASK_flat"), Nl("MASK"), <<keys * b>>)
EmbedBatchedIndex(g, b) ==
    Node("reshape", <<Gl("POS")>>, Gl("pos_3d"), <<1, 1, b>>)
    \o Node("mult", <<Gl("KSEL"), Gl("pos_3d")>>, Gl("kidx_pos"), <<4, g, b>>)
    \o Node("reshape", <<Gl("kidx_pos")>>, Gl("kidx_pos2"), <<4, g * b>>)
    \o Node("add", <<Gl("KBASE"), Gl("kidx_pos2")>>, Nl("KIDX"), <<4, g * b>>)
BuildEmbedBatched(j) ==
    LET keys == j.cap + 1  g == Groups(j)  b == j.b
    IN  [has |-> EmbedHas(j, b) \o MaskRowIns("MASK", keys, 0, <<b>>) \o Has(Nl("MASK"), <<keys * b>>)
                 \o In(Gl("KBASE"), <<4, g * b>>, KBase(g, b, 4))
                 \o In(Gl("KSEL"), <<4, g, b>>, KSel(g, b, 4)) \o Has(Nl("KIDX"), <<4, g * b>>),
         nodes |-> EmbedStart(j, b)
                   \o EmbedBatchedMask(keys, b) \o EmbedBatchedIndex(g, b)]
=============================================================================
