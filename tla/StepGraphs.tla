----------------------------- MODULE StepGraphs -----------------------------
(***************************************************************************)
(* The graphs over a KV cache and the rows the host writes for one launch  *)
(* of them: the block of cached.rs and of the batched prefill, the device  *)
(* loop of cached.rs, the batched step and the batched loop (batched.rs).  *)
(*                                                                         *)
(* j is a job: the model m with its sizes h, i and v, the switch sdpa      *)
(* ("on", "off", or "unset" for the recipe's own default), blocks, the     *)
(* RoPE tables sin, cos, sinl, cosl, the embedding rows and their scale.   *)
(***************************************************************************)
EXTENDS Launches

Smallest(a, b) == IF a < b THEN a ELSE b
HeadDim(j) == j.m.layers[1].head_dim
Groups(j) == j.m.layers[1].n_kv_heads

\* fused_sdpa: what RENG_SDPA says, or the recipe's default.
FusedSdpa(j, default) == IF j.sdpa = "unset" THEN default ELSE j.sdpa = "on"

\* The attention's shared tensors of a graph over a cache of cap positions.
CacheShared(j, cap, keys, sdpa) ==
    [rope |-> <<Gl("SIN"), Gl("COS")>>, local |-> <<Gl("SINL"), Gl("COSL")>>,
     mask |-> When(UsesFullMask(j.m.layers), <<Gl("MASK")>>),
     mask_window |-> When(CommonWindow(j.m.layers) # 0, <<Gl("MASKW")>>),
     cache |-> cap, keys |-> keys, kidx |-> <<Gl("KIDX")>>, sdpa |-> sdpa, blocks |-> j.blocks]

-----------------------------------------------------------------------------
\* The block recipe: rows positions over a cache, attending to its first keys
\* slots.

BlockNodes(j, rows, cap, inplace, keys, ids) ==
    LET sh == CacheShared(j, cap, IF keys < cap + 1 THEN keys ELSE 0, FusedSdpa(j, inplace))
        n == Len(j.m.layers)
    IN  StackNodes(j.m, sh, rows, j.h, j.i, n)
        \o HeadNodes(LayerOut(n), j.m, rows, j.h, j.v, ids)

\* build_prefill: the same over the whole bucket, never in place.
PrefillNodes(j, rows, cap) == BlockNodes(j, rows, cap, FALSE, cap + 1, TRUE)

\* The embedding rows of ids, scaled as the model scales them.
Embedded(j, ids) ==
    Elements(Len(ids) * j.h, LAMBDA k :
        Times(j.embed[ids[k \div j.h + 1] * j.h + (k % j.h) + 1], j.scale))

\* The rows of x, padded to p of them.
Padded(x, p, width) == Elements(p * width, LAMBDA k : IF k < Len(x) THEN x[k + 1] ELSE 0)

\* The table's rows at pos; none past the cache's end.
RopeHost(table, p, pos, cap, hd) ==
    Elements(p * hd, LAMBDA k :
        IF pos + k \div hd < cap THEN table[pos * hd + k + 1] ELSE 0)

\* Row q sees every position up to its own but neither the trash slot nor one
\* past the keys, and with a window none further back than it.
MaskEnd(at, keys, cap) == Smallest(Smallest(at + 1, cap), keys)
MaskStart(at, window) == IF window = 0 \/ at + 1 < window THEN 0 ELSE at + 1 - window
MaskRows(p, keys, cap, pos, window) ==
    Elements(p * keys, LAMBDA n :
        LET at == pos + n \div keys  k == n % keys
        IN  IF MaskStart(at, window) <= k /\ k < MaskEnd(at, keys, cap) THEN 0 ELSE Neg)
\* Filling a range that ends before it starts panics, padding rows included.
MaskFits(j, p, keys, cap, pos) ==
    \A q \in 0..(p - 1) :
        MaskStart(pos + q, CommonWindow(j.m.layers)) <= MaskEnd(pos + q, keys, cap)

\* Update r + p * g goes to (g, 0, position); padding to the trash slot.
ScatterIndex(p, n, cap, pos, groups) ==
    In(Gl("KIDX"), <<3, p * groups>>, Elements(3 * p * groups, LAMBDA e :
        LET u == e \div 3  r == u % p
        IN  CASE e % 3 = 0 -> u \div p
              [] e % 3 = 1 -> 0
              [] OTHER -> IF r < n THEN pos + r ELSE cap))

\* The first keys slots of every KV head's slab of the flattened cache.
\* Mutant: the slabs are taken to lie keys apart.
TightKeyWindow(keys, cap, groups) ==
    In(Gl("KWIN"), <<keys * groups>>, Elements(keys * groups, LAMBDA n : n))
KeyWindowIndex(keys, cap, groups) ==
    In(Gl("KWIN"), <<keys * groups>>,
       Elements(keys * groups, LAMBDA n : (n \div keys) * (cap + 1) + (n % keys)))

\* What the host uploads for a block of the rows x at pos, with what the
\* recipe got when it was built.
BlockIns(j, p, cap, keys, pos, x) ==
    LET hd == HeadDim(j)  g == Groups(j)  n == Len(x) \div j.h
        rope(name, table) == In(Gl(name), <<hd, p>>, RopeHost(table, p, pos, cap, hd))
        mask(name, w) == In(Gl(name), <<keys, p, 1, 1>>, MaskRows(p, keys, cap, pos, w))
    IN  In(Gl("X"), <<j.h, p>>, Padded(x, p, j.h))
        \o rope("SIN", j.sin) \o rope("COS", j.cos)
        \o When(UsesLocalRope(j.m.layers), rope("SINL", j.sinl) \o rope("COSL", j.cosl))
        \o mask("MASK", 0) \o mask("MASKW", CommonWindow(j.m.layers))
        \o ScatterIndex(p, n, cap, pos, g)
        \o When(keys < cap + 1, KeyWindowIndex(keys, cap, g))
        \o StackIns(j.m, j.blocks, j.h, j.i, <<>>, Len(j.m.layers))
        \o HeadIns(j.m, j.h, j.v, TRUE)

-----------------------------------------------------------------------------
\* The device loops: a launch works out its rows from ids and positions.

Gathered(axis, src, idx, out, sz) ==
    << [op |-> "gather", par |-> axis, in |-> <<src, idx>>, out |-> <<out>>, sz |-> <<sz>>] >>

\* The embedding rows of the ids, from the head's weights when they are tied.
EmbedIns(j) ==
    When(~j.tied, In(Gl("EMB"), <<j.h, j.v>>, j.embed))
    \o When(j.scale # 1, In(Gl("EMB_SCALE"), <<1, 1>>, <<j.scale>>))
EmbedNodes(j, b, to) ==
    LET row == IF j.scale = 1 THEN to ELSE Gl("emb_row")
        src == IF j.tied THEN Gl("LM") ELSE Gl("EMB")
    IN  Gathered(1, src, Gl("IDS_IN"), row, <<j.h, b>>)
        \o When(j.scale # 1,
              Node("cast", <<row>>, Gl("emb_f32"), <<j.h, b>>)
              \o Node("mult", <<Gl("emb_f32"), Gl("EMB_SCALE")>>, Gl("emb_scaled"), <<j.h, b>>)
              \o Node("cast", <<Gl("emb_scaled")>>, to, <<j.h, b>>))

\* A mask row is a stretch of keys elements of a static pattern, read from
\* base - position.
MaskPattern(keys, w) ==
    IF w = 0 THEN Elements(2 * keys, LAMBDA k : IF k < keys THEN 0 ELSE Neg)
    ELSE Elements(2 * keys + w, LAMBDA k : IF keys <= k /\ k < keys + w THEN 0 ELSE Neg)
MaskBase(keys, w) == keys - 1 + w
MaskRowIns(name, keys, w, rest) ==
    LET b == Count(rest)
    IN  In(Gl(name \o "P"), <<Len(MaskPattern(keys, w))>>, MaskPattern(keys, w))
        \o In(Gl(name \o "I"), <<keys>> \o rest,
              Elements(keys * b, LAMBDA k : MaskBase(keys, w) + (k % keys)))

LoopRows(layers) ==
    << <<"SIN", "SINT">>, <<"COS", "COST">> >>
    \o When(UsesLocalRope(layers), << <<"SINL", "SINLT">>, <<"COSL", "COSLT">> >>)
TableIns(j) ==
    LET len == Len(j.sin) \div HeadDim(j)
        tab(name, t) == In(Gl(name), <<HeadDim(j), len>>, t)
    IN  tab("SINT", j.sin) \o tab("COST", j.cos)
        \o When(UsesLocalRope(j.m.layers), tab("SINLT", j.sinl) \o tab("COSLT", j.cosl))

EachMask(layers, f(_, _)) ==
    When(UsesFullMask(layers), f("MASK", 0))
    \o When(CommonWindow(layers) # 0, f("MASKW", CommonWindow(layers)))
EachRope(layers, f(_, _)) ==
    LET rows == LoopRows(layers)
    IN  Stepped(Len(rows), <<>>, LAMBDA all, k : all \o f(rows[k][1], rows[k][2]))

\* build_loop: what it uploads once; IDS_IN and POS are bound to a ring slot
\* and a row of the position table before every launch.
LoopIns(j, cap) ==
    LET g == Groups(j)
    IN  EmbedIns(j) \o TableIns(j)
        \o EachMask(j.m.layers, LAMBDA name, w : MaskRowIns(name, cap + 1, w, <<>>))
        \o In(Gl("KBASE"), <<3, g>>, Elements(3 * g, LAMBDA e : IF e % 3 = 0 THEN e \div 3 ELSE 0))
        \o In(Gl("KSEL"), <<3, g>>, Elements(3 * g, LAMBDA e : IF e % 3 = 2 THEN 1 ELSE 0))
        \o StackIns(j.m, j.blocks, j.h, j.i, <<>>, Len(j.m.layers)) \o HeadIns(j.m, j.h, j.v, TRUE)

LoopMask(name, keys) ==
    Node("sub", <<Gl(name \o "I"), Gl("POS")>>, Gl(name \o "_idx"), <<keys>>)
    \o Gathered(0, Gl(name \o "P"), Gl(name \o "_idx"), Gl(name \o "_row"), <<keys>>)
    \o Node("reshape", <<Gl(name \o "_row")>>, Gl(name), <<keys, 1, 1, 1>>)
LoopIndex(g) ==
    Node("reshape", <<Gl("POS")>>, Gl("pos_2d"), <<1, 1>>)
    \o Node("mult", <<Gl("KSEL"), Gl("pos_2d")>>, Gl("kidx_pos"), <<3, g>>)
    \o Node("add", <<Gl("KBASE"), Gl("kidx_pos")>>, Gl("KIDX"), <<3, g>>)
LoopNodes(j, cap) ==
    LET layers == j.m.layers  n == Len(layers)
    IN  EmbedNodes(j, 1, Gl("X"))
        \o EachRope(layers, LAMBDA row, tab : Gathered(1, Gl(tab), Gl("POS"), Gl(row), <<HeadDim(j), 1>>))
        \o EachMask(layers, LAMBDA name, w : LoopMask(name, cap + 1))
        \o LoopIndex(Groups(j))
        \o StackNodes(j.m, CacheShared(j, cap, 0, FusedSdpa(j, TRUE)), 1, j.h, j.i, n)
        \o HeadNodes(LayerOut(n), j.m, 1, j.h, j.v, TRUE)

-----------------------------------------------------------------------------
\* The batched step: one position of each of the b sequences, at pos[1..b].

DecodeStack(j, cap) ==
    LET n == Len(j.m.layers)
        sh == CacheShared(j, cap, 0, FusedSdpa(j, FALSE))
    IN  Stepped(n, <<>>, LAMBDA nodes, k :
            nodes \o LayerBatchedNodes(k, LayerOut(k-1), j.m.layers[k], sh, j.h, j.i,
                                       j.b, LayerOut(k)))
DecodeNodes(j, cap) ==
    DecodeStack(j, cap) \o HeadNodes(LayerOut(Len(j.m.layers)), j.m, j.b, j.h, j.v, TRUE)

DecodeWeights(j) ==
    StackIns(j.m, FALSE, j.h, j.i, <<j.b>>, Len(j.m.layers)) \o HeadIns(j.m, j.h, j.v, TRUE)

\* Sequence s's row of a table, of a mask, and its place in the cache.
SlotIndex(j, pos) ==
    In(Gl("KIDX"), <<4, Groups(j) * j.b>>, Elements(4 * Groups(j) * j.b, LAMBDA e :
        LET u == e \div 4  s == u \div Groups(j)
        IN  CASE e % 4 = 0 -> s [] e % 4 = 1 -> u % Groups(j)
              [] e % 4 = 3 -> pos[s + 1] [] OTHER -> 0))
StepMask(j, keys, pos, w) ==
    Elements(keys * j.b, LAMBDA n :
        LET p == pos[n \div keys + 1]  k == n % keys
        IN  IF k <= p /\ (w = 0 \/ p < w + k) THEN 0 ELSE Neg)
DecodeIns(j, cap, pos, x) ==
    LET hd == HeadDim(j)  keys == cap + 1
        rope(name, table) ==
          In(Gl(name), <<hd, 1, 1, 1, j.b>>,
             Elements(hd * j.b, LAMBDA k : table[pos[k \div hd + 1] * hd + (k % hd) + 1]))
        mask(name, w) == In(Gl(name), <<keys, 1, 1, 1, j.b>>, StepMask(j, keys, pos, w))
    IN  In(Gl("X"), <<j.h, j.b>>, x)
        \o rope("SIN", j.sin) \o rope("COS", j.cos)
        \o When(UsesLocalRope(j.m.layers), rope("SINL", j.sinl) \o rope("COSL", j.cosl))
        \o EachMask(j.m.layers, mask) \o SlotIndex(j, pos) \o DecodeWeights(j)

\* The batched loop: the same rows worked out on the device.
DecodeLoopIns(j, cap) ==
    LET g == Groups(j)
        quad(name, f(_, _)) ==
          In(Gl(name), <<4, g, j.b>>, Elements(4 * g * j.b, LAMBDA e : f(e \div 4, e % 4)))
    IN  EmbedIns(j) \o TableIns(j)
        \o EachMask(j.m.layers, LAMBDA name, w : MaskRowIns(name, cap + 1, w, <<j.b>>))
        \o quad("KBASE", LAMBDA u, c : CASE c = 0 -> u \div g [] c = 1 -> u % g [] OTHER -> 0)
        \o quad("KSEL", LAMBDA u, c : IF c = 3 THEN 1 ELSE 0)
        \o DecodeWeights(j)

DecodeLoopMask(name, keys, b) ==
    Node("sub", <<Gl(name \o "I"), Gl("pos_2d")>>, Gl(name \o "_idx"), <<keys, b>>)
    \o Node("reshape", <<Gl(name \o "_idx")>>, Gl(name \o "_flat"), <<keys * b>>)
    \o Gathered(0, Gl(name \o "P"), Gl(name \o "_flat"), Gl(name \o "_rows"), <<keys * b>>)
    \o Node("reshape", <<Gl(name \o "_rows")>>, Gl(name), <<keys, 1, 1, 1, b>>)
DecodeLoopRope(row, tab, hd, b) ==
    Gathered(1, Gl(tab), Gl("POS"), Gl(row \o "_rows"), <<hd, b>>)
    \o Node("reshape", <<Gl(row \o "_rows")>>, Gl(row), <<hd, 1, 1, 1, b>>)
DecodeLoopIndex(g, b) ==
    Node("reshape", <<Gl("POS")>>, Gl("pos_3d"), <<1, 1, b>>)
    \o Node("mult", <<Gl("KSEL"), Gl("pos_3d")>>, Gl("kidx_pos"), <<4, g, b>>)
    \o Node("add", <<Gl("KBASE"), Gl("kidx_pos")>>, Gl("kidx_3d"), <<4, g, b>>)
    \o Node("reshape", <<Gl("kidx_3d")>>, Gl("KIDX"), <<4, g * b>>)
DecodeLoopNodes(j, cap) ==
    EmbedNodes(j, j.b, Gl("X"))
    \o EachRope(j.m.layers, LAMBDA row, tab : DecodeLoopRope(row, tab, HeadDim(j), j.b))
    \o Node("reshape", <<Gl("POS")>>, Gl("pos_2d"), <<1, j.b>>)
    \o EachMask(j.m.layers, LAMBDA name, w : DecodeLoopMask(name, cap + 1, j.b))
    \o DecodeLoopIndex(Groups(j), j.b) \o DecodeNodes(j, cap)
=============================================================================
