---------------------------- MODULE ForwardGraph ----------------------------
(***************************************************************************)
(* A whole prompt in one launch without a cache: model_forward_bf16 and    *)
(* model_probe_bf16 (model.rs).  The graph of the model is built for the   *)
(* prompt, its nodes run in creation order, and one tensor is read back.   *)
(*                                                                         *)
(* A job j is the model m with the prompt x, the sizes and the switches read *)
(* from the environment when the graph is built (RENG_HEAD_BLOCKS,         *)
(* RENG_SDPA).                                                             *)
(***************************************************************************)
EXTENDS Launches

\* The mask laid out like the scores, [key, query].
\* Mutant: a window of w admits the key w positions back.
WideMaskHost(tokens, window) ==
    Elements(tokens * tokens, LAMBDA n :
        LET q == n \div tokens  k == n % tokens
        IN  IF k <= q /\ (window = 0 \/ q - k <= window) THEN 0 ELSE Neg)
MaskHost(tokens, window) ==
    Elements(tokens * tokens, LAMBDA n :
        LET q == n \div tokens  k == n % tokens
        IN  IF k <= q /\ (window = 0 \/ q - k < window) THEN 0 ELSE Neg)

\* The first layer whose RoPE table is the local one, or is not.
TableOf(layers, local) ==
    LET those == {k \in DOMAIN layers : layers[k].local_rope = local}
    IN  IF those = {} THEN layers[1]
        ELSE layers[CHOOSE k \in those : \A o \in those : k <= o]

ForwardShared(j, causal) ==
    [rope |-> <<Gl("SIN"), Gl("COS")>>, local |-> <<Gl("SINL"), Gl("COSL")>>,
     mask |-> When(causal /\ UsesFullMask(j.m.layers), <<Gl("MASK")>>),
     mask_window |-> When(causal /\ CommonWindow(j.m.layers) # 0, <<Gl("MASKW")>>),
     cache |-> -1, keys |-> 0, kidx |-> <<>>, sdpa |-> j.sdpa, blocks |-> j.blocks]

BuildStack(j, causal, upto) ==
    LET t == j.tokens
        layers == j.m.layers
        table == TableOf(layers, FALSE)
        local == TableOf(layers, TRUE)
        tables(s, c, w) == In(Gl(s), <<w.head_dim, t>>, w.sin) \o In(Gl(c), <<w.head_dim, t>>, w.cos)
    IN  [ins |-> In(Gl("X"), <<j.h, t>>, j.x) \o tables("SIN", "COS", table)
                 \o When(UsesLocalRope(layers), tables("SINL", "COSL", local))
                 \o In(Gl("MASK"), <<t, t, 1, 1>>, MaskHost(t, 0))
                 \o In(Gl("MASKW"), <<t, t, 1, 1>>, MaskHost(t, CommonWindow(layers)))
                 \o StackIns(j.m, j.blocks, j.h, j.i, <<>>, upto),
         nodes |-> StackNodes(j.m, ForwardShared(j, causal), t, j.h, j.i, upto)]

\* Nothing is shared between the tensors of a graph without a cache.
Apart == [n \in {} |-> n]

ModelForward(j, causal) ==
    LET n == Len(j.m.layers)
        g == BuildStack(j, causal, n)
    IN  Ran(g.nodes \o HeadNodes(LayerOut(n), j.m, j.tokens, j.h, j.v, FALSE),
            Loaded(g.ins \o HeadIns(j.m, j.h, j.v, TRUE)), Apart)[Gl("LOGITS")].at

\* Mutant: the probe reads what the layer before it left.
EarlyProbe(j, causal, upto) ==
    LET g == BuildStack(j, causal, upto)
        zero == In(Gl("ZERO"), <<j.h, j.tokens>>, Elements(j.h * j.tokens, LAMBDA k : 0))
    IN  Ran(g.nodes \o Node("add", <<LayerOut(upto - 1), Gl("ZERO")>>, Gl("PROBE"), <<j.h, j.tokens>>),
            Loaded(g.ins \o zero), Apart)[Gl("PROBE")].at
ModelProbe(j, causal, upto) ==
    LET g == BuildStack(j, causal, upto)
        zero == In(Gl("ZERO"), <<j.h, j.tokens>>, Elements(j.h * j.tokens, LAMBDA k : 0))
    IN  Ran(g.nodes \o Node("add", <<LayerOut(upto), Gl("ZERO")>>, Gl("PROBE"), <<j.h, j.tokens>>),
            Loaded(g.ins \o zero), Apart)[Gl("PROBE")].at

=============================================================================
