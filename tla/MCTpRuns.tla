------------------------------ MODULE MCTpRuns ------------------------------
EXTENDS TpRuns

\* A stretch of n values that no permutation of rows, columns or heads keeps.
Stretch(seed, n) ==
    Elements(n, LAMBDA k : (seed * 37 + k * k * (3 + seed) + 11 * k * seed + 5 * k + 1) % P)

\* Sizes: hidden 3, head_dim 2, 4 query heads over 2 KV heads, MLP 4, 3 tokens
\* of vocabulary: each of two ranks has 2 query heads over 1 KV head and an
\* MLP 2 wide.
H == 3
HD == 2
NH == 4
NKV == 2
I == 4
V == 3
Cap == 4

LayerOf(s, o) ==
    LET opt(f, data) == IF f \in o THEN data ELSE <<>>
    IN  [n_heads |-> NH, n_kv_heads |-> NKV, head_dim |-> HD,
         wq |-> Stretch(s, NH * HD * H), wk |-> Stretch(s + 1, NKV * HD * H),
         wv |-> Stretch(s + 2, NKV * HD * H), wo |-> Stretch(s + 3, H * NH * HD),
         wg |-> Stretch(s + 4, I * H), wu |-> Stretch(s + 5, I * H), wd |-> Stretch(s + 6, H * I),
         g1 |-> Stretch(s + 7, H), g2 |-> Stretch(s + 8, H),
         bq |-> opt("bias", Stretch(s + 9, NH * HD)),
         bk |-> opt("bias", Stretch(s + 10, NKV * HD)),
         bv |-> opt("bias", Stretch(s + 11, NKV * HD)),
         qn |-> opt("qk", Stretch(s + 12, HD)), kn |-> opt("qk", Stretch(s + 13, HD)),
         g_post_attn |-> <<>>, g_post_mlp |-> <<>>,
         sin |-> Stretch(102, Cap * HD), cos |-> Stretch(104, Cap * HD),
         scale |-> 5, attn_softcap |-> 0, window |-> 0,
         post_norm |-> FALSE, local_rope |-> FALSE, use_rope |-> TRUE,
         act |-> "silu", wo_pitch |-> 0, wd_pitch |-> 0]

\* Two layers; `rows` a prefill's block, b the sequences.
Job(o, b, rows) ==
    [b |-> b, rows |-> rows, world |-> 2, cap |-> Cap, h |-> H, i |-> I, v |-> V,
     m |-> [layers |-> [k \in 1..2 |-> LayerOf(20 * k, o)], final_gamma |-> Stretch(61, H),
            lm_head |-> Stretch(62, V * H), final_softcap |-> 0],
     sin |-> Stretch(102, Cap * HD), cos |-> Stretch(104, Cap * HD),
     embed |-> Stretch(62, V * H), tied |-> TRUE, scale |-> 1,
     sdpa |-> "unset", bf16partial |-> TRUE, gather |-> FALSE]

\* A block as tall as the batch, so that the prefill's and the decode's tensors
\* of one name are one buffer; a taller one; the switches.
MCJobs ==
    {Job({"bias"}, 1, 1), Job({"qk"}, 2, 2),
     [Job({}, 2, 3) EXCEPT !.tied = FALSE, !.embed = Stretch(63, V * H), !.scale = 7,
                           !.sdpa = "on", !.bf16partial = FALSE, !.gather = TRUE]}
=============================================================================
