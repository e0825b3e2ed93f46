----------------------------- MODULE MCModelRuns -----------------------------
EXTENDS ModelRuns

\* A stretch of n values that no permutation of rows, columns or heads keeps.
Stretch(seed, n) ==
    Elements(n, LAMBDA k : (seed * 37 + k * k * (3 + seed) + 11 * k * seed + 5 * k + 1) % P)

\* Sizes: hidden 3, head_dim 4, 4 query heads over 2 KV heads (16 wide, not the
\* hidden size), MLP 2, 3 tokens, vocabulary 3.
H == 3
HD == 4
NH == 4
NKV == 2
I == 2
V == 3

\* A layer; o names the optional parts it has.
LayerOf(s, o, tokens) ==
    LET opt(f, data) == IF f \in o THEN data ELSE <<>>
    IN  [n_heads |-> NH, n_kv_heads |-> NKV, head_dim |-> HD,
         wq |-> Stretch(s, NH * HD * H), wk |-> Stretch(s + 1, NKV * HD * H),
         wv |-> Stretch(s + 2, NKV * HD * H), wo |-> Stretch(s + 3, H * NH * HD),
         wg |-> Stretch(s + 4, I * H), wu |-> Stretch(s + 5, I * H), wd |-> Stretch(s + 6, H * I),
         g1 |-> Stretch(s + 7, H), g2 |-> Stretch(s + 8, H),
         bq |-> opt("bias", Stretch(s + 9, NH * HD)),
         bk |-> opt("bias", Stretch(s + 10, NKV * HD)),
         bv |-> opt("bias", Stretch(s + 11, NKV * HD)),
         qn |-> IF "wide" \in o THEN Stretch(s + 12, NH * HD) ELSE opt("qk", Stretch(s + 12, HD)),
         kn |-> IF "wide" \in o THEN Stretch(s + 13, NKV * HD) ELSE opt("qk", Stretch(s + 13, HD)),
         g_post_attn |-> opt("gemma", Stretch(s + 14, H)),
         g_post_mlp |-> opt("gemma", Stretch(s + 15, H)),
         sin |-> Stretch(IF "local" \in o THEN 101 ELSE 102, tokens * HD),
         cos |-> Stretch(IF "local" \in o THEN 103 ELSE 104, tokens * HD),
         scale |-> 5, attn_softcap |-> IF "softcap" \in o THEN 6 ELSE 0,
         window |-> IF "window" \in o THEN 2 ELSE 0,
         post_norm |-> "post" \in o, local_rope |-> "local" \in o, use_rope |-> "nope" \notin o,
         act |-> IF "gelu" \in o THEN "gelu_tanh" ELSE "silu", wo_pitch |-> 0, wd_pitch |-> 0]

\* The model families the crate reads, as the parts their layers have.
Families ==
    [llama |-> << {}, {} >>,
     qwen2 |-> << {"bias"}, {"bias"} >>,
     qwen3 |-> << {"qk"}, {"qk"} >>,
     olmo2 |-> << {"post", "wide"}, {"post", "wide"} >>,
     smollm3 |-> << {}, {"nope"} >>,
     phi3 |-> << {"window"}, {"window"} >>,
     gemma |-> << {"gelu"}, {"gelu"} >>,
     gemma2 |-> << {"gelu", "gemma", "softcap", "window"}, {"gelu", "gemma", "softcap"} >>,
     gemma3 |-> << {"gelu", "gemma", "qk", "window", "local"}, {"gelu", "gemma", "qk"} >>]

ModelOf(f, tokens) ==
    [layers |-> [k \in 1..2 |-> LayerOf(20 * k, Families[f][k], tokens)],
     final_gamma |-> Stretch(61, H), lm_head |-> Stretch(62, V * H),
     final_softcap |-> IF f = "gemma2" THEN 9 ELSE 0]

\* A prompt of three tokens in one launch.
PromptJobs ==
    {[kind |-> "prompt", calls |-> 1, b |-> 1, m |-> ModelOf(f, 3), x |-> Stretch(71, 3 * H), tokens |-> 3,
      h |-> H, i |-> I, v |-> V, sdpa |-> sdpa, blocks |-> blocks] :
        f \in DOMAIN Families, sdpa \in BOOLEAN, blocks \in BOOLEAN}

\* A decoder over Cap positions: the tables it is given are those the layers
\* of ModelOf carry.
Cap == 4
Table(seed) == Stretch(seed, Cap * HD)
Decoder(kind, b, f) ==
    [kind |-> kind, calls |-> 3, b |-> b, m |-> ModelOf(f, Cap), h |-> H, i |-> I, v |-> V, cap |-> Cap,
     sin |-> Table(102), cos |-> Table(104), sinl |-> Table(101), cosl |-> Table(103),
     embed |-> Stretch(62, V * H), scale |-> 1, tied |-> TRUE, sdpa |-> "unset",
     blocks |-> FALSE, embedded |-> FALSE, rows |-> 2, dec |-> 0, keywin |-> TRUE,
     maxbuckets |-> 8, mincap |-> 2]

Untied(j) == [j EXCEPT !.tied = FALSE, !.embed = Stretch(63, V * H), !.scale = 7]
CachedJobs(f) ==
    LET j == Decoder("cached", 1, f)
    IN  {j, [j EXCEPT !.rows = 3, !.dec = 1, !.blocks = TRUE, !.sdpa = "off"],
         [j EXCEPT !.dec = 1, !.embedded = TRUE]}
BatchedJobs(f) ==
    LET j == Decoder("batched", 2, f)
    IN  {j, [j EXCEPT !.embedded = TRUE, !.sdpa = "on"]}

\* The families that between them have every part a cache graph treats
\* specially; longer runs for one with a window.
Cacheable == {"qwen2", "olmo2", "gemma2", "gemma3"}
Longer ==
    {[Decoder("cached", 1, "phi3") EXCEPT !.dec = 1, !.calls = 5]}
\* Embedding rows of their own and scaled, as Gemma's are.
Scaling ==
    {Untied([Decoder("cached", 1, "gemma3") EXCEPT !.embedded = TRUE]),
     Untied([Decoder("batched", 2, "gemma3") EXCEPT !.embedded = TRUE])}
MCJobs == PromptJobs \cup Longer \cup Scaling \cup UNION {CachedJobs(f) \cup BatchedJobs(f) : f \in Cacheable}

\* Blocks taller than the sliding window by more than one.
TallJobs == {[Decoder("cached", 1, "phi3") EXCEPT !.rows = 4]}
=============================================================================
