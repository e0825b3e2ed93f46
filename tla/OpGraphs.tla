------------------------------ MODULE OpGraphs ------------------------------
(***************************************************************************)
(* The operations that build one recipe, run it once and hand the result   *)
(* back: the methods of Device (device.rs), the one-shot programs of       *)
(* attn.rs, mlp.rs, heads.rs and chain.rs, and MatmulHpu (lib.rs).  Each   *)
(* is a record of the tensors that are bound to memory, with the host data *)
(* of its inputs and the names of its outputs (the first one is read       *)
(* back), and of its nodes; `cpu` is the CPU reference its tests compare   *)
(* it with.  Sizes are fastest first: a row-major [r, c] is <<c, r>>.      *)
(***************************************************************************)
EXTENDS Launches

Op(ins, outs, nodes, cpu) == [ins |-> ins, outs |-> outs, nodes |-> nodes, cpu |-> cpu]
Given(s, sz, data) == In(Gl(s), sz, data)
Out(s, sz) == << [name |-> Gl(s), sz |-> sz] >>
Kernel(op, in, out, sz) == Node(op, [k \in DOMAIN in |-> Gl(in[k])], Gl(out), sz)

-----------------------------------------------------------------------------
\* gemm, and gemm_ex with the operands stored either way.

GemmCpu(a, b, m, k, n) ==
    Elements(m * n, LAMBDA i :
        Total(k, LAMBDA p : a[(i \div n) * k + p + 1] * b[p * n + (i % n) + 1]))
GemmOp(a, b, m, k, n) ==
    Op(Given("A", <<k, m>>, a) \o Given("B", <<n, k>>, b), Out("C", <<n, m>>),
       Kernel("gemm_plain", <<"A", "B">>, "C", <<n, m>>), GemmCpu(a, b, m, k, n))

GemmKind(ta, tb) ==
    IF ta THEN (IF tb THEN "gemm_tab" ELSE "gemm_ta") ELSE (IF tb THEN "gemm" ELSE "gemm_plain")
GemmExCpu(a, b, m, k, n, ta, tb) ==
    Elements(m * n, LAMBDA e :
        Total(k, LAMBDA p :
            (IF ta THEN a[p * m + (e \div n) + 1] ELSE a[(e \div n) * k + p + 1])
            * (IF tb THEN b[(e % n) * k + p + 1] ELSE b[p * n + (e % n) + 1])))
GemmExOp(a, b, m, k, n, ta, tb) ==
    Op(Given("A", IF ta THEN <<m, k>> ELSE <<k, m>>, a)
         \o Given("B", IF tb THEN <<k, n>> ELSE <<n, k>>, b),
       Out("C", <<n, m>>), Kernel(GemmKind(ta, tb), <<"A", "B">>, "C", <<n, m>>),
       GemmExCpu(a, b, m, k, n, ta, tb))

-----------------------------------------------------------------------------
\* The elementwise and row-wise operations of Device.

SoftmaxCpu(x, cols) ==
    LET inv == Elements(Len(x) \div cols, LAMBDA r :
                   Recip(Total(cols, LAMBDA j : Exp(x[r * cols + j + 1]))))
    IN  Elements(Len(x), LAMBDA k : Times(Exp(x[k + 1]), inv[(k \div cols) + 1]))
SoftmaxOp(x, rows, cols) ==
    Op(Given("IN", <<cols, rows>>, x), Out("OUT", <<cols, rows>>),
       Kernel("softmax", <<"IN">>, "OUT", <<cols, rows>>), SoftmaxCpu(x, cols))

RmsNormCpu(x, gamma) == RmsRows(x, gamma)
\* The kernel's second output is bound to memory too, and never read.
RmsNormNodes(f, t) ==
    << [op |-> "rms_norm_inv", par |-> 0, in |-> <<Gl("X"), Gl("G")>>,
        out |-> <<Gl("Y"), Gl("INVRMS")>>,
        sz |-> << <<f, t>>, <<1, t>> >>] >>
RmsNormOp(x, gamma, f, t) ==
    Op(Given("X", <<f, t>>, x) \o Given("G", <<f>>, gamma),
       Out("Y", <<f, t>>) \o Out("INVRMS", <<1, t>>), RmsNormNodes(f, t),
       RmsNormCpu(x, gamma))

SiluCpu(x) == Elements(Len(x), LAMBDA k : Times(x[k + 1], Recip((1 + Exp((P - x[k + 1]) % P)) % P)))
SiluNodes(x, sig, y, sz) == Kernel("sigmoid", <<x>>, sig, sz) \o Kernel("mult", <<x, sig>>, y, sz)
SiluOp(x, rows, cols) ==
    Op(Given("X", <<cols, rows>>, x), Out("Y", <<cols, rows>>),
       SiluNodes("X", "sig", "Y", <<cols, rows>>), SiluCpu(x))

RopeCpu(x, sin, cos, hd) == RopeRows(x, hd, hd, sin, cos)
RopeOp(x, sin, cos, hd, seq) ==
    LET sz == <<hd, seq>>
    IN  Op(Given("X", sz, x) \o Given("SIN", sz, sin) \o Given("COS", sz, cos), Out("Y", sz),
           Kernel("rope", <<"X", "SIN", "COS">>, "Y", sz), RopeCpu(x, sin, cos, hd))

-----------------------------------------------------------------------------
\* attention_bf16: q is scaled and k transposed on the host.

TurnedKeys(k, seq, dim) == Elements(dim * seq, LAMBDA e : k[(e % seq) * dim + (e \div seq) + 1])
AttentionHeadNodes(s, d) ==
    Kernel("gemm_plain", <<"Q", "KT">>, "scores", <<s, s>>)
    \o Kernel("softmax", <<"scores">>, "probs", <<s, s>>)
    \o Kernel("gemm_plain", <<"probs", "V">>, "OUT", <<d, s>>)
AttentionCpu(q, k, v, seq, dim, scale) ==
    LET score(i, j) ==
          Times(Total(dim, LAMBDA c : q[i * dim + c + 1] * k[j * dim + c + 1]), scale)
        probs == SoftmaxCpu(Elements(seq * seq, LAMBDA e : score(e \div seq, e % seq)), seq)
    IN  GemmCpu(probs, v, seq, seq, dim)
AttentionOp(q, k, v, seq, dim, scale) ==
    Op(Given("Q", <<dim, seq>>, Scaled(q, scale)) \o Given("KT", <<seq, dim>>, TurnedKeys(k, seq, dim))
         \o Given("V", <<dim, seq>>, v),
       Out("OUT", <<dim, seq>>), AttentionHeadNodes(seq, dim),
       AttentionCpu(q, k, v, seq, dim, scale))

-----------------------------------------------------------------------------
\* swiglu_mlp_bf16

SwigluNodes(t, h, i) ==
    Kernel("gemm_plain", <<"X", "WG">>, "gate", <<i, t>>)
    \o Kernel("gemm_plain", <<"X", "WU">>, "up", <<i, t>>)
    \o SiluNodes("gate", "sg", "silu", <<i, t>>)
    \o Kernel("mult", <<"silu", "up">>, "gated", <<i, t>>)
    \o Kernel("gemm_plain", <<"gated", "WD">>, "down", <<h, t>>)
    \o Kernel("add", <<"down", "X">>, "OUT", <<h, t>>)
SwigluCpu(x, wg, wu, wd, t, h, i) ==
    LET gate == SiluCpu(GemmCpu(x, wg, t, h, i))
        up == GemmCpu(x, wu, t, h, i)
        gated == Elements(t * i, LAMBDA k : Times(gate[k + 1], up[k + 1]))
    IN  SumRows(GemmCpu(gated, wd, t, i, h), x)
SwigluOp(x, wg, wu, wd, t, h, i) ==
    Op(Given("X", <<h, t>>, x) \o Given("WG", <<i, h>>, wg) \o Given("WU", <<i, h>>, wu)
         \o Given("WD", <<h, i>>, wd),
       Out("OUT", <<h, t>>), SwigluNodes(t, h, i), SwigluCpu(x, wg, wu, wd, t, h, i))

-----------------------------------------------------------------------------
\* split_rotate_concat_bf16: output head j is input head j + 1, cyclically.

Heads(n) == [j \in 1..n |-> Nm("head", j - 1)]
RotateNodes(t, h, n) ==
    LET hd == h \div n
    IN  << [op |-> "split", par |-> 0, in |-> <<Gl("X")>>, out |-> Heads(n),
            sz |-> [j \in 1..n |-> <<hd, t>>]] >>
        \o Node("concat", [j \in 1..n |-> Nm("head", j % n)], Gl("OUT"), <<h, t>>)
RotateCpu(x, t, h, n) ==
    LET hd == h \div n
    IN  Elements(t * h, LAMBDA k :
            LET j == (k % h) \div hd
            IN  x[(k \div h) * h + ((j + 1) % n) * hd + (k % hd) + 1])
RotateOp(x, t, h, n) ==
    Op(Given("X", <<h, t>>, x), Out("OUT", <<h, t>>), RotateNodes(t, h, n), RotateCpu(x, t, h, n))

-----------------------------------------------------------------------------
\* matmul_chain_bf16: A * W^depth, the last product into the bound output.

Link(k, depth) == IF k = 0 THEN Gl("A") ELSE IF k = depth THEN Gl("OUT") ELSE Nm("h", k - 1)
ChainNodes(d, depth) ==
    Stepped(depth, <<>>, LAMBDA nodes, k :
        nodes \o Node("gemm_plain", <<Link(k - 1, depth), Gl("W")>>, Link(k, depth), <<d, d>>))
ChainCpu(a, w, d, depth) == Stepped(depth, a, LAMBDA cur, k : GemmCpu(cur, w, d, d, d))
ChainOp(a, w, d, depth) ==
    Op(Given("A", <<d, d>>, a) \o Given("W", <<d, d>>, w), Out("OUT", <<d, d>>), ChainNodes(d, depth),
       ChainCpu(a, w, d, depth))

-----------------------------------------------------------------------------
\* MatmulHpu: compiled for sizes, run on the matrices of each call.

MatmulCpu(a, b, m, k, n) == GemmCpu(a, b, m, k, n)
MatmulHpuOp(a, b, m, k, n) ==
    Op(Given("A", <<k, m>>, a) \o Given("B", <<n, k>>, b), Out("C", <<n, m>>),
       Kernel("gemm_plain", <<"A", "B">>, "C", <<n, m>>), MatmulCpu(a, b, m, k, n))
=============================================================================
