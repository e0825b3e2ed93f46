----------------------------- MODULE OpPrograms -----------------------------
(***************************************************************************)
(* The programs of reng-synapse/src/bin that call the operations and       *)
(* compare them with their CPU references: which operations each runs, on  *)
(* what, and through which handle.  Their patterns are kept; their sizes   *)
(* are small, and `small` says whether one of theirs lies below 128, where *)
(* a copy back is not reliable (device.rs).                                *)
(*                                                                         *)
(* A program is [kind, ops, calls, small]: on an acquired Device (the      *)
(* one-shot wrappers of ops.rs and mm.rs acquire one for their call), as a *)
(* one-shot program that acquires its card after compiling, which does or  *)
(* does not destroy its recipe, or through a MatmulHpu handle; calls says  *)
(* of each operation of a handle whether it is a run or a bare launch.     *)
(***************************************************************************)
EXTENDS OpGraphs

\* ((i * by + from) % of) over n elements.
Pattern(n, by, from, of) == Elements(n, LAMBDA i : ((i * by) + from) % of)

Program(kind, ops, calls, small) == [kind |-> kind, ops |-> ops, calls |-> calls, small |-> small]
OnDevice(ops, small) == Program("device", ops, [k \in DOMAIN ops |-> "run"], small)
OneShot(kind, op, small) == Program(kind, <<op>>, <<"run">>, small)

GemmTest ==
    OnDevice(<< GemmOp(Pattern(6, 5, 1, 17), Pattern(12, 3, 2, 19), 2, 3, 4) >>, FALSE)
\* All four ways to store the operands, on one device.
GemmTTest ==
    LET one(ta, tb) == GemmExOp(Pattern(6, 5, 1, 17), Pattern(12, 3, 2, 19), 2, 3, 4, ta, tb)
    IN  OnDevice(<<one(FALSE, FALSE), one(FALSE, TRUE), one(TRUE, FALSE), one(TRUE, TRUE)>>, FALSE)
\* 32 rows in softmax_test.
SoftmaxTest(small) == OnDevice(<< SoftmaxOp(Pattern(6, 1, 7, 97), 2, 3) >>, small)
NormTest ==
    OnDevice(<< RmsNormOp(Pattern(6, 7, 3, 29), Pattern(2, 1, 5, 11), 2, 3) >>, FALSE)
SiluTest == OnDevice(<< SiluOp(Pattern(6, 13, 5, 41), 3, 2) >>, FALSE)
RopeTest ==
    OnDevice(<< RopeOp(Pattern(8, 7, 3, 23), Pattern(8, 5, 2, 31), Pattern(8, 11, 4, 37), 4, 2) >>, FALSE)
AttnTest(small) ==
    OneShot("attention",
            AttentionOp(Pattern(6, 7, 1, 23), Pattern(6, 7, 2, 23), Pattern(6, 7, 3, 23), 3, 2, 9),
            small)
MlpTest ==
    OneShot("one_shot",
            SwigluOp(Pattern(4, 7, 3, 23), Pattern(6, 5, 1, 17), Pattern(6, 11, 4, 19),
                     Pattern(6, 13, 2, 21), 2, 2, 3), FALSE)
HeadsTest == OneShot("one_shot", RotateOp(Pattern(12, 7, 3, 23), 2, 6, 3), FALSE)
MmeChain(depth) ==
    OneShot("chain", ChainOp(Pattern(4, 7, 3, 15), Pattern(4, 13, 5, 15), 2, depth), FALSE)
\* matmul_bf16, a handle for one run; 64 columns in hello_mme.
HelloMme(small) ==
    Program("matmul", << MatmulHpuOp(Pattern(6, 1, 0, 13), Pattern(6, 1, 0, 7), 2, 3, 2) >>, <<"run">>,
            small)
\* A handle as its documentation describes it: compiled once, run on several
\* inputs, launched again on what is resident.
Reused ==
    LET one(from) == MatmulHpuOp(Pattern(6, 1, from, 13), Pattern(6, 1, 0, 7), 2, 3, 2)
    IN  Program("matmul", <<one(0), one(0), one(5)>>, <<"run", "launch", "run">>, FALSE)
=============================================================================
