----------------------------- MODULE MCDeviceOps -----------------------------
\* Every program of src/bin that runs an operation of its own, then one of
\* each kind after whatever the first has left behind.
EXTENDS DeviceOps

MCPrograms ==
    << SoftmaxTest(FALSE), MmeChain(1), HelloMme(FALSE),
       GemmTest, GemmTTest, SoftmaxTest(TRUE), NormTest, SiluTest, RopeTest, AttnTest(FALSE),
       AttnTest(TRUE), MlpTest, HeadsTest, MmeChain(3), HelloMme(TRUE), Reused >>
MCLater == 1..3

\* What the proof that answers are the references' takes as given: the data is
\* prepared, and the graphs compute, as the CPU references do.
ASSUME MCOperationsCompute == OperationsCompute

\* The nodes of every operation may run in any order.
ASSUME MCAnyOrder ==
    \A p \in DOMAIN Programs : \A k \in DOMAIN Programs[p].ops : Ordered(Programs[p].ops[k].nodes, <<>>)
=============================================================================
