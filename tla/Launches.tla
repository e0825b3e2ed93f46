------------------------------ MODULE Launches ------------------------------
(***************************************************************************)
(* A launch of a recipe on small tensors: the inputs and the buffers it    *)
(* starts from, its nodes run in creation order, and when any other order  *)
(* the device may choose computes the same.  `bind` is where the Runtime   *)
(* bound the tensors whose memory outlives a launch (rebind, runtime.rs).  *)
(***************************************************************************)
EXTENDS ReferenceModel

\* The tensors a launch starts from: the inputs and the buffers, each where
\* bind puts it.
Place(bind, name) == IF name \in DOMAIN bind THEN bind[name] ELSE name
Loaded(ins) ==
    [name \in {ins[k].name : k \in DOMAIN ins} |->
        LET in == ins[CHOOSE k \in DOMAIN ins : ins[k].name = name]
        IN  [sz |-> in.sz, at |-> in.at]]

\* The places every node writes.
Written(nodes, bind) ==
    [k \in DOMAIN nodes |->
        [j \in DOMAIN nodes[k].out |-> Place(bind, nodes[k].out[j])] \o <<>>] \o <<>>
\* The last node before k that writes place p; 0 when none does.
LastOf(S) == IF S = {} THEN 0 ELSE CHOOSE d \in S : \A o \in S : o <= d
Writer(outs, p, k) == LastOf({d \in 1..(k-1) : \E j \in DOMAIN outs[d] : outs[d][j] = p})
\* What lies at place p after node d wrote it, from the results so far.
Left(outs, mem, p, d, was) ==
    IF d = 0 THEN mem[p] ELSE was[d][CHOOSE j \in DOMAIN outs[d] : outs[d][j] = p]
Found(outs, mem, p, k, was) == Left(outs, mem, p, Writer(outs, p, k), was)

NodeRun(node, k, outs, mem, bind, was) ==
    Append(was, Outputs(node, [j \in DOMAIN node.in |->
                                  Found(outs, mem, Place(bind, node.in[j]), k, was)] \o <<>>))
Results(nodes, outs, mem, bind) ==
    Stepped(Len(nodes), <<>>, LAMBDA was, k : NodeRun(nodes[k], k, outs, mem, bind, was))
AfterAll(n, outs, mem, all) ==
    [p \in DOMAIN mem \cup UNION {{outs[k][j] : j \in DOMAIN outs[k]} : k \in DOMAIN outs} |->
        Found(outs, mem, p, n + 1, all)]

\* The memory after the nodes have run in creation order: an operand is what
\* the last node before wrote to its place, or what was there at the start.
RanOver(nodes, outs, mem, bind) ==
    AfterAll(Len(nodes), outs, mem, Results(nodes, outs, mem, bind))
Ran(nodes, mem, bind) == RanOver(nodes, Written(nodes, bind), mem, bind)

\* The nodes before k that write a tensor it reads, and those in turn behind
\* them.
Flow(nodes, k) ==
    {d \in 1..(k-1) : \E i \in DOMAIN nodes[d].out, j \in DOMAIN nodes[k].in :
                          nodes[d].out[i] = nodes[k].in[j]}
Behind(nodes) ==
    Stepped(Len(nodes), <<>>, LAMBDA was, k :
        Append(was, Flow(nodes, k) \cup UNION {was[d] : d \in Flow(nodes, k)}))

\* Whether any order the nodes' data dependencies allow computes the same: of
\* two nodes that touch one place, one of them writing, the later one depends
\* on the earlier one through tensors it reads.
Touches(names, bind) == {Place(bind, names[j]) : j \in DOMAIN names}
Clash(a, b, bind) ==
    \/ Touches(a.out, bind) \cap (Touches(b.in, bind) \cup Touches(b.out, bind)) # {}
    \/ Touches(a.in, bind) \cap Touches(b.out, bind) # {}
Ordered(nodes, bind) ==
    \E behind \in {Behind(nodes)} :
        \A b \in DOMAIN nodes : \A a \in 1..(b-1) :
            a \in behind[b] \/ ~Clash(nodes[a], nodes[b], bind)

=============================================================================
