----------------------------- MODULE NodeOrders ------------------------------
(***************************************************************************)
(* What a launch may do with the nodes of its recipe: a node may run when  *)
(* the nodes before it that write a tensor it reads have run.  The device  *)
(* knows tensors by their names; where the Runtime bound two of them to    *)
(* one place (rebind, runtime.rs) it sees no dependency.                   *)
(***************************************************************************)
EXTENDS Launches

CONSTANTS Nodes,   \* the recipe's, in creation order
          Start,   \* the memory the launch finds
          Bind     \* where the Runtime bound the tensors

VARIABLES done,    \* the nodes that have run
          memory

\* What a node writes to a place, from what lies in memory.
Outcome(k, place) ==
    LET outs == Written(Nodes, Bind)[k]
    IN  Outputs(Nodes[k], [j \in DOMAIN Nodes[k].in |-> memory[Place(Bind, Nodes[k].in[j])]] \o <<>>)
            [CHOOSE j \in DOMAIN outs : outs[j] = place]

LaunchBegins == done = {} /\ memory = Start
NodeRuns ==
    \E k \in DOMAIN Nodes \ done :
        /\ Flow(Nodes, k) \subseteq done
        /\ done' = done \cup {k}
        /\ LET to == Touches(Nodes[k].out, Bind)
           IN  memory' = [place \in DOMAIN memory \cup to |->
                             IF place \in to THEN Outcome(k, place) ELSE memory[place]]

LaunchSpec == LaunchBegins /\ [][NodeRuns]_<<done, memory>>

\* Every operand was there at the start or is written by a node before.
Fed ==
    \A k \in DOMAIN Nodes : \A place \in Touches(Nodes[k].in, Bind) :
        place \in DOMAIN Start \/ \E d \in 1..(k-1) : place \in Touches(Nodes[d].out, Bind)

\* A launch that is over has computed what the creation order computes.
AsInCreationOrder == done = DOMAIN Nodes => memory = Ran(Nodes, Start, Bind)

\* Why: what has run is closed under what is behind it, and every place holds
\* what the last of its writers that have run writes in creation order.
Writers(place, among) == {d \in among : place \in Touches(Nodes[d].out, Bind)}
LaunchInv ==
    LET outs == Written(Nodes, Bind)
        all == Results(Nodes, outs, Start, Bind)
    IN  /\ done \subseteq DOMAIN Nodes
        /\ \A k \in done : Behind(Nodes)[k] \subseteq done
        /\ memory = [place \in DOMAIN Start \cup UNION {Touches(Nodes[k].out, Bind) : k \in done} |->
                        Left(outs, Start, place, LastOf(Writers(place, done)), all)]
=============================================================================
