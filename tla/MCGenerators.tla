---------------------------- MODULE MCGenerators ----------------------------
(* Bounds for TLC.  One layer of one head, so that a position costs four   *)
(* bytes.  The cards are of all the sizes at which one more bucket fits,   *)
(* and of sizes in between; the reserve holds what the plan leaves out, or *)
(* nothing; the ceiling is a doubling of the smallest bucket, or not.      *)
EXTENDS Generators

Shapes ==
  {[layers |-> 1, n_kv_heads |-> 1, head_dim |-> 1, n_heads |-> 1, vocab |-> 2, masks |-> 1,
    rows |-> 2, weight_bytes |-> 40, batch |-> b, capacity |-> c, reserve_bytes |-> r,
    device_bytes |-> 40 + d]
     : b \in {0, 2}, c \in {6, 8}, r \in {0, 80}, d \in {40, 132, 204, 212, 276, 284, 330, 400, 428}}
MCPlans == Shapes
=============================================================================
