--------------------------- MODULE MCBatchedModel ---------------------------
(* Bounds for TLC.  A prompt repeats one token: what matters is that what  *)
(* an earlier prompt left in a slot, or the other sequence's, can differ   *)
(* from what belongs there.  A batch feeds its two sequences different     *)
(* tokens.                                                                 *)
EXTENDS BatchedModel, TLC

CONSTANTS a, b, s1, s2

MCToken == {a, b}
MCSequence == {s1, s2}

MCPrompts == {[i \in 1 .. n |-> t] : n \in 1 .. 3, t \in MCToken}
MCIds == {ids \in [MCSequence -> MCToken] : ids[s1] # ids[s2]}

\* A prompt in up to three blocks while the cache grows from one position to
\* two to three; runs of the loop, prompts shorter than a block, and prefills
\* that fail.
Blocks == [rows |-> 1, capacity |-> 3, loop |-> FALSE, failures |-> {"step"}]
Loops == [rows |-> 2, capacity |-> 2, loop |-> TRUE, failures |-> {"prefill"}]
MCModels == {Blocks, Loops}

\* Tokens are told apart only by equality, and so are the sequences.
Exchange == Permutations(MCToken) \cup Permutations(MCSequence)
=============================================================================
