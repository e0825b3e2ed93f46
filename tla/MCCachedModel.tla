--------------------------- MODULE MCCachedModel ----------------------------
(* Bounds for TLC: two tokens, so that a row left by an earlier sequence   *)
(* can differ from the right one.  Nothing in the model tells tokens apart *)
(* but their equality, so the two may be exchanged.                        *)
EXTENDS CachedModel, TLC

CONSTANTS a, b

MCToken == {a, b}

\* MAX_KEY_BUCKETS is 16 and the cache thousands of slots long; with three,
\* recipes of two rows over four slots attend to two of them or to all.
MCKeysStep == KeyStep(Rows, Capacity + 1, 3)

TokenSymmetry == Permutations(MCToken)
=============================================================================
