---------------------------- MODULE MCRecipeCache ----------------------------
EXTENDS RecipeCache

CONSTANTS a, b, own

MCProc == {a, b}
\* Two processes of one namespace, or of two that both number theirs `own`.
MCPids == {[p \in MCProc |-> p], [p \in MCProc |-> own]}
MCPidSet == MCProc \cup {own}
=============================================================================
