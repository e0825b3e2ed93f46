--------------------------- MODULE TokenSequences ---------------------------
(***************************************************************************)
(* What a decoder with a KV cache promises to its callers: each sequence   *)
(* grows by the tokens it is fed, from nothing, and an answer (logits or   *)
(* ids) is computed from all the tokens of its sequence and from nothing   *)
(* else.  How the tokens get to the device, in blocks, in the device loop  *)
(* or many sequences in one launch, is not visible here.                   *)
(***************************************************************************)
EXTENDS KvCache

CONSTANTS
  Sequence,  \* the independent sequences
  Capacity   \* the positions each has room for

VARIABLES
  fed,    \* fed[s]: the tokens of s, those its caller gave it and those the
          \* device loop told the caller it had fed
  basis   \* basis[s]: the tokens the last answer of s was computed from

seqVars == <<fed, basis>>

SeqTypeOK ==
  /\ fed \in [Sequence -> TokensUpTo(Capacity)]
  /\ basis \in [Sequence -> TokensUpTo(Capacity)]

SeqInit ==
  /\ fed = [s \in Sequence |-> Empty]
  /\ basis = [s \in Sequence |-> Empty]

\* old is what new begins with, and new is longer.
Longer(old, new) ==
  /\ old # new
  /\ DOMAIN old \subseteq DOMAIN new
  /\ \A i \in DOMAIN old : new[i] = old[i]

\* A call that answers: the sequences in S are fed tokens, and answered from
\* every token they now have.
Feed(S) ==
  /\ S # {}
  /\ fed' \in [Sequence -> TokensUpTo(Capacity)]
  /\ \A s \in S : Longer(fed[s], fed'[s])
  /\ \A s \in Sequence \ S : fed'[s] = fed[s]
  /\ basis' = [s \in Sequence |-> IF s \in S THEN fed'[s] ELSE basis[s]]

\* The sequence starts afresh.
Restart(s) ==
  /\ fed' = [fed EXCEPT ![s] = Empty]
  /\ basis' = [basis EXCEPT ![s] = Empty]

SeqNext ==
  \/ \E S \in SUBSET Sequence : Feed(S)
  \/ \E s \in Sequence : Restart(s)

SeqSpec == SeqInit /\ [][SeqNext]_seqVars
=============================================================================
