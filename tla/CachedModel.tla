---------------------------- MODULE CachedModel -----------------------------
(***************************************************************************)
(* CachedModel (reng-synapse/src/cached.rs): one sequence on one card, its *)
(* KV cache in two device buffers per layer, fed either in blocks of       *)
(* embeddings (step_rows) or token by token in the device loop             *)
(* (loop_steps).                                                           *)
(*                                                                         *)
(* A wide recipe reads the current buffer and writes the other one, which  *)
(* becomes current once the answer has been read; the decode recipe and    *)
(* the loop write the current buffer in place.  The loop takes its token   *)
(* from a ring of one slot per position that its own launches write, so    *)
(* that the host uploads a seed only when it is not there already: known   *)
(* is what the host believes is there.                                     *)
(*                                                                         *)
(* A call is several steps here because any SynapseAI call in it may fail: *)
(* the device has then done what came before, and the host's fields are as *)
(* they were, for they are assigned last.                                  *)
(***************************************************************************)
EXTENDS KvCache

CONSTANTS
  Rows,           \* rows of the wide recipe
  DecodeRows,     \* rows of the decode recipe asked for, 0 for none
  Capacity,       \* cache positions
  Embed,          \* whether an EmbedTable is given and the loop is enabled
  KeysStep,       \* keys_step: key_step(rows, capacity + 1), or 0 when the
                  \* key window is off
  LoopMayFail     \* whether a call may fail inside loop_steps

ASSUME RowsAssumption == Rows \in Nat \ {0} /\ DecodeRows \in Nat
ASSUME CapacityAssumption == Capacity \in Nat \ {0}
ASSUME StepAssumption == KeysStep \in Nat
ASSUME SwitchAssumption == {Embed, LoopMayFail} \subseteq BOOLEAN

VARIABLES
  pos,      \* positions filled
  flipped,  \* which buffer is current
  known,    \* {<<position, id>>}, or {}
  bufs,     \* the two cache buffers
  ring,     \* the loop's id ring
  op,       \* the call under way
  fed,      \* history: the tokens the caller has fed, or been told were fed
  basis     \* history: the tokens the last answer was computed from

hostVars == <<pos, flipped, known>>
seqVars == <<fed, basis>>
vars == <<pos, flipped, known, bufs, ring, op, fed, basis>>

HasLoop == Embed /\ DecodeRows <= 1

\* The decode recipe exists beside the wide one.
HasDecode == DecodeRows > 0 /\ DecodeRows # Rows /\ ~HasLoop

\* The blocks a caller may feed.
Blocks == UNION {[1 .. n -> Token] : n \in 1 .. Rows}

Idle == [kind |-> "idle"]

TypeOK ==
  /\ pos \in 0 .. Capacity
  /\ flipped \in BOOLEAN
  /\ known \subseteq (0 .. Capacity) \X Token
  /\ bufs \in [BOOLEAN -> Buffer(Capacity)]
  /\ ring \in [0 .. Capacity -> Word]
  /\ op \in {Idle}
         \cup [kind : {"block"}, toks : Blocks, wide : BOOLEAN]
         \cup [kind : {"seed"}, seed : Token, n : 1 .. Capacity]
         \cup [kind : {"loop"}, seed : Token, n : 1 .. Capacity, j : 0 .. Capacity]
  /\ fed \in TokensUpTo(Capacity)
  /\ basis \in UNION {[Span(k) -> Word] : k \in 0 .. Capacity + 1}

Init ==
  /\ pos = 0
  /\ flipped = FALSE
  /\ known = {}
  /\ bufs = [f \in BOOLEAN |-> FreshBuffer(Capacity)]
  /\ ring = [p \in 0 .. Capacity |-> Garbage]
  /\ op = Idle
  /\ fed = Empty
  /\ basis = Empty

-----------------------------------------------------------------------------
(* step_rows.                                                              *)

\* A block too large for the decode recipe runs on a wide one.
Wide(n) == ~(HasDecode /\ n <= DecodeRows)

\* Mutant: the key bucket is chosen for the rows before the block.
KeysBeforeBlock(n) ==
  IF Wide(n) /\ KeysStep > 0
  THEN KeyBucket(Least(pos, Capacity + 1), KeysStep, Capacity + 1)
  ELSE Capacity + 1

\* The cache slots the recipe of a block at pos attends to.
Keys(n) ==
  IF Wide(n) /\ KeysStep > 0
  THEN KeyBucket(Least(pos + Rows, Capacity + 1), KeysStep, Capacity + 1)
  ELSE Capacity + 1

\* The buffer a launch writes.
Target(wide) == IF wide THEN ~flipped ELSE flipped

\* The uploads and the launch.
BlockLaunch(toks) ==
  /\ op = Idle
  /\ pos + Len(toks) <= Capacity
  /\ op' = [kind |-> "block", toks |-> toks, wide |-> Wide(Len(toks))]
  /\ bufs' = [bufs EXCEPT ![Target(Wide(Len(toks)))] =
                Scatter(bufs[flipped], pos, toks, Capacity, Keys(Len(toks)))]
  /\ UNCHANGED <<hostVars, ring, seqVars>>

\* Mutant: the buffer just written does not become current.
FlipNever(wide) == UNCHANGED flipped

\* A wide block's buffer becomes current.
Flip(wide) == flipped' = IF wide THEN ~flipped ELSE flipped

\* The answer has been read: the last row's.
BlockRead ==
  /\ op.kind = "block"
  /\ LET n == Len(op.toks) IN
     /\ Flip(op.wide)
     /\ pos' = pos + n
     /\ fed' = Extend(fed, pos, op.toks)
     /\ basis' = bufs[Target(op.wide)][pos + n - 1]
  /\ op' = Idle
  /\ UNCHANGED <<known, bufs, ring>>

-----------------------------------------------------------------------------
(* loop_steps.                                                             *)

\* Mutant: the id is compared but not its position.
ResidentAnywhere(seed) == \E k \in known : k[2] = seed

\* The seed is where the last run left it.
Resident(seed) == <<pos, seed>> \in known

LoopSeed(seed, n) ==
  /\ HasLoop
  /\ op = Idle
  /\ pos + n <= Capacity
  /\ ring' = IF Resident(seed) THEN ring ELSE [ring EXCEPT ![pos] = seed]
  /\ op' = [kind |-> "seed", seed |-> seed, n |-> n]
  /\ UNCHANGED <<hostVars, bufs, seqVars>>

\* The n slots the run will write are filled with the sentinel.
LoopFill ==
  /\ op.kind = "seed"
  /\ ring' = [p \in 0 .. Capacity |->
                IF p > pos /\ p <= pos + op.n THEN Garbage ELSE ring[p]]
  /\ op' = [kind |-> "loop", seed |-> op.seed, n |-> op.n, j |-> 0]
  /\ UNCHANGED <<hostVars, bufs, seqVars>>

\* Launch j: the token in its slot, at its position, its answer in the next
\* slot.
LoopLaunch(out) ==
  /\ op.kind = "loop"
  /\ op.j < op.n
  /\ LET at == pos + op.j IN
     /\ bufs' = [bufs EXCEPT ![flipped] =
                   Scatter(bufs[flipped], at, <<ring[at]>>, Capacity, Capacity + 1)]
     /\ ring' = [ring EXCEPT ![at + 1] = out]
  /\ op' = [op EXCEPT !.j = op.j + 1]
  /\ UNCHANGED <<hostVars, seqVars>>

\* What the caller knows was fed by a run: its seed, then the ids it read
\* but the last.
Consumed(n) ==
  [i \in Span(pos + n) |-> IF i < pos THEN fed[i]
                           ELSE IF i = pos THEN op.seed
                           ELSE ring[i]]

LoopRead ==
  /\ op.kind = "loop"
  /\ op.j = op.n
  /\ known' = {<<pos + op.n, ring[pos + op.n]>>}
  /\ pos' = pos + op.n
  /\ fed' = Consumed(op.n)
  /\ basis' = bufs[flipped][pos + op.n - 1]
  /\ op' = Idle
  /\ UNCHANGED <<flipped, bufs, ring>>

-----------------------------------------------------------------------------
\* The call under way returns an error.
Fail ==
  /\ \/ op.kind = "block"
     \/ LoopMayFail /\ op.kind \in {"seed", "loop"}
  /\ op' = Idle
  /\ UNCHANGED <<hostVars, bufs, ring, seqVars>>

\* reset: the buffers, the ring and known stay as they are.
Reset ==
  /\ op = Idle
  /\ pos' = 0
  /\ fed' = Empty
  /\ basis' = Empty
  /\ UNCHANGED <<flipped, known, bufs, ring, op>>

Next ==
  \/ \E toks \in Blocks : BlockLaunch(toks)
  \/ BlockRead
  \/ \E seed \in Token, n \in 1 .. Capacity : LoopSeed(seed, n)
  \/ LoopFill
  \/ \E out \in Token : LoopLaunch(out)
  \/ LoopRead
  \/ Fail
  \/ Reset

Spec == Init /\ [][Next]_vars

-----------------------------------------------------------------------------
(* Properties.                                                             *)

\* Every answer is computed from all the tokens fed since the last reset and
\* from nothing else, whatever mix of blocks, decode blocks, loop runs,
\* failed calls and resets came before.
AnswersFed == basis = fed

\* The rows below the current position of the current buffer are those of
\* the tokens fed: what the next launch will attend to.
CacheHolds ==
  /\ DOMAIN fed = Span(pos)
  /\ \A i \in Span(pos) : bufs[flipped][i] = Prefix(fed, i + 1)

\* Between calls, the ring slot the host believes in holds the id it
\* believes (field known: "A slot whose id the host knows").
KnownHolds ==
  op.kind \in {"idle", "block"} => \A k \in known : ring[k[1]] = k[2]

\* A block whose answer has not been read: the buffer it was written to
\* holds it after the tokens fed.
PendingBlock ==
  op.kind = "block" =>
    /\ pos + Len(op.toks) <= Capacity
    /\ \A i \in Span(pos + Len(op.toks)) :
         bufs[Target(op.wide)][i] = Prefix(Extend(fed, pos, op.toks), i + 1)

\* A run under way: the seed is in its slot, and the launches so far have
\* consumed the seed and the ids the ring holds.
PendingLoop ==
  /\ op.kind \in {"seed", "loop"} =>
       /\ pos + op.n <= Capacity
       /\ ring[pos] = op.seed
  /\ op.kind = "loop" =>
       /\ op.j <= op.n
       /\ \A i \in 1 .. op.j : ring[pos + i] \in Token
       /\ \A i \in Span(pos + op.j) :
            bufs[flipped][i] = Prefix(Consumed(op.j), i + 1)

\* The inductive invariant.
IInv == TypeOK /\ CacheHolds /\ KnownHolds /\ PendingBlock /\ PendingLoop /\ AnswersFed

\* One sequence of TokenSequences.
Abstract == INSTANCE TokenSequences WITH
  Sequence <- {"sequence"},
  fed <- [s \in {"sequence"} |-> fed],
  basis <- [s \in {"sequence"} |-> basis]

Implements == Abstract!SeqSpec
=============================================================================
