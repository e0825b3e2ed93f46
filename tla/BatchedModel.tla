---------------------------- MODULE BatchedModel ----------------------------
(***************************************************************************)
(* BatchedModel (reng-synapse/src/batched.rs): several sequences on one    *)
(* card that advance one token per launch, each in its own slot of the KV  *)
(* cache.  A prompt goes to one sequence, in blocks, through the prefill   *)
(* recipe: it reads one buffer and writes another, so the blocks alternate *)
(* between the sequence's slot and the recipe's own buffer, such that the  *)
(* last one lands in the slot.  The cache is as large as the longest       *)
(* sequence needs: outgrowing it recompiles the recipes for the next       *)
(* bucket and moves the rows in use (ensure).                              *)
(*                                                                         *)
(* As in CachedModel a call is several steps, any of which may fail.  The  *)
(* fields are assigned last, but not all: prefill advances pos block by    *)
(* block, and a run that wraps the ring moves head first.                  *)
(***************************************************************************)
EXTENDS KvCache

CONSTANTS
  Sequence,     \* the slots 0 .. batch - 1
  Models,       \* the models to consider: rows of the prefill recipe,
                \* configured capacity, whether the decode recipe is the
                \* device loop, the kinds of op in which a call may fail
  MinCapacity,  \* the smallest bucket
  Prompts,      \* the prompts callers feed
  Ids           \* the ids for all sequences that callers feed in one call, or
                \* that a launch may answer

ASSUME SequenceAssumption == Sequence # {}
ASSUME ModelsAssumption ==
  Models \subseteq [rows : Nat \ {0}, capacity : Nat \ {0}, loop : BOOLEAN,
                    failures : SUBSET {"prefill", "step", "seed", "run"}]
ASSUME MinCapacityAssumption == MinCapacity \in Nat \ {0}
ASSUME PromptsAssumption == Prompts \subseteq Seq(Token) \ {<<>>}
ASSUME IdsAssumption == Ids \subseteq [Sequence -> Token]

VARIABLES
  model,    \* the one of Models that was loaded
  pos,      \* position of each sequence
  cap,      \* current bucket
  head,     \* ring row of the ids the next run consumes
  known,    \* {the ids in row head}, or {}
  slots,    \* the cache of each sequence
  own,      \* the prefill recipe's own cache buffer
  ring,     \* the loop's id ring: a row holds an id per sequence
  op,       \* the call under way
  torn,     \* history: the sequences whose prefill has failed since their
            \* last reset
  fed,      \* history: the tokens each sequence was fed
  basis     \* history: the tokens its last answer was computed from

hostVars == <<model, pos, cap, head, known>>
seqVars == <<torn, fed, basis>>
vars == <<model, pos, cap, head, known, slots, own, ring, op, torn, fed, basis>>

Rows == model.rows
Capacity == model.capacity
Bucket(need) == CacheBucket(need, MinCapacity, Capacity)

Idle == [kind |-> "idle"]

TypeOK ==
  /\ model \in Models
  /\ cap \in 1 .. Capacity
  /\ pos \in [Sequence -> 0 .. cap]
  /\ head \in 0 .. Capacity
  /\ known \subseteq Ids
  /\ slots \in [Sequence -> Buffer(cap)]
  /\ own \in Buffer(cap)
  /\ ring \in [0 .. Capacity -> [Sequence -> Word]]
  /\ op \in {Idle}
         \cup [kind : {"prefill"}, s : Sequence, toks : Prompts,
               i : Nat, launched : BOOLEAN]
         \cup [kind : {"step"}, ids : Ids, launched : BOOLEAN]
         \cup [kind : {"seed"}, ids : Ids, n : 1 .. Capacity]
         \cup [kind : {"run"}, ids : Ids, n : 1 .. Capacity, j : 0 .. Capacity]
  /\ torn \subseteq Sequence
  /\ fed \in [Sequence -> TokensUpTo(Capacity)]
  /\ basis \in [Sequence -> UNION {[Span(k) -> Word] : k \in 0 .. Capacity + 1}]

Init ==
  /\ model \in Models
  /\ cap = Bucket(1)
  /\ pos = [s \in Sequence |-> 0]
  /\ head = 0
  /\ known = {}
  /\ slots = [s \in Sequence |-> FreshBuffer(Bucket(1))]
  /\ own = FreshBuffer(Bucket(1))
  /\ ring = [r \in 0 .. Capacity |-> [s \in Sequence |-> Garbage]]
  /\ op = Idle
  /\ torn = {}
  /\ fed = [s \in Sequence |-> Empty]
  /\ basis = [s \in Sequence |-> Empty]

-----------------------------------------------------------------------------
(* ensure.                                                                 *)

\* Mutant: the last row in use is not copied.
MovedShort(s, room) ==
  [i \in 0 .. room |-> IF i + 1 < pos[s] THEN slots[s][i] ELSE Junk(i + 1)]

\* The rows copied to the new bucket: those below the sequence's position.
Moved(s, room) ==
  [i \in 0 .. room |-> IF i < pos[s] THEN slots[s][i] ELSE Junk(i + 1)]

Ensure(need) ==
  IF need <= cap
  THEN UNCHANGED <<cap, slots, own>>
  ELSE /\ cap' = Bucket(need)
       /\ slots' = [s \in Sequence |-> Moved(s, Bucket(need))]
       /\ own' = FreshBuffer(Bucket(need))

\* n more tokens fit every sequence.
Fits(n) == \A s \in Sequence : pos[s] + n <= Capacity

\* The position of the longest sequence.
Furthest == CHOOSE p \in 0 .. Capacity :
              /\ \E s \in Sequence : pos[s] = p
              /\ \A s \in Sequence : pos[s] <= p

-----------------------------------------------------------------------------
(* prefill_rows.                                                           *)

NBlocks(toks) == DivCeil(Len(toks), Rows)

\* What the caller owes (TpModel asserts it, BatchedGenerator resets first):
\* an odd number of blocks onto a sequence that is not empty would begin with
\* the recipe's own buffer.
Prefill(s, toks) ==
  /\ op = Idle
  /\ pos[s] = 0 \/ NBlocks(toks) % 2 = 0
  /\ pos[s] + Len(toks) <= Capacity
  /\ Ensure(pos[s] + Len(toks))
  /\ op' = [kind |-> "prefill", s |-> s, toks |-> toks, i |-> 0, launched |-> FALSE]
  /\ UNCHANGED <<model, pos, head, known, ring, seqVars>>

\* Block i of a prompt.
Chunk(toks, i) ==
  SubSeq(toks, i * Rows + 1, Least((i + 1) * Rows, Len(toks)))

\* Mutant: the first block goes to the slot whatever their number.
ToSlotFromStart(toks, i) == i % 2 = 0

\* Whether block i is written to the slot; if not, it is read from there.
ToSlot(toks, i) == (NBlocks(toks) - 1 - i) % 2 = 0

\* The uploads and the launch of a block.
PrefillLaunch ==
  /\ op.kind = "prefill"
  /\ ~op.launched
  /\ LET chunk == Chunk(op.toks, op.i)
         Out(in) == Scatter(in, pos[op.s], chunk, cap, cap + 1)
     IN  IF ToSlot(op.toks, op.i)
         THEN /\ slots' = [slots EXCEPT ![op.s] = Out(own)]
              /\ UNCHANGED own
         ELSE /\ own' = Out(slots[op.s])
              /\ UNCHANGED slots
  /\ op' = [op EXCEPT !.launched = TRUE]
  /\ UNCHANGED <<hostVars, ring, seqVars>>

\* Its answer has been read: the call goes on to the next block, or returns.
PrefillRead ==
  /\ op.kind = "prefill"
  /\ op.launched
  /\ pos' = [pos EXCEPT ![op.s] = @ + Len(Chunk(op.toks, op.i))]
  /\ IF op.i + 1 < NBlocks(op.toks)
     THEN /\ op' = [op EXCEPT !.i = op.i + 1, !.launched = FALSE]
          /\ UNCHANGED seqVars
     ELSE /\ op' = Idle
          /\ IF op.s \in torn
             THEN UNCHANGED <<fed, basis>>
             ELSE /\ fed' = [fed EXCEPT ![op.s] =
                       Extend(@, pos'[op.s] - Len(op.toks), op.toks)]
                  /\ basis' = [basis EXCEPT ![op.s] = slots[op.s][pos'[op.s] - 1]]
          /\ UNCHANGED torn
  /\ UNCHANGED <<model, cap, head, known, slots, own, ring>>

-----------------------------------------------------------------------------
(* step_rows: one token for every sequence, given as embeddings.           *)

Step(ids) ==
  /\ ~model.loop
  /\ op = Idle
  /\ Fits(1)
  /\ Ensure(Furthest + 1)
  /\ op' = [kind |-> "step", ids |-> ids, launched |-> FALSE]
  /\ UNCHANGED <<model, pos, head, known, ring, seqVars>>

\* A launch of the decode recipe, in place: every sequence's token at its
\* position.
Launched(at, ids) ==
  [s \in Sequence |-> Scatter(slots[s], at[s], <<ids[s]>>, cap, cap + 1)]

StepLaunch ==
  /\ op.kind = "step"
  /\ ~op.launched
  /\ slots' = Launched(pos, op.ids)
  /\ op' = [op EXCEPT !.launched = TRUE]
  /\ UNCHANGED <<hostVars, own, ring, seqVars>>

StepRead ==
  /\ op.kind = "step"
  /\ op.launched
  /\ pos' = [s \in Sequence |-> pos[s] + 1]
  /\ fed' = [s \in Sequence |-> IF s \in torn THEN fed[s]
                                ELSE Extend(fed[s], pos[s], <<op.ids[s]>>)]
  /\ basis' = [s \in Sequence |-> IF s \in torn THEN basis[s]
                                  ELSE slots[s][pos[s]]]
  /\ op' = Idle
  /\ UNCHANGED <<model, cap, head, known, slots, own, ring, torn>>

-----------------------------------------------------------------------------
(* loop_steps: n tokens for every sequence, the first one given.           *)

\* A run needs rows head to head + n of the ring; at the end of the ring it
\* starts over, where the host knows nothing.
RingHead(n) == IF head + n > Capacity THEN 0 ELSE head
KnownAt(n) == IF head + n > Capacity THEN {} ELSE known

\* The ids a run begins with are uploaded unless the last run left them in
\* row head.
Run(ids, n) ==
  /\ model.loop
  /\ op = Idle
  /\ Fits(n)
  /\ Ensure(Furthest + n)
  /\ head' = RingHead(n)
  /\ known' = KnownAt(n)
  /\ ring' = IF ids \in KnownAt(n) THEN ring ELSE [ring EXCEPT ![RingHead(n)] = ids]
  /\ op' = [kind |-> "seed", ids |-> ids, n |-> n]
  /\ UNCHANGED <<model, pos, seqVars>>

\* The n rows the run will write are filled with the sentinel.
RunFill ==
  /\ op.kind = "seed"
  /\ ring' = [r \in 0 .. Capacity |->
                IF r > head /\ r <= head + op.n
                THEN [s \in Sequence |-> Garbage] ELSE ring[r]]
  /\ op' = [kind |-> "run", ids |-> op.ids, n |-> op.n, j |-> 0]
  /\ UNCHANGED <<hostVars, slots, own, seqVars>>

\* Launch j: the ids in its ring row, at positions j past the sequences',
\* answered in the next row.
RunLaunch(out) ==
  /\ op.kind = "run"
  /\ op.j < op.n
  /\ slots' = Launched([s \in Sequence |-> pos[s] + op.j], ring[head + op.j])
  /\ ring' = [ring EXCEPT ![head + op.j + 1] = out]
  /\ op' = [op EXCEPT !.j = op.j + 1]
  /\ UNCHANGED <<hostVars, own, seqVars>>

\* What the caller knows sequence s was fed: its id, then those read.
Consumed(s, n) ==
  [i \in Span(pos[s] + n) |-> IF i < pos[s] THEN fed[s][i]
                              ELSE IF i = pos[s] THEN op.ids[s]
                              ELSE ring[head + i - pos[s]][s]]

\* The ids a run of n launches has left for the next one.
LastIds(n) == ring[head + n]

RunRead ==
  /\ op.kind = "run"
  /\ op.j = op.n
  /\ head' = head + op.n
  /\ known' = {LastIds(op.n)}
  /\ pos' = [s \in Sequence |-> pos[s] + op.n]
  /\ fed' = [s \in Sequence |-> IF s \in torn THEN fed[s] ELSE Consumed(s, op.n)]
  /\ basis' = [s \in Sequence |-> IF s \in torn THEN basis[s]
                                  ELSE slots[s][pos[s] + op.n - 1]]
  /\ op' = Idle
  /\ UNCHANGED <<model, cap, slots, own, ring, torn>>

-----------------------------------------------------------------------------
\* The call under way returns an error.  A prefill has advanced its sequence
\* by the blocks it had read: the sequence is torn until it is reset.
Fail ==
  /\ op.kind \in model.failures
  /\ torn' = IF op.kind = "prefill" THEN torn \cup {op.s} ELSE torn
  /\ op' = Idle
  /\ UNCHANGED <<hostVars, slots, own, ring, fed, basis>>

\* reset(b)
Reset(s) ==
  /\ op = Idle
  /\ pos' = [pos EXCEPT ![s] = 0]
  /\ torn' = torn \ {s}
  /\ fed' = [fed EXCEPT ![s] = Empty]
  /\ basis' = [basis EXCEPT ![s] = Empty]
  /\ UNCHANGED <<model, cap, head, known, slots, own, ring, op>>

Next ==
  \/ \E s \in Sequence, toks \in Prompts : Prefill(s, toks)
  \/ PrefillLaunch
  \/ PrefillRead
  \/ \E ids \in Ids : Step(ids)
  \/ StepLaunch
  \/ StepRead
  \/ \E ids \in Ids, n \in 1 .. Capacity : Run(ids, n)
  \/ RunFill
  \/ \E out \in Ids : RunLaunch(out)
  \/ RunRead
  \/ Fail
  \/ \E s \in Sequence : Reset(s)

Spec == Init /\ [][Next]_vars

-----------------------------------------------------------------------------
(* Properties.                                                             *)

\* The rows below a sequence's position in its slot are those of its tokens,
\* unless a prefill of it is under way or has failed.
CacheHolds ==
  \A s \in Sequence \ torn :
    (op.kind = "prefill" => op.s # s) =>
      DOMAIN fed[s] = Span(pos[s]) /\ RowsOf(slots[s], pos[s], fed[s])

\* Between calls row head of the ring holds the ids the host believes are
\* there.
KnownHolds ==
  op.kind \notin {"seed", "run"} => \A ids \in known : ring[head] = ids

\* Where the prefill under way began.
Base == pos[op.s] - op.i * Rows

\* The buffer its block is read from, and the one it is written to.
Source == IF ToSlot(op.toks, op.i) THEN own ELSE slots[op.s]
Target == IF ToSlot(op.toks, op.i) THEN slots[op.s] ELSE own

\* A prefill under way has room for its prompt, and the blocks it has read are
\* in the buffer the next one reads, wherever that is.
PendingPrefill ==
  op.kind = "prefill" =>
    /\ op.i < NBlocks(op.toks)
    /\ 0 <= Base /\ Base + Len(op.toks) <= cap
    /\ op.s \notin torn =>
         /\ DOMAIN fed[op.s] = Span(Base)
         /\ LET all == Extend(fed[op.s], Base, op.toks)
            IN  IF op.launched
                THEN RowsOf(Target, pos[op.s] + Len(Chunk(op.toks, op.i)), all)
                ELSE RowsOf(Source, pos[op.s], all)

\* A step under way has room for every sequence's token, and once launched
\* has written them.
PendingStep ==
  op.kind = "step" =>
    \A s \in Sequence :
      /\ pos[s] + 1 <= cap
      /\ op.launched /\ s \notin torn =>
           RowsOf(slots[s], pos[s] + 1, Extend(fed[s], pos[s], <<op.ids[s]>>))

\* A run under way: its first ids are in row head, and the launches so far
\* have consumed them and the ids the ring holds.
PendingRun ==
  /\ op.kind \in {"seed", "run"} =>
       /\ \A s \in Sequence : pos[s] + op.n <= cap
       /\ head + op.n <= Capacity
       /\ ring[head] = op.ids
  /\ op.kind = "run" =>
       /\ op.j <= op.n
       /\ \A i \in 1 .. op.j : ring[head + i] \in Ids
       /\ \A s \in Sequence \ torn : RowsOf(slots[s], pos[s] + op.j, Consumed(s, op.j))

\* What holds in every state, across bucket growth, the ring's wrap and calls
\* that fail: the rows in use, what the host believes of the ring, and what a
\* call under way has left on the device.
IInv ==
  TypeOK /\ CacheHolds /\ KnownHolds /\ PendingPrefill /\ PendingStep /\ PendingRun

\* One TokenSequences for all the sequences: every answer is computed from
\* all the tokens its sequence was fed since its last reset and from nothing
\* else (not another sequence, not what its slot held before, not the other
\* prompt in the prefill's own buffer).
Abstract == INSTANCE TokenSequences WITH
              Capacity <- CHOOSE c \in {m.capacity : m \in Models} :
                            \A m \in Models : m.capacity <= c
Implements == Abstract!SeqSpec
=============================================================================
