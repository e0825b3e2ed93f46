----------------------------- MODULE Generators -----------------------------
(***************************************************************************)
(* Generator and BatchedGenerator (reng-model/src/lib.rs) over the memory  *)
(* of one card.  A call first asks the plan whether the bucket it will     *)
(* reach fits (room_for), and BatchedModel::ensure then grows the cache:   *)
(* it builds the next decode runtime and the next prefill runtime while    *)
(* the old ones are alive, and only then drops those.  The first runtime   *)
(* stays for the weights.  Runtime::build allocates one buffer after the   *)
(* other and gives none back when it fails, for want of memory or of       *)
(* anything else.                                                          *)
(*                                                                         *)
(* Only the weights and the cache buffers are counted on the card; what    *)
(* the launches compute is in CachedModel and BatchedModel.                *)
(***************************************************************************)
EXTENDS CachePlans, FiniteSets, Sequences

CONSTANTS Plans,       \* the plans to consider
          MaxFailures  \* bound: builds that fail although there is room

ASSUME PlanAssumption == Plans \subseteq Plan /\ MaxFailures \in Nat \ {0}

VARIABLES plan,
          pos,       \* position of each sequence; empty while there is no model
          cap,       \* current bucket, 0 while there is no model
          card,      \* the runtimes with cache buffers on the card
          leaked,    \* bytes of failed builds
          todo,      \* the runtimes the call under way has to build
          ask,       \* what the call does once they are built
          told,      \* the capacity the last refusal named: {} or {n}
          failures

vars == <<plan, pos, cap, card, leaked, todo, ask, told, failures>>

-----------------------------------------------------------------------------
(* The card.                                                               *)

\* A runtime: the first decode recipe (or the single-sequence one), a later
\* decode recipe, or the prefill recipe, for a bucket.
Runtime(role, c) == [role |-> role, cap |-> c]

\* Caches of one sequence a runtime allocates.  The prefill recipe of a batch
\* of one finds its pair by name and size in the decode runtime's.
Slots(p, r) == CASE r.role = "prefill" -> IF p.batch = 1 THEN 0 ELSE 2
                 [] r.role # "prefill" /\ Single(p) -> 2
                 [] OTHER -> p.batch
RuntimeBytes(p, r) ==
  BytesPerPosition(p) * (r.cap + 1) * Slots(p, r)
  + (IF r.role = "base" THEN p.weight_bytes ELSE 0)

BytesOf(p, runtimes) ==
  LET sum[S \in SUBSET runtimes] ==
        IF S = {} THEN 0
        ELSE LET r == CHOOSE r \in S : TRUE IN RuntimeBytes(p, r) + sum[S \ {r}]
  IN  sum[runtimes]
InUse == leaked + BytesOf(plan, card)

\* A model of bucket c has these and no others.
FirstCapacity == AllocatedCapacity(plan, 1)
RuntimesOf(c) ==
  IF Single(plan) THEN {Runtime("base", c)}
  ELSE {Runtime("base", FirstCapacity), Runtime("prefill", c)}
       \cup (IF c = FirstCapacity THEN {} ELSE {Runtime("decode", c)})

-----------------------------------------------------------------------------
(* The calls.                                                              *)

Idle == [kind |-> "idle"]
Ready == todo = <<>> /\ ask = Idle
Loaded == Ready /\ cap > 0 /\ ~Single(plan)

Init ==
  /\ plan \in Plans
  /\ pos = <<>> /\ cap = 0 /\ card = {} /\ leaked = 0
  /\ todo = <<>> /\ ask = Idle /\ told = {} /\ failures = 0

\* check(capacity) does not hold: the error names the largest that would.
Refused(c) ==
  /\ ~FitsAt(plan, c)
  /\ told' = {MaxCapacity(plan)}
  /\ UNCHANGED <<plan, pos, cap, card, leaked, todo, ask, failures>>

\* Generator::new and BatchedGenerator::new.  A process whose construction
\* failed has lost its card.
Construct ==
  /\ Ready /\ cap = 0 /\ failures = 0
  /\ \/ Refused(FirstCapacity)
     \/ /\ FitsAt(plan, FirstCapacity)
        /\ ask' = [kind |-> "new", cap |-> FirstCapacity]
        /\ todo' = <<Runtime("base", FirstCapacity)>>
                   \o (IF Single(plan) THEN <<>> ELSE <<Runtime("prefill", FirstCapacity)>>)
        /\ told' = {}
        /\ UNCHANGED <<plan, pos, cap, card, leaked, failures>>

\* ensure(need)
Growth(need) ==
  IF need <= cap THEN <<>>
  ELSE LET c == AllocatedCapacity(plan, need) IN <<Runtime("decode", c), Runtime("prefill", c)>>
Reached(need) == IF need <= cap THEN cap ELSE AllocatedCapacity(plan, need)

\* prefill and prefill_id: the sequence starts afresh before the cache grows.
Prefill(s, n) ==
  /\ Loaded /\ n <= plan.capacity
  /\ \/ Refused(AllocatedCapacity(plan, n))
     \/ /\ FitsAt(plan, AllocatedCapacity(plan, n))
        /\ pos' = [pos EXCEPT ![s] = 0]
        /\ todo' = Growth(n)
        /\ ask' = [kind |-> "prefill", s |-> s, n |-> n, cap |-> Reached(n)]
        /\ told' = {}
        /\ UNCHANGED <<plan, cap, card, leaked, failures>>

\* step, step_ids (n = 1) and generate: the room the furthest sequence needs.
\* Without the device loop a run that was approved is n of step_ids, and each
\* asks again and grows for itself: n times this with n = 1.
Furthest == CHOOSE p \in {pos[s] : s \in DOMAIN pos} : \A s \in DOMAIN pos : pos[s] <= p
Wanted(n) == Furthest + n   \* what room_for is asked for
Generate(n) ==
  /\ Loaded /\ Wanted(n) <= plan.capacity
  /\ \/ Refused(AllocatedCapacity(plan, Wanted(n)))
     \/ /\ FitsAt(plan, AllocatedCapacity(plan, Wanted(n)))
        /\ todo' = Growth(Wanted(n))
        /\ ask' = [kind |-> "generate", n |-> n, cap |-> Reached(Wanted(n))]
        /\ told' = {}
        /\ UNCHANGED <<plan, pos, cap, card, leaked, failures>>

-----------------------------------------------------------------------------
(* The builds.                                                             *)

Room == plan.device_bytes - InUse

\* Runtime::new_with.
Build ==
  /\ todo # <<>> /\ RuntimeBytes(plan, Head(todo)) <= Room
  /\ card' = card \cup {Head(todo)}
  /\ todo' = Tail(todo)
  /\ UNCHANGED <<plan, pos, cap, leaked, ask, told, failures>>

\* The call fails with some of the buffers allocated.  What it had built
\* before is dropped with its locals, all of it of the bucket it was after:
\* one runtime of a growth, or the model under way.
Least(a, b) == IF a < b THEN a ELSE b
BuildFails ==
  /\ todo # <<>>
  /\ failures < MaxFailures \/ RuntimeBytes(plan, Head(todo)) > Room
  /\ failures' = Least(failures + 1, MaxFailures)
  /\ \E part \in {0, RuntimeBytes(plan, Head(todo)) \div 2} : leaked' = leaked + Least(part, Room)
  /\ card' = {r \in card : r.cap # ask.cap}
  /\ todo' = <<>> /\ ask' = Idle
  /\ UNCHANGED <<plan, pos, cap, told>>

\* Mutant: the decode recipe the cache has outgrown stays.
KeptRuntimes(c) == card \ {Runtime("prefill", cap)}

\* The old prefill recipe goes, then the old decode recipe.
Kept(c) == card \cap RuntimesOf(c)

\* The launches, all of them: the call returns.
Return ==
  /\ todo = <<>> /\ ask # Idle
  /\ card' = Kept(ask.cap)
  /\ cap' = ask.cap
  /\ pos' = CASE ask.kind = "new" -> [s \in 1 .. plan.batch |-> 0]
              [] ask.kind = "prefill" -> [pos EXCEPT ![ask.s] = ask.n]
              [] ask.kind = "generate" -> [s \in DOMAIN pos |-> pos[s] + ask.n]
  /\ ask' = Idle
  /\ UNCHANGED <<plan, leaked, todo, told, failures>>

\* A single-sequence model allocates no more, and one that could not be
\* constructed never will.
Finished ==
  /\ Ready
  /\ \/ Single(plan) /\ cap > 0
     \/ cap = 0 /\ failures > 0
  /\ UNCHANGED vars

Next ==
  \/ Construct
  \/ \E s \in DOMAIN pos, n \in 1 .. plan.capacity : Prefill(s, n)
  \/ \E n \in 1 .. plan.capacity : Generate(n)
  \/ Build \/ BuildFails \/ Return \/ Finished

Spec == Init /\ [][Next]_vars

-----------------------------------------------------------------------------
(* Properties.                                                             *)

\* What cache_bytes_at leaves out of a growth: the first bucket's caches,
\* which stay for the weights, and the prefill pair of the old bucket; and
\* the old bucket is half of the new one only if the ceiling is a doubling of
\* the smallest bucket.  A plan whose reserve holds these is covered.
Omitted(p) ==
  IF Single(p) THEN 0
  ELSE BytesPerPosition(p) * (p.batch * (AllocatedCapacity(p, 1) + 2) + p.capacity + 2)
Covered(p) ==
  /\ p.reserve_bytes >= Omitted(p)
  /\ Single(p) \/ (\E k \in 0 .. p.capacity : p.capacity = Shape!Doubled(MinCapacity)[k])

\* "the growth this call is about to ask for will not fail in the middle of a
\* compile" (room_for): the bucket the call reaches was one that fits, and
\* for a covered plan whatever is still to be built has room beside all that
\* is alive then, with the transients of the new bucket to spare, whatever
\* sequence of prefills and runs led there.
ApprovedGrowthFits ==
  /\ \A r \in card : FitsAt(plan, r.cap)
  /\ Covered(plan) /\ leaked = 0 /\ todo # <<>> =>
       RuntimeBytes(plan, Head(todo)) + TransientBytesAt(plan, ask.cap) <= Room

\* Between calls the card holds the runtimes of the current bucket, each
\* once, also after a growth that failed half-way: nothing of an outgrown
\* bucket but the first one's, no runtime without its model, and no position
\* without a slot.
CardAccounted ==
  /\ Ready => card = (IF cap = 0 THEN {} ELSE RuntimesOf(cap))
  /\ \A s \in DOMAIN pos : pos[s] <= cap

\* The capacity a refusal names fits and the next one does not; on the
\* batched path no larger one fits either.  (The single path's total is not
\* monotone, whatever max_capacity says of it: its key columns shrink where
\* key_step doubles.)
RefusalNamesLargest ==
  \A n \in told :
    /\ n > 0 => FitsAt(plan, n)
    /\ ~FitsAt(plan, n + 1)
    /\ ~Single(plan) => \A c \in n + 1 .. 2 * plan.capacity : ~FitsAt(plan, c)

-----------------------------------------------------------------------------
(* The inductive invariant behind them.                                    *)

Held == [role : {"base", "decode", "prefill"}, cap : Nat]

TypeOK ==
  /\ plan \in Plans
  /\ pos \in IF cap = 0 THEN {<<>>} ELSE [1 .. plan.batch -> 0 .. cap]
  /\ cap \in Nat
  /\ card \subseteq Held /\ IsFiniteSet(card)
  /\ leaked \in Nat
  /\ todo \in Seq(Held)
  /\ told \in {{}, {MaxCapacity(plan)}}
  /\ failures \in 0 .. MaxFailures

\* The smallest bucket doubled, or the ceiling.
IsBucket(c) ==
  IF Single(plan) THEN c = plan.capacity
  ELSE \E k \in 0 .. plan.capacity :
         c = Shape!Least(Shape!Doubled(MinCapacity)[k], plan.capacity)

\* A model has a bucket, and was constructed at the first: both fitted.
Bucketed ==
  cap > 0 => IsBucket(cap) /\ FitsAt(plan, cap) /\ FitsAt(plan, FirstCapacity)

\* What the card holds between calls.
Now == IF cap = 0 THEN {} ELSE RuntimesOf(cap)

\* Of the runtimes all the first have been built beside those, the others are
\* still to be.
Building(all) ==
  \E k \in 0 .. Len(all) :
    /\ Len(todo) = Len(all) - k
    /\ \A i \in 1 .. Len(todo) : todo[i] = all[k + i]
    /\ card = Now \cup {all[i] : i \in 1 .. k}

\* The runtimes of a model under construction.
Firsts ==
  <<Runtime("base", FirstCapacity)>>
    \o (IF Single(plan) THEN <<>> ELSE <<Runtime("prefill", FirstCapacity)>>)

\* Whatever call is under way was approved, for what it goes on to do.
UnderWay ==
  \/ ask = Idle /\ todo = <<>> /\ card = Now
  \/ /\ ask = [kind |-> "new", cap |-> FirstCapacity] /\ cap = 0
     /\ FitsAt(plan, FirstCapacity)
     /\ Building(Firsts)
  \/ /\ cap > 0 /\ ~Single(plan)
     /\ \E n \in 1 .. plan.capacity :
          /\ FitsAt(plan, AllocatedCapacity(plan, n))
          /\ Building(Growth(n))
          /\ \/ \E s \in 1 .. plan.batch :
                  ask = [kind |-> "prefill", s |-> s, n |-> n, cap |-> Reached(n)]
             \/ \E m \in 1 .. n :
                  /\ ask = [kind |-> "generate", n |-> m, cap |-> Reached(n)]
                  /\ \A s \in 1 .. plan.batch : pos[s] + m <= n

\* What is on the card was there to be had.
WithinCard == InUse <= plan.device_bytes

IInv == TypeOK /\ Bucketed /\ UnderWay /\ WithinCard
=============================================================================
