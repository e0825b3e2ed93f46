------------------------------- MODULE TpRuns -------------------------------
(***************************************************************************)
(* The ranks of a tensor-parallel decoder (TpModel, tp.rs), each with its  *)
(* shard of the model, its device memory and its own host program, and the *)
(* all-reduces that join them.  A rank's host enqueues a call's work on    *)
(* the rank's stream and reads the ids back at the end of it; the stream   *)
(* runs in order until it reaches an all-reduce, which happens when every  *)
(* rank's stream has.  Ranks are otherwise free: one may be calls of       *)
(* launches ahead of another.                                              *)
(*                                                                         *)
(* Every rank makes the same calls, for each runs the same program         *)
(* (bin/tp.rs); the ids a call is fed are the rank's own.                  *)
(***************************************************************************)
EXTENDS TpGraphs

CONSTANTS
    Jobs,
    Stale,      \* what a read-back buffer holds before its first launch
    MaxCalls,   \* bound: the calls of a run
    MaxCall     \* bound: the positions of a call

ASSUME TpBoundAssumption == MaxCalls \in Nat /\ MaxCall \in Nat \ {0}
ASSUME TpJobsAssumption ==
    \A j \in Jobs : j.world \in Nat \ {0} /\ j.rows \in Nat \ {0} /\ Len(j.m.layers) \in Nat

VARIABLES
    job,
    script,     \* the calls made so far, the same for every rank
    rank        \* of every rank its host's fields, its memory and its stream

tpVars == <<job, script, rank>>

Ranks == 1..job.world
\* The recipes of a rank, compiled over its shard; TLC computes them once per
\* job.
Recipes(j) ==
    [a_dec |-> IF j.b = 1 THEN BuildA(j, 1, "") ELSE BuildABatched(j),
     b_dec |-> BuildB(j, j.b),
     head_dec |-> BuildHeadTp(j, j.b),
     e_dec |-> IF j.b = 1 THEN BuildEmbed(j) ELSE BuildEmbedBatched(j),
     a_pre |-> BuildA(j, j.rows, "P"),
     b_pre |-> BuildB(j, j.rows),
     head_pre |-> BuildHeadTp(j, j.rows)]
InOrder == <<"a_dec", "b_dec", "head_dec", "e_dec", "a_pre", "b_pre", "head_pre">>

\* Bindings: recipes share the buffers of tensors with one name and one number
\* of elements; the first recipe to have it fills it.
Address(name, sz) == <<name[1], name[2], Count(sz)>>
Persistent(recipes) ==
    Stepped(Len(InOrder), <<>>, LAMBDA all, k : all \o recipes[InOrder[k]].has)
FirstOf(every, p) ==
    every[CHOOSE k \in DOMAIN every :
            /\ Address(every[k].name, every[k].sz) = p
            /\ \A o \in 1..(k-1) : Address(every[o].name, every[o].sz) # p]
Filled(t, p) ==
    IF t.at # <<>> THEN t.at
    ELSE Elements(p[3], LAMBDA k : IF t.name = Gl("IDS") THEN Stale ELSE 0)
AllocatedFor(every) ==
    [p \in {Address(every[k].name, every[k].sz) : k \in DOMAIN every} |-> Filled(FirstOf(every, p), p)]
Allocated(recipes) == AllocatedFor(Persistent(recipes))

\* The layers' buffers: the weights of every layer but the first, whose are
\* the recipes' own, and the caches of all.
SlotSize(j) == HeadDim(j) * (j.cap + 1) * Groups(j)
Zeros(n) == Elements(n, LAMBDA k : 0)
RingRow(r) == <<"ring", r, 0>>
PosRow(r) == <<"postab", r, 0>>
Stored(j) ==
    LET layers == j.m.layers
        a(k) == AWeightSources(layers[k], j.h)
        b(k) == BWeightSources(layers[k], j.h, j.i)
    IN  [p \in {<<"layer a", k, n>> : k \in 2..Len(layers), n \in DOMAIN AWeightNames(layers[1])} |->
            a(p[2])[p[3]]]
        @@ [p \in {<<"layer b", k, n>> : k \in 2..Len(layers), n \in DOMAIN BWeightNames} |-> b(p[2])[p[3]]]
        @@ [p \in {<<c, k, 0>> : c \in {"cache k", "cache v"}, k \in DOMAIN layers} |-> Zeros(SlotSize(j) * j.b)]
        @@ [p \in {<<c, k, 0>> : c \in {"wide k", "wide v"}, k \in DOMAIN layers} |-> Zeros(SlotSize(j))]
        @@ [p \in {RingRow(r) : r \in 0..j.cap} \cup {PosRow(r) : r \in 0..(j.cap - 1)} |->
            Elements(j.b, LAMBDA k : Stale)]

-----------------------------------------------------------------------------
\* One launch: the recipe's tensors at `bind` where they are bound, else at
\* their own address.

SizeOf(has, n) == has[CHOOSE k \in DOMAIN has : has[k].name = n].sz
\* The buffers a launch sees through the tensors bound to them.
Held(has, where, mem) ==
    [p \in {where[has[k].name] : k \in DOMAIN has} |->
        [sz |-> has[CHOOSE k \in DOMAIN has : where[has[k].name] = p].sz, at |-> mem[p]]]
WithResults(held, after, mem) == [p \in DOMAIN held |-> after[p].at] @@ mem
LaunchOver(nodes, held, where, mem) == WithResults(held, Ran(nodes, held, where), mem)
LaunchAt(recipe, where, mem) ==
    LaunchOver(recipe.nodes, Held(recipe.has, where, mem), where, mem)
Launch(recipe, bind, mem) ==
    LaunchAt(recipe,
             bind @@ [n \in {recipe.has[k].name : k \in DOMAIN recipe.has} |->
                         Address(n, SizeOf(recipe.has, n))],
             mem)

\* Layer li's weights under layer 1's names.
Weights(names, kind, li) ==
    IF li = 1 THEN <<>>
    ELSE [n \in {names[k] : k \in DOMAIN names} |->
            <<kind, li, CHOOSE k \in DOMAIN names : names[k] = n>>]
Cached(from, to) ==
    [n \in {Nl("kci"), Nl("vci"), Nl("kco"), Nl("vco")} |->
        CASE n = Nl("kci") -> from[1] [] n = Nl("vci") -> from[2]
          [] n = Nl("kco") -> to[1] [] OTHER -> to[2]]
\* bind_dec: the caches of every slot, in place.
BindDec(j, li) ==
    LET slots == << <<"cache k", li, 0>>, <<"cache v", li, 0>> >>
    IN  Weights(AWeightNames(j.m.layers[1]), "layer a", li) @@ Cached(slots, slots)
\* bind_pre: from the wide recipe's own buffer into the slot, or back.
BindPre(j, li, toslot) ==
    LET own == << <<"wide k", li, 0>>, <<"wide v", li, 0>> >>
        slot == << <<"slot k", 0, 0>>, <<"slot v", 0, 0>> >>
    IN  Weights(AWeightNames(j.m.layers[1]), "layer a", li)
        @@ (IF toslot THEN Cached(own, slot) ELSE Cached(slot, own))

\* Recipe A of the prefill sees sequence s's slot of the caches, and leaves its
\* results there.
SlotPart(j, all, s) == SubSeq(all, (s - 1) * SlotSize(j) + 1, s * SlotSize(j))
WithPart(j, all, s, part) ==
    SubSeq(all, 1, (s - 1) * SlotSize(j)) \o part \o SubSeq(all, s * SlotSize(j) + 1, Len(all))
SlotViews(j, li, s, mem) ==
    <<"slot k", 0, 0>> :> SlotPart(j, mem[<<"cache k", li, 0>>], s)
    @@ <<"slot v", 0, 0>> :> SlotPart(j, mem[<<"cache v", li, 0>>], s)
    @@ mem
SlotsBack(j, li, s, mem, after) ==
    <<"cache k", li, 0>> :> WithPart(j, mem[<<"cache k", li, 0>>], s, after[<<"slot k", 0, 0>>])
    @@ <<"cache v", li, 0>> :> WithPart(j, mem[<<"cache v", li, 0>>], s, after[<<"slot v", 0, 0>>])
    @@ [p \in DOMAIN mem |-> after[p]]

-----------------------------------------------------------------------------
\* The work of a call, in the order a rank enqueues it.

\* The sequences of a sequence one after the other; of its first k.
FirstOnes(parts) ==
    LET upto[k \in 0..Len(parts)] == IF k = 0 THEN <<>> ELSE upto[k-1] \o parts[k]
    IN  upto
Flat(parts) == FirstOnes(parts)[Len(parts)]
Item(do, k, arg) == << [do |-> do, k |-> k, arg |-> arg] >>
Layers == Len(job.m.layers)

\* prefill: blocks of `rows`, the last of which lands in the slot.
ToSlotAt(nblocks, i) == (nblocks - i) % 2 = 0
PrefillWork(s, ids) ==
    LET p == job.rows
        nblocks == (Len(ids) + p - 1) \div p
        chunk(i) == SubSeq(ids, p * (i - 1) + 1, Smallest(p * i, Len(ids)))
        layer(i, li) ==
          Item("a_pre", li, [s |-> s, toslot |-> ToSlotAt(nblocks, i)])
          \o Item("reduce", li, Address(Nl("P1"), <<job.h * p>>))
          \o Item("b_pre", li, 0) \o Item("reduce", li, Address(Nl("P2"), <<job.h * p>>))
        block(i) ==
          Item("upload", i, [s |-> s, ids |-> chunk(i)]) \o Flat([li \in 1..Layers |-> layer(i, li)])
          \o Item("head_pre", i, [s |-> s, ids |-> chunk(i), last |-> i = nblocks])
    IN  Flat([i \in 1..nblocks |-> block(i)])

\* decode: n launches, each from the ids the one before left in the ring.
\* Mutant: rank 1 alone, which reports the ids, joins the last partial sum.
ReportersLastSum(r, n, head) ==
    LET count == job.h * job.b
        layer(li) ==
          Item("a_dec", li, 0) \o Item("reduce", li, Address(Nl("P1"), <<count>>))
          \o Item("b_dec", li, 0)
          \o When(li # Layers \/ r # 1, Item("reduce", li, Address(Nl("P2"), <<count>>)))
    IN  Flat([k \in 1..n |-> Item("e_dec", head + k - 1, k - 1)
                              \o Flat([li \in 1..Layers |-> layer(li)])
                              \o Item("head_dec", head + k, 0)])
DecodeWork(r, n, head) ==
    LET count == job.h * job.b
        layer(li) ==
          Item("a_dec", li, 0) \o Item("reduce", li, Address(Nl("P1"), <<count>>))
          \o Item("b_dec", li, 0) \o Item("reduce", li, Address(Nl("P2"), <<count>>))
    IN  Flat([k \in 1..n |-> Item("e_dec", head + k - 1, k - 1)
                              \o Flat([li \in 1..Layers |-> layer(li)])
                              \o Item("head_dec", head + k, 0)])

-----------------------------------------------------------------------------
\* What each item does to its rank, k being the rank's record.

\* The rows of a block, uploaded with an empty partial sum.
Uploaded(k, item) ==
    LET p == job.rows  hd == HeadDim(job)  g == Groups(k.shard)  keys == job.cap + 1
        pos == k.pos[item.arg.s]
        n == Len(item.arg.ids)
        x == Padded(Embedded(job, item.arg.ids), p, job.h)
    IN  [k EXCEPT !.mem[Address(Nl("P2"), <<job.h * p>>)] = Zeros(job.h * p),
                  !.mem[Address(Nl("H"), <<job.h * p>>)] = x,
                  !.mem[Address(Nl("SINP"), <<hd * p>>)] = RopeHost(job.sin, p, pos, job.cap, hd),
                  !.mem[Address(Nl("COSP"), <<hd * p>>)] = RopeHost(job.cos, p, pos, job.cap, hd),
                  !.mem[Address(Nl("MASKP"), <<keys * p>>)] = MaskRows(p, keys, job.cap, pos, 0),
                  !.mem[Address(Nl("KIDXP"), <<3 * p * g>>)] = ScatterIndex(p, n, job.cap, pos, g)[1].at]

\* The launch an item enqueues: where its recipe's tensors are bound, and the
\* memory it sees.
Bound(k, item) ==
    CASE item.do = "a_pre" -> BindPre(k.shard, item.k, item.arg.toslot)
      [] item.do \in {"b_pre", "b_dec"} -> Weights(BWeightNames, "layer b", item.k)
      [] item.do = "e_dec" -> Gl("IDS_IN") :> RingRow(item.k) @@ Gl("POS") :> PosRow(item.arg)
      [] item.do = "a_dec" -> BindDec(k.shard, item.k)
      [] item.do = "head_dec" -> Gl("IDS") :> RingRow(item.k)
      [] item.do = "head_pre" -> <<>>
Seen(k, item) ==
    IF item.do = "a_pre" THEN SlotViews(k.shard, item.k, item.arg.s, k.mem) ELSE k.mem

\* The head of a block, whose last real row's id is read back.
PrefillRead(k, arg, after) ==
    LET s == arg.s
        n == Len(arg.ids)
    IN  [k EXCEPT !.mem = after, !.pos[s] = @ + n, !.fed[s] = @ \o arg.ids,
                  !.known = <<>>,
                  !.said = IF arg.last
                           THEN {[seq |-> s, ids |-> <<after[Address(Gl("IDS"), <<job.rows>>)][n]>>]} ELSE @]
Launched(k, item, after) ==
    CASE item.do = "a_pre" -> [k EXCEPT !.mem = SlotsBack(k.shard, item.k, item.arg.s, @, after)]
      [] item.do = "head_pre" -> PrefillRead(k, item.arg, after)
      [] OTHER -> [k EXCEPT !.mem = after]

\* The end of a decode: the ids of its n launches, read back.
IdsRead(k, n, seeds) ==
    LET row(c) == k.mem[RingRow(k.head + c)]
        next(s) == [c \in 1..n |-> row(c)[s]]
    IN  [k EXCEPT !.said = {[seq |-> s, ids |-> next(s)] : s \in 1..job.b},
                  !.head = @ + n, !.known = row(n),
                  !.pos = [s \in 1..job.b |-> @[s] + n],
                  !.fed = [s \in 1..job.b |-> @[s] \o <<seeds[s]>> \o SubSeq(next(s), 1, n - 1)]]

DoneItem(k, item) ==
    CASE item.do = "upload" -> Uploaded(k, item)
      [] item.do = "ids" -> IdsRead(k, item.k, item.arg)
      [] OTHER -> Launched(k, item, Launch(k.recipes[item.do], Bound(k, item), Seen(k, item)))

AtReduce(k) == k.stream # <<>> /\ k.stream[1].do = "reduce"
-----------------------------------------------------------------------------
(* Calls.                                                                  *)

\* A call is its kind, the sequence it is for, its length, and whether its
\* seeds are the ids the rank was last answered or a text's.
Calls(j) ==
    ({"prefill"} \X (1..j.b) \X (1..MaxCall) \X {FALSE})
    \cup ({"decode"} \X {1} \X (1..MaxCall) \X BOOLEAN)
    \cup ({"reset"} \X (1..j.b) \X {0} \X {FALSE})

Text(k, s, n) == [c \in 1..n |-> (s + (Len(k.fed[s]) + c) * (Len(k.fed[s]) + c)) % job.v]
Seeds(k, own) ==
    IF own THEN k.known ELSE [s \in 1..job.b |-> Text(k, s, 1)[1]]
Further(k) == CHOOSE p \in {k.pos[s] : s \in 1..job.b} : \A s \in 1..job.b : k.pos[s] <= p
MayCall(k, c) ==
    CASE c[1] = "prefill" ->
            /\ k.pos[c[2]] + c[3] <= job.cap
            /\ k.pos[c[2]] = 0 \/ ((c[3] + job.rows - 1) \div job.rows) % 2 = 0
      [] c[1] = "decode" -> Further(k) + c[3] <= job.cap /\ (c[4] => k.known # <<>>)
      [] c[1] = "reset" -> k.fed[c[2]] # <<>>

\* decode's uploads, and the ring wrapped when the run does not fit behind its
\* head.
DecodeCalled(r, k, seeds, n) ==
    LET wraps == k.head + n > job.cap
        head == IF wraps THEN 0 ELSE k.head
        known == IF wraps THEN <<>> ELSE k.known
        host(p) ==
          CASE p \in {PosRow(c) : c \in 0..(n - 1)} -> [s \in 1..job.b |-> k.pos[s] + p[2]]
            [] p = RingRow(head) /\ known # seeds -> seeds
            [] p \in {RingRow(head + c) : c \in 1..n} -> Elements(job.b, LAMBDA e : Stale)
            [] OTHER -> k.mem[p]
    IN  [k EXCEPT !.head = head, !.known = known, !.mem = [p \in DOMAIN @ |-> host(p)],
                  !.stream = DecodeWork(r, n, head) \o Item("ids", n, seeds)]

Called(r, k, c) ==
    LET now == [k EXCEPT !.made = @ + 1, !.said = {}]
    IN  CASE c[1] = "prefill" -> [now EXCEPT !.stream = PrefillWork(c[2], Text(k, c[2], c[3]))]
          [] c[1] = "decode" -> DecodeCalled(r, now, Seeds(k, c[4]), c[3])
          [] c[1] = "reset" ->
                [now EXCEPT !.pos[c[2]] = 0, !.known = <<>>, !.fed[c[2]] = <<>>]

\* A rank makes its next call: one the others have made, or a new one.
Call(r) ==
    /\ rank[r].stream = <<>>
    /\ IF rank[r].made < Len(script)
       THEN /\ rank' = [rank EXCEPT ![r] = Called(r, @, script[@.made + 1])]
            /\ UNCHANGED script
       ELSE /\ Len(script) < MaxCalls
            /\ \E c \in Calls(job) :
                /\ MayCall(rank[r], c)
                /\ rank' = [rank EXCEPT ![r] = Called(r, @, c)]
                /\ script' = Append(script, c)
    /\ UNCHANGED job

\* A rank's stream runs on by one item; the last of a call is answered.
Run(r) ==
    /\ rank[r].stream # <<>> /\ ~AtReduce(rank[r])
    /\ \E after \in {DoneItem(rank[r], rank[r].stream[1])} :
        rank' = [rank EXCEPT ![r] = [after EXCEPT !.stream = Tail(@)]]
    /\ UNCHANGED <<job, script>>

\* The all-reduce the streams have all reached: every rank is left the sum of
\* the ranks' buffers.
AllReduce ==
    /\ \A r \in Ranks : AtReduce(rank[r])
    /\ LET buf(r) == rank[r].mem[rank[r].stream[1].arg]
           sum == Elements(Len(buf(1)), LAMBDA e :
                      Total(job.world, LAMBDA r : buf(r + 1)[e + 1]))
       IN  rank' = [r \in Ranks |->
                       [rank[r] EXCEPT !.mem[rank[r].stream[1].arg] = sum, !.stream = Tail(@)]]
    /\ UNCHANGED <<job, script>>

TpInit ==
    /\ job \in Jobs
    /\ script = <<>>
    /\ rank = [r \in Ranks |->
                 LET j == Shard(job, r - 1)
                     recipes == Recipes(j)
                 IN  [shard |-> j, recipes |-> recipes, mem |-> Allocated(recipes) @@ Stored(j),
                      pos |-> [s \in 1..job.b |-> 0], head |-> 0, known |-> <<>>,
                      stream |-> <<>>, made |-> 0, said |-> {},
                      fed |-> [s \in 1..job.b |-> <<>>]]]

\* Every rank has made all the calls of a run.
Over == Len(script) = MaxCalls /\ \A r \in Ranks : rank[r].stream = <<>> /\ rank[r].made = MaxCalls
TpEnded == Over /\ UNCHANGED tpVars

TpNext == AllReduce \/ TpEnded \/ \E r \in Ranks : Call(r) \/ Run(r)
TpSpec == TpInit /\ [][TpNext]_tpVars

-----------------------------------------------------------------------------
FirstMax(row) ==
    CHOOSE k \in DOMAIN row : /\ \A o \in DOMAIN row : row[o] <= row[k]
                              /\ \A o \in 1..(k-1) : row[o] < row[k]

(***************************************************************************)
(* Every rank answers what the CPU reference of the whole model answers    *)
(* for all its sequence was fed since its reset: the shards' partial sums, *)
(* the layers bound under one name, the slots and the scratch the blocks   *)
(* alternate between, and the ring of ids together are the one model       *)
(* (TpModel::prefill, TpModel::decode, LlamaWeights::shard).               *)
(***************************************************************************)
RanksAnswerReference ==
    \A r \in Ranks : \A a \in rank[r].said :
        LET fed == rank[r].fed[a.seq]
            ref == ModelForwardCpu(Embedded(job, fed), job.m, Len(fed), job.h, job.i, job.v, TRUE)
            row(k) == SubSeq(ref, k * job.v + 1, (k + 1) * job.v)
        IN  \A k \in DOMAIN a.ids : a.ids[k] = FirstMax(row(Len(fed) - Len(a.ids) + k - 1)) - 1

(***************************************************************************)
(* The ranks' streams meet in the same all-reduces in the same order: what *)
(* a group of ranks blocks for ever without, or adds the wrong sums with.  *)
(* Of two ranks in the same call each has as much left to reduce as the    *)
(* other, and a rank is calls ahead only of ranks with nothing left to     *)
(* reduce (tp.rs, prefill and decode; hccl.rs, all_reduce_f32).            *)
(***************************************************************************)
OnlyReduces(work) ==
    Flat([i \in 1..Len(work) |-> IF work[i].do = "reduce" THEN <<work[i]>> ELSE <<>>])
Reduces(r) == OnlyReduces(rank[r].stream)
ReducesLineUp ==
    \A r, o \in Ranks :
        /\ rank[r].made = rank[o].made => Reduces(r) = Reduces(o)
        /\ rank[r].made > rank[o].made => Reduces(o) = <<>>

-----------------------------------------------------------------------------
(* Why they do: a rank that is ahead has all of its call left to reduce,   *)
(* and what a call reduces depends on the call alone - not on the rank,    *)
(* its ids or where its ring's head is.                                    *)

CallReduces ==
    [c \in Calls(job) |->
        CASE c[1] = "prefill" -> OnlyReduces(PrefillWork(1, [k \in 1..c[3] |-> 0]))
          [] c[1] = "decode" -> OnlyReduces(DecodeWork(1, c[3], 0) \o Item("ids", c[3], <<>>))
          [] OTHER -> <<>>]

IsSeq(s) == s \in Seq({s[k] : k \in DOMAIN s})

Fields == {"shard", "recipes", "mem", "pos", "head", "known", "stream", "made", "said", "fed"}

RanksInv ==
    /\ job \in Jobs
    /\ script \in Seq(Calls(job))
    /\ DOMAIN rank = Ranks
    /\ \A r \in Ranks :
          DOMAIN rank[r] = Fields /\ rank[r].made \in 0..Len(script) /\ IsSeq(rank[r].stream)

AheadInv ==
    \A r, o \in Ranks : rank[r].made > rank[o].made =>
        /\ Reduces(r) = CallReduces[script[rank[r].made]]
        /\ \A k \in (rank[o].made + 1)..(rank[r].made - 1) : CallReduces[script[k]] = <<>>

LineUpInv == RanksInv /\ ReducesLineUp /\ AheadInv
=============================================================================
