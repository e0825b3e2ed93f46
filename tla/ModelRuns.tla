------------------------------ MODULE ModelRuns ------------------------------
(***************************************************************************)
(* The programs over the graphs: a whole prompt without a cache            *)
(* (model_forward_bf16, model_probe_bf16), CachedModel (cached.rs), one    *)
(* sequence over two buffers per cache, and BatchedModel (batched.rs), B   *)
(* sequences over one buffer per cache that grows by buckets.  CachedModel *)
(* and BatchedModel of this project follow which tokens reach a cache row; *)
(* here the launches compute: every operation runs its graph's nodes on    *)
(* the tensors it uploads and binds, and answers with what it reads back.  *)
(* A call is one step, for the device runs a call's launches in order.     *)
(*                                                                         *)
(* A job is one model with its compiled shapes; its kind says which        *)
(* program runs it, and calls bounds the calls it makes of it.             *)
(***************************************************************************)
EXTENDS StepGraphs, ForwardGraph

CONSTANTS
    Jobs,
    Stale,      \* what device memory holds that nothing has written
    MaxCall     \* bound: the positions of one prefill or loop run

ASSUME BoundAssumption == MaxCall \in Nat \ {0}

Shape == INSTANCE KvCache WITH Token <- {0}, Garbage <- -1

VARIABLES
    job,
    mem,    \* the buffers that outlive a launch
    st,     \* the host's fields
    fed,    \* history: for every sequence the ids it was fed since its reset
    out,    \* the last call's answers: what is read back
    calls   \* history: the calls made, and how many of them were resets

vars == <<job, mem, st, fed, out, calls>>

Caches(j) == {Nm(c, li) : c \in {"k", "v"}, li \in DOMAIN j.m.layers}
Fresh(sz) == Tensor(sz, LAMBDA i : Stale)
\* The memory of a graph's scratch tensors.
Buffers(scratch) ==
    [n \in {scratch[k].of : k \in DOMAIN scratch} |->
        Fresh(scratch[CHOOSE k \in DOMAIN scratch : scratch[k].of = n].sz)]
Tagged(tag, f) == [p \in {<<tag, n>> : n \in DOMAIN f} |-> f[p[2]]]
Row1(t, r, n) == SubSeq(t.at, r * n + 1, (r + 1) * n)

\* A launch: the nodes over the uploads and the bound buffers.
Launched(nodes, ins, bind, m) == Ran(nodes, Loaded(ins) @@ m, bind)
Kept(after, m) == [p \in DOMAIN m |-> after[p]]
\* The caches' bindings: in[c] is where cache c is read, to[c] where written.
CacheBind(j, in(_), to(_)) ==
    [n \in {Nm(c[1] \o "ci", c[2]) : c \in Caches(j)} |->
        in(CHOOSE c \in Caches(j) : n = Nm(c[1] \o "ci", c[2]))]
    @@ [n \in {Nm(c[1] \o "co", c[2]) : c \in Caches(j)} |->
        to(CHOOSE c \in Caches(j) : n = Nm(c[1] \o "co", c[2]))]

Answer(s, ids, logits) == [seq |-> s, ids |-> ids, logits |-> logits]
Answers(of, anyorder) == [what |-> "answers", of |-> of, anyorder |-> anyorder]

-----------------------------------------------------------------------------
(* CachedModel.                                                            *)

CachedKeysStep(j) == Shape!KeyStep(j.rows, j.cap + 1, j.maxbuckets)
\* The wide recipe's two buffers of cache c.
Buf(flip, c) == Nm(c[1] \o (IF flip THEN "co" ELSE "ci"), c[2])
Ring(p) == <<"ring", p>>
Pos(p) == <<"pos", p>>

CachedMem(j) ==
    Buffers(CacheStack(j.m, j.cap + 1, FALSE, <<>>))
    @@ [p \in {Ring(k) : k \in 0..j.cap} |-> Fresh(<<1>>)]
    @@ [p \in {Pos(k) : k \in 0..(j.cap - 1)} |-> [sz |-> <<1>>, at |-> <<p[2]>>]]
CachedHost == [pos |-> 0, flipped |-> FALSE, known |-> {}]

HasLoop(j) == j.embedded /\ j.dec <= 1
Wide(j, n) == ~(j.dec > 0 /\ j.dec # j.rows /\ ~HasLoop(j) /\ n <= j.dec)

\* The rows of the recipe a block of n goes through, and the keys it reads.
Height(j, n) == IF Wide(j, n) THEN j.rows ELSE j.dec
KeysRead(j, n) ==
    LET full == j.cap + 1
    IN  IF Wide(j, n) /\ j.keywin
        THEN Shape!KeyBucket(Smallest(st.pos + j.rows, full), CachedKeysStep(j), full) ELSE full

\* step_rows with the rows of ids.
StepRows(ids) ==
    LET n == Len(ids)
        wide == Wide(job, n)
        p == Height(job, n)
        keys == KeysRead(job, n)
        ins == BlockIns(job, p, job.cap, keys, st.pos, Embedded(job, ids))
    IN  /\ job.kind = "cached"
        /\ n <= job.rows /\ st.pos + n <= job.cap
        /\ MaskFits(job, p, keys, job.cap, st.pos)
        /\ \E nodes \in {BlockNodes(job, p, job.cap, ~wide, keys, TRUE)},
              bind \in {CacheBind(job, LAMBDA c : Buf(st.flipped, c),
                                  LAMBDA c : Buf(IF wide THEN ~st.flipped ELSE st.flipped, c))} :
           \E after \in {Launched(nodes, ins, bind, mem)} :
            /\ mem' = Kept(after, mem)
            /\ out' = Answers({Answer(1, <<after[Gl("IDS")].at[n]>>,
                                      SubSeq(after[Gl("LOGITS")].at, 1, n * job.v))},
                              Ordered(nodes, bind))
        /\ st' = [st EXCEPT !.flipped = IF wide THEN ~@ ELSE @, !.pos = @ + n]
        /\ fed' = [fed EXCEPT ![1] = @ \o ids]
        /\ UNCHANGED job

\* loop_steps: n launches in place on the current buffers, each from the ring
\* slot the one before it wrote.
LoopSteps(seed, n) ==
    LET pos == st.pos
        cur(c) == Buf(st.flipped, c)
        bind(p) == CacheBind(job, cur, cur)
                   @@ (Gl("IDS_IN") :> Ring(p) @@ Gl("IDS") :> Ring(p + 1) @@ Gl("POS") :> Pos(p))
        ins == Loaded(LoopIns(job, job.cap))
        seeded == IF <<pos, seed>> \in st.known THEN mem
                  ELSE [mem EXCEPT ![Ring(pos)] = [sz |-> <<1>>, at |-> <<seed>>]]
        filled == [p \in DOMAIN mem |->
                      IF p \in {Ring(pos + k) : k \in 1..n} THEN Fresh(<<1>>) ELSE seeded[p]]
        run(nodes) ==
          Stepped(n, ins @@ filled, LAMBDA was, k : Ran(nodes, was, bind(pos + k - 1)))
    IN  /\ job.kind = "cached" /\ HasLoop(job)
        /\ pos + n <= job.cap
        /\ \E nodes \in {LoopNodes(job, job.cap)} : \E after \in {run(nodes)} :
           \E ids \in {[k \in 1..n |-> after[Ring(pos + k)].at[1]]} :
            /\ mem' = Kept(after, mem)
            /\ st' = [st EXCEPT !.known = {<<pos + n, ids[n]>>}, !.pos = @ + n]
            /\ fed' = [fed EXCEPT ![1] = @ \o <<seed>> \o SubSeq(ids, 1, n - 1)]
            /\ out' = Answers({Answer(1, ids, after[Gl("LOGITS")].at)}, Ordered(nodes, bind(pos)))
        /\ UNCHANGED job

-----------------------------------------------------------------------------
(* BatchedModel.                                                           *)

Slots(c) == <<"slots", Nm(c[1] \o "ci", c[2])>>
Own(c) == <<"own", Nm(c[1] \o "co", c[2])>>
\* Sequence s's slot in a cache: `off` elements in, as long as one sequence's.
SlotOf(t, s) ==
    LET n == Count(t.sz) \div t.sz[5]
    IN  [sz |-> SubSeq(t.sz, 1, 4), at |-> SubSeq(t.at, s * n + 1, (s + 1) * n)]
WithSlot(t, s, part) ==
    LET n == Count(t.sz) \div t.sz[5]
    IN  [t EXCEPT !.at = SubSeq(@, 1, s * n) \o part.at \o SubSeq(@, (s + 1) * n + 1, Len(@))]

\* The buffers of a bucket of cap positions: the decode recipe's caches, and
\* the prefill recipe's own.
BucketMem(j, cap) ==
    Tagged("slots", Buffers(CacheStack(j.m, cap + 1, TRUE, <<j.b>>)))
    @@ Tagged("own", Buffers(CacheStack(j.m, cap + 1, FALSE, <<>>)))
RingMem(j) ==
    [p \in {Ring(k) : k \in 0..j.cap} \cup {Pos(k) : k \in 0..(j.cap - 1)} |-> Fresh(<<j.b>>)]
FirstBucket(j) == Shape!CacheBucket(1, j.mincap, j.cap)
BatchedHost(j) ==
    [pos |-> [s \in 1..j.b |-> 0], cap |-> FirstBucket(j), head |-> 0, known |-> <<>>]

\* ensure: a larger bucket gets the rows every sequence has written.
\* Mutant: a group's rows go where the smaller bucket had them.
OldPitchCopy(old, new, pos) ==
    LET hd == new.sz[1]  g == new.sz[4]
        row(i) == (i \div hd) % old.sz[2]
        group(i) == (i \div (hd * old.sz[2])) % g
        s(i) == i \div (hd * new.sz[2] * g)
    IN  Tensor(new.sz, LAMBDA i :
            IF row(i) < pos[s(i) + 1]
            THEN At(old, (i % hd) + hd * (row(i) + old.sz[2] * (group(i) + g * s(i))))
            ELSE At(new, i))
GrownCopy(old, new, pos) ==
    LET hd == new.sz[1]  g == new.sz[4]
        row(i) == (i \div hd) % new.sz[2]
        group(i) == (i \div (hd * new.sz[2])) % g
        s(i) == i \div (hd * new.sz[2] * g)
    IN  Tensor(new.sz, LAMBDA i :
            IF row(i) < pos[s(i) + 1]
            THEN At(old, (i % hd) + hd * (row(i) + old.sz[2] * (group(i) + g * s(i))))
            ELSE At(new, i))
EnsuredCap(need) ==
    IF need <= st.cap THEN st.cap ELSE Shape!CacheBucket(need, job.mincap, job.cap)
EnsuredMem(need) ==
    LET cap == EnsuredCap(need)
        fresh == BucketMem(job, cap)
    IN  IF cap = st.cap THEN mem
        ELSE [p \in {Slots(c) : c \in Caches(job)} |-> GrownCopy(mem[p], fresh[p], st.pos)]
             @@ fresh @@ mem

\* One block of prefill_rows for sequence s: from its slot into the recipe's
\* own buffers, or back.
ToSlot(nblocks, i) == (nblocks - 1 - i) % 2 = 0
SlotView(c) == <<"slot", c>>
PrefillBind(toslot) ==
    IF toslot THEN CacheBind(job, Own, SlotView) ELSE CacheBind(job, SlotView, Own)
\* What a block leaves of the buffers, and the answer it would give.
PrefillDone(m, s, n, after, anyorder) ==
    LET back(p) == CHOOSE c \in Caches(job) : p = Slots(c)
    IN  [mem |-> [p \in DOMAIN m |->
                     IF p \in {Slots(c) : c \in Caches(job)}
                     THEN WithSlot(m[p], s - 1, after[SlotView(back(p))]) ELSE after[p]],
         id |-> after[Gl("IDS")].at[n],
         logits |-> Row1(after[Gl("LOGITS")], n - 1, job.v),
         anyorder |-> anyorder]
PrefillRun(m, cap, s, pos, ids, nodes, bind) ==
    LET bound == [p \in {SlotView(c) : c \in Caches(job)} |-> SlotOf(m[Slots(p[2])], s - 1)] @@ m
        ins == BlockIns(job, job.rows, cap, cap + 1, pos, Embedded(job, ids))
    IN  PrefillDone(m, s, Len(ids), Launched(nodes, ins, bind, bound), Ordered(nodes, bind))
PrefillBlock(m, cap, s, pos, ids, toslot) ==
    PrefillRun(m, cap, s, pos, ids, PrefillNodes(job, job.rows, cap), PrefillBind(toslot))

\* prefill_rows.  A sequence that is not empty is given an even number of
\* blocks: the first of an odd number would read the recipe's own buffers
\* and write them over the slot.
PrefillRows(s, ids) ==
    LET p == job.rows
        pos == st.pos[s]
        nblocks == Shape!DivCeil(Len(ids), p)
        cap == EnsuredCap(pos + Len(ids))
        first == [mem |-> EnsuredMem(pos + Len(ids)), id |-> 0, logits |-> <<>>, anyorder |-> TRUE]
        blocks == Stepped(nblocks, first, LAMBDA was, i :
            [PrefillBlock(was.mem, cap, s, pos + p * (i - 1),
                          SubSeq(ids, p * (i - 1) + 1, Smallest(p * i, Len(ids))),
                          ToSlot(nblocks, i - 1)) EXCEPT !.anyorder = was.anyorder /\ @])
    IN  /\ job.kind = "batched"
        /\ pos + Len(ids) <= job.cap
        /\ pos = 0 \/ nblocks % 2 = 0
        /\ \A i \in 0..(nblocks - 1) : MaskFits(job, p, cap + 1, cap, pos + p * i)
        /\ \E last \in {blocks} :
            /\ mem' = last.mem
            /\ out' = Answers({Answer(s, <<last.id>>, last.logits)}, last.anyorder)
        /\ st' = [st EXCEPT !.pos[s] = pos + Len(ids), !.cap = cap]
        /\ fed' = [fed EXCEPT ![s] = @ \o ids]
        /\ UNCHANGED job

Furthest == CHOOSE p \in {st.pos[s] : s \in 1..job.b} : \A s \in 1..job.b : st.pos[s] <= p
InPlace(c) == Slots(c)

\* step_rows: ids[s] to every sequence.
BatchedStep(ids) ==
    LET cap == EnsuredCap(Furthest + 1)
    IN  /\ job.kind = "batched" /\ ~job.embedded
        /\ Furthest < job.cap
        /\ \E was \in {EnsuredMem(Furthest + 1)}, nodes \in {DecodeNodes(job, cap)},
              bind \in {CacheBind(job, InPlace, InPlace)} :
           \E after \in {Launched(nodes, DecodeIns(job, cap, st.pos, Embedded(job, ids)), bind, was)} :
            /\ mem' = Kept(after, was)
            /\ out' = Answers({Answer(s, <<after[Gl("IDS")].at[s]>>,
                                      Row1(after[Gl("LOGITS")], s - 1, job.v)) : s \in 1..job.b},
                              Ordered(nodes, bind))
        /\ st' = [st EXCEPT !.pos = [s \in 1..job.b |-> @[s] + 1], !.cap = cap]
        /\ fed' = [s \in 1..job.b |-> Append(fed[s], ids[s])]
        /\ UNCHANGED job

\* loop_steps of batched.rs: the ring's rows from head on, wrapped when the
\* run does not fit behind it.
BatchedRun(ids, n) ==
    LET cap == EnsuredCap(Furthest + n)
        wraps == st.head + n > job.cap
        head == IF wraps THEN 0 ELSE st.head
        known == IF wraps THEN <<>> ELSE st.known
        bind(k) == CacheBind(job, InPlace, InPlace)
                   @@ (Gl("IDS_IN") :> Ring(head + k) @@ Gl("IDS") :> Ring(head + k + 1)
                       @@ Gl("POS") :> Pos(k))
        host(was, p) ==
          CASE p \in {Pos(k) : k \in 0..(n - 1)} ->
                  [sz |-> <<job.b>>, at |-> [s \in 1..job.b |-> st.pos[s] + p[2]]]
            [] p = Ring(head) /\ known # ids -> [sz |-> <<job.b>>, at |-> ids]
            [] p \in {Ring(head + k) : k \in 1..n} -> Fresh(<<job.b>>)
            [] OTHER -> was[p]
        run(was, nodes) ==
          Stepped(n, Loaded(DecodeLoopIns(job, cap)) @@ [p \in DOMAIN was |-> host(was, p)],
                  LAMBDA m, k : Ran(nodes, m, bind(k - 1)))
    IN  /\ job.kind = "batched" /\ job.embedded
        /\ Furthest + n <= job.cap
        /\ \E was \in {EnsuredMem(Furthest + n)}, nodes \in {DecodeLoopNodes(job, cap)} :
           \E after \in {run(was, nodes)} :
           \E rows \in {[k \in 1..n |-> after[Ring(head + k)].at]} :
            /\ mem' = Kept(after, was)
            /\ st' = [st EXCEPT !.pos = [s \in 1..job.b |-> @[s] + n], !.cap = cap,
                                !.head = head + n, !.known = rows[n]]
            /\ fed' = [s \in 1..job.b |->
                          fed[s] \o <<ids[s]>> \o [k \in 1..(n - 1) |-> rows[k][s]]]
            /\ out' = Answers({Answer(s, [k \in 1..n |-> rows[k][s]],
                                      Row1(after[Gl("LOGITS")], s - 1, job.v)) : s \in 1..job.b},
                              Ordered(nodes, bind(0)))
        /\ UNCHANGED job

-----------------------------------------------------------------------------
(* Without a cache.                                                        *)

Readback(what, upto, causal, at) ==
    [what |-> what, upto |-> upto, causal |-> causal, at |-> at, anyorder |-> TRUE]

\* model_forward_bf16
Forward(causal) ==
    /\ job.kind = "prompt" /\ out.what = "nothing"
    /\ out' = Readback("logits", Len(job.m.layers), causal, ModelForward(job, causal))
    /\ UNCHANGED <<job, mem, st, fed>>

\* model_probe_bf16
Probe(causal, upto) ==
    /\ job.kind = "prompt" /\ out.what = "nothing"
    /\ out' = Readback("probe", upto, causal, ModelProbe(job, causal, upto))
    /\ UNCHANGED <<job, mem, st, fed>>

-----------------------------------------------------------------------------
NoAnswer == [what |-> "nothing", of |-> {}, anyorder |-> TRUE]

Init ==
    /\ job \in Jobs
    /\ mem = CASE job.kind = "cached" -> CachedMem(job)
               [] job.kind = "batched" -> BucketMem(job, FirstBucket(job)) @@ RingMem(job)
               [] OTHER -> <<>>
    /\ st = CASE job.kind = "cached" -> CachedHost
              [] job.kind = "batched" -> BatchedHost(job)
              [] OTHER -> [pos |-> 0]
    /\ fed = [s \in 1..job.b |-> <<>>]
    /\ out = NoAnswer
    /\ calls = [made |-> 0, resets |-> 0]

\* reset: the buffers stay as they are.
Reset(s) ==
    /\ fed[s] # <<>>
    /\ st' = IF job.kind = "cached" THEN [st EXCEPT !.pos = 0] ELSE [st EXCEPT !.pos[s] = 0]
    /\ fed' = [fed EXCEPT ![s] = <<>>]
    /\ out' = NoAnswer
    /\ UNCHANGED <<job, mem>>

\* What a caller feeds next: n ids of a text that changes with every reset.
Text(s, n) ==
    LET at == Len(fed[s])
    IN  [k \in 1..n |-> (calls.resets + s + (at + k) * (at + k)) % job.v]
FirstIds == [s \in 1..job.b |-> Text(s, 1)[1]]

CachedNext ==
    \/ \E n \in 1..MaxCall : StepRows(Text(1, n))
    \/ \E n \in 1..MaxCall, seed \in {FirstIds[1]} \cup {k[2] : k \in st.known} : LoopSteps(seed, n)
BatchedNext ==
    \/ \E s \in 1..job.b, n \in 1..MaxCall : PrefillRows(s, Text(s, n))
    \/ BatchedStep(FirstIds)
    \/ \E n \in 1..MaxCall, ids \in {FirstIds, st.known} \ {<<>>} : BatchedRun(ids, n)
PromptNext ==
    \E causal \in BOOLEAN :
        Forward(causal) \/ \E upto \in DOMAIN job.m.layers : Probe(causal, upto)
Next ==
    /\ calls.made < job.calls
    /\ \/ /\ \/ job.kind = "cached" /\ CachedNext
             \/ job.kind = "batched" /\ BatchedNext
             \/ job.kind = "prompt" /\ PromptNext
          /\ calls' = [calls EXCEPT !.made = @ + 1]
       \/ /\ \E s \in 1..job.b : Reset(s)
          /\ calls' = [made |-> calls.made + 1, resets |-> calls.resets + 1]

Spec == Init /\ [][Next]_vars

-----------------------------------------------------------------------------
\* The reference's logits for all that sequence s was fed.
ReferenceLogits(s) ==
    ModelForwardCpu(Embedded(job, fed[s]), job.m, Len(fed[s]), job.h, job.i, job.v, TRUE)
FirstMax(row) ==
    CHOOSE k \in DOMAIN row : /\ \A o \in DOMAIN row : row[o] <= row[k]
                              /\ \A o \in 1..(k-1) : row[o] < row[k]

(***************************************************************************)
(* Every answer of either decoder (the logits of a block's rows or of the  *)
(* last one, a device argmax, the ids of a loop run) is the CPU            *)
(* reference's for the whole text its sequence was fed since its reset,    *)
(* whatever mix of wide blocks over a key window, decode blocks, loop      *)
(* runs, prompts of several blocks, grown buckets and resets came before   *)
(* (cached.rs, batched.rs).                                                *)
(***************************************************************************)
AnswersAreReference ==
    out.what = "answers" => \A a \in out.of :
        LET ref == ReferenceLogits(a.seq)
            n == Len(fed[a.seq])
            row(k) == SubSeq(ref, k * job.v + 1, (k + 1) * job.v)
        IN  /\ a.logits = SubSeq(ref, Len(ref) - Len(a.logits) + 1, Len(ref))
            /\ \A k \in DOMAIN a.ids :
                   a.ids[k] = FirstMax(row(n - Len(a.ids) + k - 1)) - 1

(***************************************************************************)
(* The graph of every form of layer (norm before or after the branch,      *)
(* projections fused, by head blocks or separate, biases, q/k norms over   *)
(* heads or rows, the two RoPE tables or none, windows, softcaps, Gemma's  *)
(* norms, either activation, fused attention or four nodes) computes for a *)
(* whole prompt what the CPU reference does (model.rs, build_layer to      *)
(* build_stack).                                                           *)
(***************************************************************************)
ForwardIsReference ==
    out.what = "logits" =>
        out.at = ModelForwardCpu(job.x, job.m, job.tokens, job.h, job.i, job.v, out.causal)

\* So does the probe of the residual stream after any layer (model.rs,
\* model_probe_bf16).
ProbeIsReference ==
    out.what = "probe" =>
        out.at = ProbeCpu(job.x, job.m.layers, job.tokens, job.h, job.i, out.causal, out.upto)

(***************************************************************************)
(* The device may run a recipe's nodes in any order their tensors allow.   *)
(* Cache tensors share their memory with those of other recipes and, in    *)
(* place, with each other: every order computes the same (rebind,          *)
(* runtime.rs; the scatter of build_layer, model.rs).                      *)
(***************************************************************************)
AnyOrderComputesTheSame == out.anyorder

\* cached.rs:852: step "Panics if `n` is 0 or exceeds `rows`, if `x` is not a
\* whole number of rows, or if the block would overflow the cache": every
\* other block is taken.
BlocksFit ==
    job.kind = "cached" =>
        \A n \in 1..Smallest(job.rows, job.cap - st.pos) :
            MaskFits(job, Height(job, n), KeysRead(job, n), job.cap, st.pos)
=============================================================================
