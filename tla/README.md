# TLA+ models of reciprocating-engine

reciprocating-engine runs Llama-family language models on Intel Gaudi 2 cards
by compiling graphs through the SynapseAI C API. Most of its lines are
arithmetic: graph construction, weights, quantization, bandwidth ceilings.
What makes it hard to get right is the rest: a group of processes that take
cards and must give them back, key/value caches and token rings that live on
the card while the host only keeps pointers into them, graphs whose meaning
depends on what is bound where, and a device whose completion can only be
observed by polling memory. This directory models that rest in TLA+, checks it
with TLC and proves the central results with TLAPS.

## 1. Inventory

Paths are relative to `src/crates`.

### The rank group: `reng-synapse/src/hccl.rs`, `reng-model/src/bin/tp.rs`

* **Coordinator** (`coordinate`, `Group`). State: the attempt number, one
  `Child` per rank with its last known exit status, the signal counter,
  deadlines. Operations: spawn one worker per module id, wait until every rank
  has announced its card and write `go` (or write `abort`), wait for the
  exits, shorten the deadline to 30 s once a peer failed, write `abort` and
  kill after `ABORT_GRACE`, compare the ranks' ids, relaunch the group at most
  three times, drop the group and its directory.
* **Worker main thread** (`worker`, `Rank::join`, `generate_and_check`).
  Acquire the card, announce it, wait for `go`, exchange the unique id, join
  the communicator, load, generate, write the ids, check, leave.
* **Worker watchdog** (`watch_coordinator`, `abort_and_die`). Polls `abort`,
  its parent id and its signal counter every 100 ms and leaves through
  `hcclCommAbort` and `_exit`.
* **Hand-shake directory** (`prepare_dir`, `remove_dir`): the files
  `rank<r>.acquired`, `rank<r>.status`, `go`, `abort`, `id.bin`,
  `rank<r>.ids`. It is the only channel between the processes besides exit
  codes and signals.

Hard: every decision rests on polled, hence stale, views; either thread can
end a worker at any point; the coordinator can die in every state; HCCL calls
block for peers that have gone. Correct means: nobody goes past the acquire
barrier without every card, one decision per attempt, nobody is left running
when the coordinator returns, PASS only for a run in which every rank did all
of its work, relaunch only when nothing of the old attempt is left, and the
coordinator always returns.

### The communicator handle: `hccl.rs` `ABORT_COMM`, `Comm`

One atomic slot per process, set by `init_rank`, taken by `abort_current` (the
watchdog or the main thread) and cleared by `Drop for Comm`. Hard: the
watchdog aborts a handle while the main thread finalizes and destroys it.

### Read-back: `reng-synapse/src/runtime.rs`

Completion of a device-to-host copy is observed only by polling the host
buffer. `launch_and_read_bytes` fills it with one sentinel, the device buffer
with another, and spins until no word is a host sentinel, then repeats the
copy while a word is still the device sentinel; `Fence::wait` writes a
sequence pattern through the queue and spins for it; `Staging` reuses four
upload slots after a fence. Hard: words land out of order, a copy may land
late, a result may equal a sentinel.

### Decode: `cached.rs`, `batched.rs`, `tp.rs` (all in `reng-synapse/src`)

* `CachedModel`: one sequence. State on the card: per layer a key/value cache
  in two buffers, and a ring of token ids, one slot per position, that the
  device loop reads its token from and writes its answer to. State on the
  host: `pos`, `flipped` (which buffer is current) and `known`, the slot whose
  id the host believes it knows. Operations: `step_rows` (a block, through a
  wide recipe that writes the other buffer or the decode recipe that writes
  in place), `loop_steps` (a run of the device loop), `reset`.
* `BatchedModel`: several sequences, a slot of the cache each. Its cache has
  the size of the longest sequence's bucket and moves to a larger one when
  that is outgrown (`ensure`); prompts go in through `prefill_rows`, whose
  blocks alternate between the sequence's slot and the recipe's own buffer;
  `step_rows` and `loop_steps` advance every sequence. Its ring has a head
  and starts over at row 0 when a run does not fit.
* `TpModel`: the tensor-parallel rank's version; every rank enqueues the same
  sequence of launches and all-reduces.

Hard: the host's bookkeeping must stay true of buffers that only the device
writes, over sequences of calls, wrap-arounds, block-count parities and calls
that fail half-way. Correct means: after any sequence of successful calls the
rows below the position are those of the tokens fed, and every answer is
computed from these tokens and from nothing else.

### Recipe cache: `runtime.rs` `compile_cached`

Compiled recipes are kept on disk under a hash; several processes may compile
the same recipe; a file is written under a temporary name and renamed.

### Capacity planning and generation: `reng-model/src/lib.rs`

`CachePlan` says before anything is compiled what a cache of a capacity costs;
`BatchedGenerator::room_for` asks it before each call that may grow the cache.
`Generator`, `BatchedGenerator` and `TpGenerator` turn token ids into the calls
of the decoders. Hard: a growth holds the runtimes of two buckets at once, a
build that fails half-way gives nothing back, and the plan knows neither.

### Graphs: `model.rs`, `layer.rs`, and the builders of the decoders

A recipe is a graph of kernels over named tensors. What a launch computes rests
on the order and shape of its nodes, on the host data of its inputs (masks,
windows, indices, tables of positions) and on where its persistent tensors are
bound: caches in and out share memory, recipes share buffers by name and size,
every layer of the tensor-parallel model is launched under layer 1's names.
Correct means: each answer is the CPU reference's, in whatever order the device
runs the nodes.

### Device operations: `device.rs`, `attn.rs`, `mlp.rs`, `heads.rs`, `chain.rs`, `ops.rs`, `mm.rs`, `lib.rs`

Programs that build one small graph, acquire a card, copy, launch, copy back and
give everything back, as methods of a `Device`, in one piece, or through a
`MatmulHpu` that keeps its recipe. Hard: each call into the runtime returns early
on an error, with copies queued; a released card needs time to settle.

### Everything else

* `fp8.rs`, `reng-fp8`: quantization; floating point.
* `reng-ceiling`: roofline and strategy arithmetic in floating point.
* `reng-core`, `reng-hal`, `reng-cli`: types, device discovery from sysfs, a
  command-line front end.
* `LlamaConfig`, safetensors, RoPE tables; `probe.rs`, `ffi.rs`.
* `tools`, `vendor`, `patches`: scripts outside the program.

## 2. Modules

| module | models | how |
|---|---|---|
| `AcquireBarrier` | what the hand-shake promises | abstract specification |
| `RankGroup` | coordinator, workers, watchdogs, directory, signals | one action per step between two looks at shared state |
| `AbortComm` | the communicator handle and `abort_and_die`'s threads | one level below `RankGroup`'s "teardown" and "abort" |
| `TokenSequences` | what a decoder with a cache promises | abstract specification |
| `KvCache` | content of a cache row, one launch, key steps and buckets | operators |
| `CachedModel`, `BatchedModel` | `cached.rs`, `batched.rs`: which tokens reach which row, over calls that fail | implement `TokenSequences` |
| `Transfers` | staging, fence and read-back of `runtime.rs` | host, three engines, words that land one by one |
| `RecipeCache` | `compile_cached` | processes over a file system of inodes |
| `Tensors`, `LayerGraph`, `ReferenceModel`, `Launches` | kernels, the layer's graph, the CPU reference, a launch | operators |
| `ForwardGraph`, `StepGraphs`, `ModelRuns` | prompts without a cache, the cached and the batched graphs, and the decoders that launch them | one action per call |
| `TpGraphs`, `TpRuns` | `tp.rs` and the sharding of the weights | ranks with a host and a stream each, joined by all-reduces |
| `NodeOrders` | the nodes of a launch, in any order their tensors allow | no run of its own: what `Ordered` is for, by proof |
| `OpGraphs`, `OpPrograms`, `DeviceOps` | the device operations, and the programs of `src/bin` that call them | one action per call into the runtime |
| `CachePlans`, `Generators` | `CachePlan`; the generators over the memory of a card | operators; one action per build |
| `RankGroupProofs`, `RecipeCacheProofs`, `TransfersProofs`, `GeneratorsProofs`, `DeviceOpsProofs` | | theorems about the module of that name, and in the first about `AbortComm` and `TpRuns` |
| `KvCacheProofs`, `CachedModelProofs`, `BatchedModelProofs` | | theorems about the decoders, on common lemmas about caches |
| `MC...` | | instances for TLC |

### RankGroup

`cpc` says where `coordinate()` is: spawning (`Group::spawn`), in
`wait_acquired`, in `wait_all`, in `abort_and_reap`, comparing ids, sleeping
before a relaunch. `status` is `Child.status`, set only by `Poll`; what the
ranks really did is in `pc` and `code`. The directory's files are one variable
each. `pc[r]` is where the main thread of rank `r` is, and `watch[r]` where its
watchdog is; either thread ends the process. A wait that polls several things
one after the other is several actions (`LookForGo` reads `go`; `NoGo`, later,
reads `abort`, the parent id and the clock), because the files change in
between. `seen[r]` records whether the coordinator was alive when the rank
sampled its parent id: `Orphan(r)` compares with that sample, as the code does.

SIGINT and SIGTERM reach the coordinator alone (`SignalCoordinator`), the whole
process group (`CtrlC`) or one worker alone (`SignalWorker`), whose watchdog then
leaves with `EXIT_ABORTED` though nobody wrote `abort`; `wsig` has the workers that
caught one. A worker (`KillWorker`) and the coordinator (`CoordinatorDies`) may be
killed at any step. What a worker that is gone had caught is forgotten unless it
left with `EXIT_ABORTED`, where `AbortedForAReason` asks for it.

The acquire of a card, what a worker loads and computes, and HCCL are outside:
an acquire succeeds or fails, generating gives some id list, and
`hcclCommInitRank` returns only when every rank is in it.

`AcquireBarrier` has no processes, files or time. `Barrier!Spec` is checked and
proved of `RankGroup` with `announced` the files `rank<r>.acquired`, `decision`
the files `go` and `abort`, and `place` a projection of `pc`.

### AbortComm

`slot` is `ABORT_COMM`. The main thread goes through `Comm::drop` or calls
`abort_and_die`; the watchdog calls `abort_and_die`; each `abort_and_die`
starts its deadline thread first. A call into HCCL is two steps, its beginning
and its end, and the end has no fairness.

### KvCache, TokenSequences, CachedModel and BatchedModel

A key/value row depends on the tokens at its position and before it, so a row
is the function from positions to the tokens it was computed from. A launch at
position `p` over buffer `buf` writes rows computed from what it attends to:
`Seen(buf, p)` is the tokens of the rows before `p` if these rows are the rows
of one sequence, and garbage otherwise. A stale row, a row of another sequence,
a row computed over a gap, a row never written or a key outside the recipe's
key window all lead to a row that is not the sequence's. `TokenSequences` says:
each sequence is fed tokens, and an answer's `basis` is exactly what its
sequence was fed. Blocks, runs and batches are not visible.

`pos`, `flipped`, `known` (and `cap`, `head`) are the fields of the structs.
`bufs`/`slots`, `own` and `ring` are device memory. `fed` and `basis` are
history variables: what the caller fed, or was told was fed, and what its last
answer was computed from. `torn` (batched) is the set of sequences whose prefill
failed since their last reset; the code has no such flag, its callers reset.

A call is the steps between which a SynapseAI call can fail: uploads and launch
(`BlockLaunch`), the read of the answer and the assignments after it
(`BlockRead`); for the loop the seed's upload, the sentinel fill, each launch,
the read. `Fail` returns from any of them with the fields as they are at that
point, which is why the order of assignments in the code matters: they are last
in `CachedModel`, but `prefill_rows` advances `pos` block by block and
`loop_steps` of `BatchedModel` moves `head` and clears `known` first. One stream
executes in order, so running a launch where it is enqueued is what the device
does. A prefill onto a sequence that is not empty is given an even number of
blocks: `TpModel` asserts it, `BatchedGenerator` resets first.

### Transfers

The device is three engines (copies in, copies out, launches), each in order,
none ordered with another, landing word by word; the host polls memory only. A
copy reads its source word when it lands, so that a buffer overwritten too early
shows. A fill has landed when its call returns, which is what the protocol rests
on. `Fence.seq` wraps, its pattern may equal the host sentinel, a result may
equal the device sentinel, and a read may time out with its copy still under
way; with `Retries = "settled"` a caller goes on after that only when the copies
have landed.

### RecipeCache

Files are inodes with names: a rename moves a name, a writer keeps the inode it
opened. A file's content is the key of the graph whose whole recipe it holds, or
`Torn`. Processes are killed between any two steps; a loss of power keeps names
and may lose data; two processes may have one process id (containers that share
the directory). The removal of a temporary file is taken to succeed, and the
digest to be injective.

### Graphs: Tensors to TpRuns

Tensors are small and their elements residues modulo 251: sums and products obey
the laws of arithmetic exactly and in any order, so that a graph and its CPU
reference agree when they compute the same expression and (nearly always) differ
when they do not. Rounding is left out. The kernels of SynapseAI are external
and modelled by what the builders rely on. A graph is its inputs with their host
data, its scratch tensors with the memory each lies in, and its nodes in
creation order, for every form a layer takes (norm before or after, biases, q/k
norms, windows, softcaps, RoPE tables or none, activations, fused projections,
fused attention). A launch runs the nodes in that order; `Ordered` says whether
each other order the tensors' data flow allows computes the same, given which
names are one memory.

`ModelRuns` has one action per call of `CachedModel` and `BatchedModel` and per
forward: it uploads what the host computes (masks, RoPE rows, scatter and gather
indices), binds, launches, and answers with what it reads back. Memory that was
never written holds a value of its own (`Stale`) instead of the zeros the code
fills in. `TpRuns` gives each rank a shard, a host that enqueues and a stream
that runs up to an all-reduce; ranks are otherwise free to run ahead.

### DeviceOps

A program is the sequence of steps its code takes: create, compile, acquire,
allocate, queue, wait, read, free. Every step may fail, and returns then with
everything held that no `Device` or `MatmulHpu` drops. Queued copies and launches
happen later, in the order of their stream. A card that was released settles
some time after; acquired earlier it computes wrongly, as the documentation of
`device.rs` says, and so do copies back at sizes below 128; 128 itself, which
`attn.rs:12` calls marginal, is taken as reliable. `OpPrograms` is the
environment: what `gemm_test` to `hello_mme` run, with their patterns at small
sizes. A second program runs on what the first one left; the owner of a
`MatmulHpu` whose run failed may go on with the same run or with a later one on
other inputs. A failed `MatmulHpu` that is dropped frees its buffers with copies
queued (`lib.rs:631-650`); that these never reach the memory of a later program
(`Abandoned`) is assumed of the runtime's stream destruction and release.

### CachePlans and Generators

`CachePlans` is `CachePlan`'s arithmetic; a float that is a multiple of one half
is kept in halves. `Generators` follows one process and one card: `Construct`,
`Prefill`, `Generate` ask the plan and are refused with the capacity it names,
or set out what has to be built (`todo`); `Build` allocates a runtime while the
old ones are alive; `BuildFails` gives up with part of a runtime's buffers taken
and not returned, because there is no room or for any other reason, and drops
what its call had built; `Return` drops what `ensure` drops. Without the device
loop `generate` asks for the whole run and then grows step by step: a refusal,
or as many `Generate(1)`. Only the weights and the caches are counted on the
card. A call's launches do not fail here; they do in `BatchedModel`.

## 3. Runs

| run | bounds | question |
|---|---|---|
| `group` | 2 ranks, 2 attempts, any signals, any process may be killed, 2 id lists | is the hand-shake an acquire barrier, is nobody left behind, is the verdict honest, a relaunch clean; does the coordinator return, do orphans leave |
| `abort_comm` | none needed | is the handle aborted once and never from a slot being closed; does a process that aborts leave |
| `cached_loop` | 2 tokens, 2 rows, 3 positions | blocks and device-loop runs in any order: the inductive invariant and the refinement |
| `cached_retry` | the same, the loop may fail | violated: `known` after a failed run |
| `batched_decode` | 2 sequences; blocks of 1 over buckets 1, 2, 3, steps may fail; blocks of 2 and the loop over 2 positions, prefills may fail | the rows in use, the ring and the refinement, over growth, wrap-around and failures |
| `transfers` | 2 words, 3 pieces through 2 slots, a counter that wraps after 6 | is a fence right, an answer whole and of this launch, a buffer free when it is filled; does every call end |
| `model_runs` | 9 model families, 2 layers, 3 tokens or 4 positions, 3 to 5 calls | does every prompt, block, loop, step and probe answer as the CPU reference, in any node order |
| `block_panics` | a block of 4 rows, a window of 2 | violated: a block that fits the cache panics |
| `tp_runs` | 2 ranks, 2 layers, 3 calls, 1 or 2 sequences | do the ranks answer as the reference and meet in the same all-reduces |
| `recipe_cache` | 2 processes, 2 graphs, 2 builds each, one loss of power | does a build get its own graph's recipe, is what is stored whole and kept |
| `device_ops` | 16 programs, then one of 3, 2 cards, 1 retry | are the answers right, does only a failure leak, is nothing freed under a copy |
| `generators` | 72 plans: single and 2 sequences, ceilings that are a doubling or not, cards of 9 sizes, 1 spontaneous failure | does an approved growth fit, does the card hold what the model needs, does a refusal name the largest capacity |

Why these bounds are enough. With two ranks there are a creator of the id and
a waiter, a first and a last to be spawned, and one rank may be past every
step the other is before; the code does not compare more than "every" and
"some". Two attempts are one relaunch. Signals are not bounded: the first a process
catches is counted and the second ends it. For the caches, two tokens are enough for a
stale row to differ from the right one; three positions hold a block, a run
after it and one more, in either parity of flips and, with blocks of one,
prefills of one, two and three blocks; the second model's ring wraps after
two tokens. Prompts in the batched run repeat one token and a batch's two
tokens differ, so that swapped sequences, stale slots and shifted rows still
show. Tokens (and sequences) are told apart only by equality, which makes
exchanging them a symmetry of the model, of the invariants and of the refined
specification. The key window's `MAX_KEY_BUCKETS` is 16 in the code and 3 in
`MCCachedModel`, so that a cache of four slots has a short window and the full
one; the batched cache starts at one position instead of 256, so that it grows
twice. In `transfers` three pieces reuse one of two slots and one does not, two
words are enough for a mix of old and new, and a counter of six meets the host
sentinel and wraps. In the tensor runs no dimension equals another where a graph
could mix them up, and the data is one no permutation of rows, columns or heads
keeps; two KV heads with two query heads each are the smallest grouped attention.
The cards of `generators` are of the sizes at which one more bucket just fits and
of some between, and the failing mutants show that these cases happen.

Bounds in guards are `MaxAttempts`, `Capacity`, `MaxBuilds`,
`MaxCall`, `MaxCalls`, a job's `calls`, `MaxRetries` and `MaxFailures`;
attempts and capacity are the program's own.

**Fairness.** `group` assumes weak fairness of each thread's own next step and of
each deadline (`Instant` moves on), and strong fairness of `GiveUpId`:
`wait_for_id` alternates between looking and testing its cap, and a real clock
passes the cap however the steps alternate. Nothing is assumed of failures,
signals, the death of a process, nor of HCCL beyond returning from
`hcclCommInitRank` when everybody is in it. `abort_comm` assumes only that an
asked thread starts its deadline thread and that the deadline passes: calls into
HCCL may never return. `transfers` assumes that the device goes on, the host
goes on and time passes; nobody has to call. The other runs have safety
properties only.

Deadlock is checked in every run but `recipe_cache` and `model_runs`, which stop
at the bounds on builds and calls. The modules whose systems end say where
(`Terminated`, `HandleEnded`, `TpEnded` and the like).

## 4. Proofs

TLAPS proves, for every value of the constants:

* `RankGroupProofs`: type correctness; the inductive invariant `IInv`; from it
  `BarrierSafe`, `LeavesNobodyBehind`, `HonestVerdict`, `AbortedForAReason`, the
  action property `RelaunchIsClean`, and `ImplementsBarrier`. The safety
  properties speak of what ranks did; the coordinator acts on `status` and
  files, which lag behind. `IInv` adds what links them: a status other than
  "none" belongs to a rank that has exited, with that code unless the
  coordinator killed it; a watchdog starts after `go` and does not outlive its
  process; a reason for aborting does not go away; `go` is never written without
  every card; and whatever follows the reaping is done with every rank gone.
* `RankGroupProofs` also extends `AbortComm`: the slot is emptied by whoever takes
  it, before the handle is closed, and is not filled again (`HandleInv`); hence
  `AbortedOnce` and `SlotHoldsLive`.
* The last part of `RankGroupProofs` is about `TpRuns`: `ReducesLineUp`, for every
  job, any number of ranks and any calls; the data the ranks compute does not
  matter to it. What a call reduces is a function of the call alone, not of the
  rank, the ids it was fed or where its ring's head is (`CallReduces`, `CalledIs`,
  from `SamePrefill` and `SameDecode`), and a stream that runs on by anything but an
  all-reduce has the same all-reduces left (`TailReduces`). `LineUpInv` adds to the
  property that a rank that is ahead has all of its call left to reduce, and that
  the calls it has skipped over since have nothing to reduce (`AheadInv`): hence a
  rank that catches up finds the same all-reduces, and where all streams are at
  one, nobody is ahead and all are at the same. `Flat`, which joins the parts of a
  call's work, is a recursive function; that it is what its definition says, and
  the inductions over it, go by the least element as in `KvCacheProofs`.
* `KvCacheProofs`: the lemmas both decoders rest on. `ScatterRows`: a launch that
  attends to its whole block, over the rows of `f`, leaves the rows of `f`
  followed by the block. `KeysHold`: the key bucket chosen covers the block.
  `CacheBucketHolds`: the bucket chosen for a capacity holds it and is none
  smaller. Doubling is a recursive function, and what needs induction (a doubling
  sequence reaches every number) goes by the least element of a set of numbers,
  since the library's induction theorems take an operator.
* `CachedModelProofs`: `IInv`, `AnswersFed` and `Implements`, for every
  vocabulary, recipe size, capacity and key step, **assuming that no call fails
  inside `loop_steps`** (`LoopMayFail = FALSE`): without it `KnownHolds` is false
  (`cached_retry`). Failed blocks are covered. `IInv` says that the rows below
  `pos` of the current buffer are those of `fed` (`CacheHolds`), that between
  calls `known` is right (`KnownHolds`), and what a call under way has left: a
  block is, after `fed`, in the buffer it was written to (`PendingBlock`); a run
  has its seed in its slot and its launches so far have consumed the seed and
  then the ids in the ring (`PendingLoop`).
* `BatchedModelProofs`: `IInv` and `Implements`, for any number of sequences, models
  and capacities, **assuming that no call fails inside `loop_steps`** (`RunsReturn`)
  and, for the refinement alone, that the models' capacities have a largest
  (`Tallest`: a finite set of models is enough). Failed prefills and steps are
  covered: a sequence is then `torn`, nothing is claimed of its rows, and its
  answers are not compared, until it is reset. `IInv` adds to the rows of every
  sequence where the blocks of a prefill under way are (in the sequence's slot or
  in the recipe's own buffer, as the number of blocks left is even or odd), that a
  growth carries every row over, and that the ring holds at its head what `known`
  says, wrapped or not.
* `TransfersProofs`, for every ring, counter width, sentinel, pattern and result.
  `FenceIsRight`: a fence that has returned was right. `ExactAnswers`: what a call
  returns is its own launch's result, whole, whatever words of it equal a sentinel.
  `SlotsAreKept`: an upload slot is not filled while a copy may read it.
  `CopiesAreAlone`: two copies never write the host buffer at once. All hold
  **under two conditions** (`Conditions`): the memory the fence buffer was
  allocated from does not hold its first pattern, and nobody goes on with a runtime
  whose copies may still be landing. `FenceInv` says that the fence's copy is the
  last one enqueued while the host waits, and that a word of the fence buffer shows
  the current pattern exactly when it has landed (copies land in order, so
  everything before it has). `IInv` adds the rest of the pipeline, a part for each
  place: what is in flight at each stage of a call (`Stages`), which slot each
  queued upload reads (`Uploads`), what the device's input holds (`Inputs`), what a
  queued copy back will bring (`Downloads`), what has been written of the result
  (`Written`) and what the host has seen of it (`ReadBack`).
* `GeneratorsProofs`, for every set of plans, without conditions. `CardIsAccounted`:
  between calls the card holds the runtimes of the current bucket, each once, also
  after a growth that failed half-way. `ApprovedFits`: a growth that was approved fits if
  the plan covers it (`Covered`) and no earlier build failed; the argument is that,
  when the ceiling is a doubling of the smallest bucket, a bucket that is outgrown is
  at most half of the new one (`OutgrownIsHalf`), so that the plan's peak bounds
  every step of the build. `RefusalsNameLargest`: the capacity a refusal names
  fits and the next does not: the bisection keeps one end that fits and one that does
  not, whether the total is monotone or not; with a batch it is, and no larger one
  fits. `IInv` says that capacities are
  buckets (`Bucketed`), what has been built and what is left of a growth under
  way (`UnderWay`; a failed build leaves the old runtimes because what it drops is of
  a larger bucket than any of theirs, `FailureLeavesNow`), and that what is built
  and what is left never exceed the card (`WithinCard`).
* `DeviceOpsProofs`, for any programs whose operations have an output and, through
  a handle, share its buffers (`ProgramsAssumption`), and any number of cards,
  calls and retries. `LeaksAreExcused`: a program that has returned and did not fail
  has given everything back but recipes that are never destroyed, and the card of
  a `Device` is back even if it failed. `QueuedIsHeld`: while a copy or a launch of a
  program that has not failed is queued, its stream and the buffers it uses are
  held. Both are about the order of the steps of the code, so `IInv` speaks of what
  is left of a script: whatever is acquired in it is given back in it (`GivesBack`),
  what is queued is waited for before anything is given back (`Waits`), and what a
  queued step uses is in hand or acquired before it and kept until then
  (`Supplied`); what is held is still going to be given back, and with something
  queued the next wait comes before the next free (`InOrder`). Of a handle it says
  in addition that everything is acquired before its stream (`Stocked`): that is why
  it may go on from any operation, with copies of the failed run still
  queued. Every script has these properties (`ScriptIs`) because they survive
  joining: `JoinSound` for programs one after the other, `Prepared` for buffers
  before the steps that use them, `Ended` for the frees after them. TLC has the
  scripts of the real programs; the proof has any number of operations on any
  number of buffers.
* `DeviceOpsProofs` again, about what the copies carry. `AnswersAreReference`: what is
  read back is the CPU reference's result, whatever failed before and was run
  again, with the copies of the failed run still queued, **assuming that the
  operations themselves are right** (`OperationsCompute`): the data is prepared and a
  graph, run on it, computes as its reference does, and no operation of a program
  writes a tensor that one of it reads. `MCDeviceOps` has TLC evaluate that
  assumption for the programs of `src/bin`; what is proved is that the steps around
  it deliver. `AnswerInv` follows a run backwards from its read (`OnItsWay`, by the
  steps left): the staging buffers hold the data from the fill on; what was
  uploaded is in the card or queued; with five steps left nothing but the launch
  is queued, then nothing but the copy back; and after each wait what was queued
  has arrived. That needs every read of every script, also of what is left of one
  and of one that is run again, to end a whole run (`Planned`, `Whole`), which survives
  joining too; a handle's new run may overwrite staging buffers that queued copies
  of the failed one still read, because whatever they bring is uploaded
  again behind them, and none is left at the launch.
* `DeviceOpsProofs` on a single launch (`NodeOrders`): `AnyOrderIsCreationOrder`. A node
  may run when those before it that write a tensor it reads have run; the device
  knows tensors by name and does not see that two of them are bound to one place.
  If `Ordered` holds of the nodes and the bindings, and every operand was in memory
  or is written before (`Fed`), every such order ends in the memory of the creation
  order (`Ran`), whatever the nodes compute: for any number of nodes, operands and
  places. `LaunchInv` says that what has run is closed under what is `Behind` it, and
  that a place holds what the last of its writers that have run writes in creation
  order; nodes that touch a place cannot pass each other (`NoneOvertakes`), so a node
  finds the writers of its operands, and no later ones, done. This gives the runs'
  `AnyOrderComputesTheSame` its meaning: they evaluate `Ordered` on every launch of
  `ModelRuns`, and on the operations' graphs in `MCDeviceOps`; a launch whose operands
  are not `Fed` TLC could not evaluate. Nodes run one at a time in this model.
* `RecipeCacheProofs`: `IInv`, `OwnRecipe`, `StoredWhole`, `StoredStays` and
  `NoLitter`, for any processes, process ids, graphs and numbers of builds. `IInv`
  adds that a named inode holds its name's graph or is torn, that no inode has
  two names, that whoever writes an inode has its name's key (`Writing`), and
  that with distinct process ids a temporary file is its writer's alone (`Alone`).
  `OwnRecipe` needs neither distinct ids nor power, `StoredWhole` needs both.

The assumptions are those the modules name: sizes are positive (`rows` and the
number of ranks of a tensor-parallel job too), the garbage
value is not a token, ids are not the value "none", a pattern differs from the
next one, a program has operations and an operation has an output.

Only model-checked: liveness (`CoordinatorReturns`, `OrphansLeave`,
`AskedLeaves`, `EveryCallEnds`), which is beyond the prover; that answers over
tensors are the reference's in any node order (`ModelRuns`,
`RanksAnswerReference`, and the assumption `OperationsCompute` about device
operations, in creation order; `Ordered` for the launches of `ModelRuns`), since
what a graph's recursive computation yields on all data cannot be proved here.

## 5. Where code and documentation differ

Shown by a run:

* `cached.rs:92`: `known` is "a slot whose id the host knows". A run that fails
  after its seed was uploaded leaves `known` naming what was there before
  (`cached_retry`); `batched.rs` has the same order.
* `cached.rs:854` and `:994`: `step` panics only if `n` or the cache does not
  allow the block, and padding rows "see everything". With a window the mask
  range of a padding row may end before it begins (`block_panics`).

Read, and respected by the models' environment or noted at the definition; no
run is spent on them:

* `README.md:447` "No rank outlives its coordinator holding a card." A rank in
  `hcclCommInitRank` has no watchdog yet; and the watchdog, once started, samples
  the parent id again (`hccl.rs:750`). `OrphansLeave` excepts ranks in that call.
* `README.md:439`: the waits "both end at once if the coordinator aborts or goes
  away". They compare with a parent id sampled when the wait begins, after the
  card was acquired; a rank that samples late leaves only at its deadline.
* `hccl.rs:521`: "no other thread can be destroying it". `Drop for Comm` ignores
  the result of its compare-exchange and closes a handle the watchdog has taken.
* `batched.rs:883`: `prefill` feeds a sequence "at its current position". With
  an odd number of blocks onto a sequence that is not empty it reads the
  recipe's own buffer and writes it over the slot, the earlier positions' keys
  included; `tp.rs:624` asserts against exactly this, `BatchedGenerator` resets
  first.
* `runtime.rs:201`: the fence's first pattern is `0x5A00_0001` in every process
  and its buffer is not cleared (`runtime.rs:196`): left over from an earlier
  runtime, it makes the first fence return at once. This is the first condition
  of `TransfersProofs`.
* `runtime.rs:570`: buffers are shared by name and number of elements. With one
  sequence the batched prefill's pair is the decode recipe's slot itself, and
  in and out are one buffer.
* `lib.rs:2352`, `:2329` and `:3103` of `reng-model`: the plan "errs high", its
  cache term is "the peak of a growth step", and an approved growth "will not
  fail in the middle of a compile". At the peak the first bucket's caches and the
  old prefill pair are alive too, and when the ceiling is not a doubling of the
  smallest bucket the old one is more than half of the new: 64 sequences and a
  ceiling of 5000 are planned at 98 x 5001 positions and hold 616916. The reserve
  may or may not cover that; `ApprovedGrowthFits` is about plans where it does.
* `lib.rs:2512`: "The total is monotone in the capacity". On the single path it
  drops where `key_step` doubles; the capacity found fits and the next does not,
  but a larger one may. `lib.rs:3108` says the refusal names a bucket; it names
  a capacity.
* `attn.rs:12`: sizes of 128 are still marginal, and the code accepts them.
* `attn.rs`, `chain.rs` and `MatmulHpu` never destroy their recipe, which
  `OnlyFailuresLeak` excuses.
* `cached.rs:7` describes the caches as "updated in place": the wide recipes
  write the other buffer and the two change roles.

## 6. Not modelled

* Hazards without a property: a parent id sampled after the coordinator died
  (`hccl.rs:605`, where the code is wrong, above), the relaunch pause that a
  signal does not interrupt (`tp.rs:758`), lost writes of `go` and `abort`
  (`hccl.rs:1143`), a caller that reads again before the copies of a timed-out
  read have landed (`runtime.rs:1396`, assumed away by `Retries = "settled"`),
  and the card a failed program leaves taken (`attn.rs:201`, what the code does).
  In part: `Drop for Comm` closing a handle the watchdog took (`hccl.rs:530`), and
  growths of plans whose reserve does not hold what the plan leaves out
  (`lib.rs:3110` of `reng-model`).
* A call's data is exact: rounding to bf16, the accuracy of kernels and the
  quantization of fp8 (`fp8.rs`, `reng-fp8`) are properties of single values.
* The failure of a `BatchedModel` growth inside a call is in `Generators` (memory)
  and not in `BatchedModel` (rows): the fields are assigned after the last build,
  so the old bucket stays as it was. Failures inside the batched device loop are
  the case of `cached_retry`. `TpModel::last_logits` only reads.
* Recipes, workspaces, tables and staging memory are not counted on the card.
* Ceilings (`reng-ceiling`), configuration and weight loading, RoPE tables,
  `probe.rs`, `ffi.rs`, the model programs, tools and vendored headers: stateless
  or sequential computations, declarations, straight-line callers. The programs
  of `src/bin` that time one kernel or ask the card for one are not modelled
  either.
* Next, if this is carried on: three ranks in `tp_runs`, whose answers are only
  model-checked for two.
