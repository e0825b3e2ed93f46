------------------------------ MODULE DeviceOps ------------------------------
(***************************************************************************)
(* A process that runs programs of device operations one after the other:  *)
(* every call into the SynapseAI runtime may fail, the copies and the      *)
(* launch of a stream happen on the device behind the calls that queue     *)
(* them, and a card that was released takes a while to settle.             *)
(*                                                                         *)
(* A program is the sequence of the steps its code takes.  A step that     *)
(* fails returns at once (the syn! macro): what was acquired before it     *)
(* stays acquired, except what a live Device or MatmulHpu drops.           *)
(***************************************************************************)
EXTENDS OpPrograms, FiniteSets

CONSTANTS Programs,   \* the programs, a sequence
          Later,      \* those that may follow the first one
          Cards,      \* how many cards the machine has
          MaxCalls,   \* bound: programs a process runs
          MaxRetries  \* bound: failed runs of a handle that are tried again

ASSUME DeviceAssumption ==
    /\ Cards \in Nat \ {0}
    /\ MaxCalls \in Nat
    /\ MaxRetries \in Nat
    /\ Later \subseteq DOMAIN Programs

IsSeq(s) == s \in Seq({s[j] : j \in DOMAIN s})

\* The runs of a handle use the buffers it was created with.
SameBuffers(op, first) ==
    /\ \A j \in DOMAIN op.ins : \E o \in DOMAIN first.ins : op.ins[j].name = first.ins[o].name
    /\ op.outs[1].name = first.outs[1].name

ASSUME ProgramsAssumption ==
    /\ IsSeq(Programs) /\ Programs # <<>>
    /\ \A j \in DOMAIN Programs :
          /\ IsSeq(Programs[j].ops) /\ Programs[j].ops # <<>>
          /\ \A k \in DOMAIN Programs[j].ops :
                /\ IsSeq(Programs[j].ops[k].ins)
                /\ IsSeq(Programs[j].ops[k].outs) /\ Programs[j].ops[k].outs # <<>>
                /\ Programs[j].kind = "matmul" =>
                      SameBuffers(Programs[j].ops[k], Programs[j].ops[1])

VARIABLES calls,    \* programs started
          prog,     \* the program of the call under way
          todo,     \* the steps it has left
          held,     \* what the process has acquired and not given back
          mem,      \* the buffers of the current operation; <<>> is old memory
          queue,    \* what its streams have not done yet
          cards,    \* free, taken, or settling after a release
          module,   \* RENG_MODULE_ID, or 0 for any card
          raced,    \* the card was acquired before its last release settled
          failed,   \* the programs that returned an error
          retries,
          answer    \* what the last operation read back

vars == <<calls, prog, todo, held, mem, queue, cards, module, raced, failed, retries, answer>>

-----------------------------------------------------------------------------
\* The steps.  k is the operation of the program they belong to.

Step(do, arg, k) == << [do |-> do, arg |-> arg, k |-> k] >>
Each(do, bufs, k) == [j \in DOMAIN bufs |-> [do |-> do, arg |-> bufs[j].name, k |-> k]]
Host(op) == op.ins \o <<op.outs[1]>>

Open == Step("make", "init", 1) \o Step("card", "", 1)
Build(k) == Step("make", "graph", k) \o Step("make", "recipe", k)
Allocate(op, k) ==
    Each("dev", op.ins \o op.outs, k) \o Step("ws", "", k) \o Each("host", Host(op), k)
Feed(op, k) == Each("upload", op.ins, k) \o Step("sync", "", k)
Launch(k) == Step("launch", Gl(""), k) \o Step("sync", "", k)
\* Mutant: the result is read without waiting for its copy.
FetchUnsynced(op, k) == Each("download", <<op.outs[1]>>, k) \o Step("read", op.outs[1].name, k)
Fetch(op, k) ==
    Each("download", <<op.outs[1]>>, k) \o Step("sync", "", k) \o Step("read", op.outs[1].name, k)
Execute(op, k) == Feed(op, k) \o Launch(k) \o Fetch(op, k)

\* What the end of each kind gives back.
\* Mutant: the workspace is forgotten.
BuffersButWs == {"host", "dev", "stream"}
Buffers == {"host", "dev", "ws", "stream"}
Context == {"card", "init"}

\* A method of Device.
DeviceOp(op, k) ==
    Build(k) \o Allocate(op, k) \o Step("fill", "", k) \o Step("make", "stream", k)
    \o Execute(op, k) \o Step("free", Buffers \cup {"recipe", "graph"}, k)
DeviceProgram(p) ==
    Open \o Stepped(Len(p.ops), <<>>, LAMBDA s, k : s \o DeviceOp(p.ops[k], k))
    \o Step("free", Context, 1)

\* A one-shot program.  attention_bf16 and matmul_chain_bf16 keep the recipe,
\* and the first refuses sizes below 128.  (Its file says that copies back of
\* smaller ones race and that 128 itself is marginal; the code accepts 128, and
\* `small` is below it.)
KeepsRecipe(p) == p.kind \in {"attention", "chain", "matmul"}
Refuses(p) == p.kind = "attention" /\ p.small
OneShotProgram(p) ==
    IF Refuses(p) THEN <<>>
    ELSE Step("make", "init", 1) \o Build(1) \o Step("card", "", 1)
         \o Allocate(p.ops[1], 1) \o Step("fill", "", 1) \o Step("make", "stream", 1)
         \o Execute(p.ops[1], 1)
         \o Step("free", Buffers \cup Context \cup {"graph"}
                           \cup (IF KeepsRecipe(p) THEN {} ELSE {"recipe"}), 1)

\* MatmulHpu: new, the runs and launches, drop.
MatmulNew(op) ==
    Step("make", "init", 1) \o Build(1) \o Step("card", "", 1)
    \o Allocate(op, 1) \o Step("make", "stream", 1)
\* Mutant: the data of the first run is still in the staging buffers.
MatmulCallUnfilled(p, k) ==
    IF p.calls[k] = "launch" THEN Launch(k)
    ELSE IF k = 1 THEN Step("fill", "", k) \o Execute(p.ops[k], k)
    ELSE Execute(p.ops[k], k)
MatmulCall(p, k) ==
    IF p.calls[k] = "launch" THEN Launch(k)
    ELSE Step("fill", "", k) \o Execute(p.ops[k], k)
MatmulDrop == Step("free", Buffers \cup Context \cup {"graph"}, 1)
MatmulFrom(p, k) ==
    Stepped(Len(p.ops), <<>>, LAMBDA s, j : IF j < k THEN s ELSE s \o MatmulCall(p, j))
    \o MatmulDrop

Script(p) ==
    CASE p.kind = "device" -> DeviceProgram(p)
      [] p.kind = "matmul" -> MatmulNew(p.ops[1]) \o MatmulFrom(p, 1)
      [] OTHER -> OneShotProgram(p)

-----------------------------------------------------------------------------
\* State.

Now == Head(todo)
Does(do) == todo # <<>> /\ Now.do = do
Current == prog.ops[Now.k]
Ours(r) == r.call = calls
Has(kind) == \E r \in held : Ours(r) /\ r.kind = kind
Held(kind, name) == [call |-> calls, k |-> Now.k, kind |-> kind, name |-> name]
Old == <<>>
\* The buffers after some have been written.
Put(new) == [b \in DOMAIN new \cup DOMAIN mem |-> IF b \in DOMAIN new THEN new[b] ELSE mem[b]]
Put1(place, val) == Put([b \in {place} |-> val])

Init ==
    /\ calls = 0 /\ prog = Programs[1] /\ todo = <<>> /\ held = {} /\ mem = <<>> /\ queue = <<>>
    /\ cards = [c \in 1..Cards |-> "free"] /\ module \in {0, Cards}
    /\ raced = FALSE /\ failed = {} /\ retries = 0 /\ answer = <<>>

\* The next program of the process.
Begin ==
    /\ todo = <<>> /\ calls < MaxCalls
    /\ \E p \in IF calls = 0 THEN DOMAIN Programs ELSE Later :
          prog' = Programs[p] /\ todo' = Script(prog')
    /\ calls' = calls + 1 /\ mem' = <<>> /\ answer' = <<>> /\ retries' = 0
    /\ UNCHANGED <<held, queue, cards, module, raced, failed>>

\* synInitialize, the graph with its tensors and nodes, the recipe with its
\* tensor ids, the stream.  An operation starts with buffers of its own.
Make ==
    /\ Does("make")
    /\ held' = held \cup {Held(Now.arg, Gl(""))}
    /\ mem' = IF Now.arg = "graph" THEN <<>> ELSE mem
    /\ todo' = Tail(todo)
    /\ UNCHANGED <<calls, prog, queue, cards, module, raced, failed, retries, answer>>

\* acquire_device: the card RENG_MODULE_ID names, else the lowest free one.
Acquirable == {c \in 1..Cards : cards[c] # "taken" /\ module \in {0, c}}
AcquireCard ==
    /\ Does("card") /\ Acquirable # {}
    /\ LET c == CHOOSE c \in Acquirable : \A o \in Acquirable : c <= o
       IN  /\ cards' = [cards EXCEPT ![c] = "taken"]
           /\ raced' = (cards[c] = "settling")
           /\ held' = held \cup {Held("card", Nm("card", c))}
    /\ todo' = Tail(todo)
    /\ UNCHANGED <<calls, prog, mem, queue, module, failed, retries, answer>>

\* synDeviceMalloc and synHostMalloc: memory as it was left.
Malloc ==
    /\ Does("dev") \/ Does("host")
    /\ held' = held \cup {Held(Now.do, Now.arg)}
    /\ mem' = Put1(<<Now.do, Now.arg>>, Old)
    /\ todo' = Tail(todo)
    /\ UNCHANGED <<calls, prog, queue, cards, module, raced, failed, retries, answer>>

\* The recipe says how much workspace it wants: none, or some.
Workspace ==
    /\ Does("ws")
    /\ \E wants \in BOOLEAN : held' = IF wants THEN held \cup {Held("ws", Gl(""))} ELSE held
    /\ todo' = Tail(todo)
    /\ UNCHANGED <<calls, prog, mem, queue, cards, module, raced, failed, retries, answer>>

\* The host writes its inputs into the staging buffers.
Data(op, name) == Loaded(op.ins)[name].at
Fill ==
    /\ Does("fill")
    /\ mem' = Put([b \in {<<"host", Current.ins[j].name>> : j \in DOMAIN Current.ins} |->
                      Data(Current, b[2])])
    /\ todo' = Tail(todo)
    /\ UNCHANGED <<calls, prog, held, queue, cards, module, raced, failed, retries, answer>>

\* synMemCopyAsync and synLaunch only queue.
Queued == [do |-> Now.do, name |-> Now.arg, call |-> calls, k |-> Now.k]
Enqueue ==
    /\ Does("upload") \/ Does("launch") \/ Does("download")
    /\ queue' = Append(queue, Queued)
    /\ todo' = Tail(todo)
    /\ UNCHANGED <<calls, prog, held, mem, cards, module, raced, failed, retries, answer>>

Synchronize ==
    /\ Does("sync")
    /\ \A j \in DOMAIN queue : queue[j].call # calls
    /\ todo' = Tail(todo)
    /\ UNCHANGED <<calls, prog, held, mem, queue, cards, module, raced, failed, retries, answer>>

\* The result is converted out of the staging buffer.
ReadBack ==
    /\ Does("read")
    /\ answer' = << [val |-> mem[<<"host", Now.arg>>], cpu |-> Current.cpu, raced |-> raced] >>
    /\ todo' = Tail(todo)
    /\ UNCHANGED <<calls, prog, held, mem, queue, cards, module, raced, failed, retries>>

\* The frees at the end of an operation, and the drops of Device and MatmulHpu.
GivenBack(kinds, k) ==
    {r \in held : Ours(r) /\ r.kind \in kinds /\ (r.k = k \/ r.kind \in Context)}
Free ==
    /\ Does("free")
    /\ LET back == GivenBack(Now.arg, Now.k)
       IN  /\ held' = held \ back
           /\ cards' = [c \in 1..Cards |->
                          IF \E r \in back : r.kind = "card" /\ r.name = Nm("card", c) THEN "settling"
                          ELSE cards[c]]
    /\ todo' = Tail(todo)
    /\ UNCHANGED <<calls, prog, mem, queue, module, raced, failed, retries, answer>>

\* A call returns an error.  A Device or a complete MatmulHpu is dropped, also
\* one whose stream could not be created; a failed one-shot program gives
\* nothing back.
CanFail == \/ Does("make") \/ Does("card") \/ Does("dev") \/ Does("host") \/ Does("ws")
           \/ Does("upload") \/ Does("launch") \/ Does("download") \/ Does("sync")
Complete == Has("stream") \/ (Does("make") /\ Now.arg = "stream")
Unwound(p) ==
    CASE p.kind = "device" /\ Has("card") -> Step("free", Context, 1)
      [] p.kind = "matmul" /\ Complete -> MatmulDrop
      [] OTHER -> <<>>
CallFails ==
    /\ CanFail
    /\ todo' = Unwound(prog)
    /\ failed' = failed \cup {calls}
    /\ UNCHANGED <<calls, prog, held, mem, queue, cards, module, raced, retries, answer>>

\* The owner of a handle goes on with it after an error: with the same run
\* again, or with a later one, whose inputs are written over those that the
\* copies still queued have yet to read.
Retry ==
    /\ CanFail /\ prog.kind = "matmul" /\ Has("stream") /\ retries < MaxRetries
    /\ \E k \in Now.k..Len(prog.ops) : todo' = MatmulFrom(prog, k)
    /\ retries' = retries + 1
    /\ UNCHANGED <<calls, prog, held, mem, queue, cards, module, raced, failed, answer>>

-----------------------------------------------------------------------------
\* The device: every stream in order.

Rest(j) == SubSeq(queue, 1, j - 1) \o SubSeq(queue, j + 1, Len(queue))
First(j) == \A o \in 1..(j - 1) : queue[o].call # queue[j].call
OfNow(c) == c.call = calls
Copied(c, from, to) == mem' = Put1(<<to, c.name>>, mem[<<from, c.name>>])

Uploaded(c) == c.do = "upload" /\ OfNow(c) /\ Copied(c, "host", "dev")

Operands(op) ==
    [n \in {op.ins[j].name : j \in DOMAIN op.ins} |->
        [sz |-> Loaded(op.ins)[n].sz, at |-> mem[<<"dev", n>>]]]
OutPlaces(op) == {<<"dev", op.outs[j].name>> : j \in DOMAIN op.outs}
Computed(op) ==
    IF \E n \in DOMAIN Operands(op) : Operands(op)[n].at = Old
    THEN [b \in OutPlaces(op) |-> Old]
    ELSE LET after == Ran(op.nodes, Operands(op), <<>>)
         IN  [b \in OutPlaces(op) |-> after[b[2]].at]
Launched(c) ==
    /\ c.do = "launch" /\ OfNow(c)
    /\ \E left \in {Computed(prog.ops[c.k])} : mem' = Put(left)

\* On a card that had not settled the copy back delivers zeros; below the
\* reliable sizes it may run before the result has reached the memory.
Zeros(s) == [j \in DOMAIN s |-> 0]
Downloaded(c) ==
    /\ c.do = "download" /\ OfNow(c)
    /\ \/ /\ ~raced /\ Copied(c, "dev", "host")
       \/ /\ raced
          /\ mem' = Put1(<<"host", c.name>>, Zeros(mem[<<"dev", c.name>>]))
       \/ /\ prog.small /\ UNCHANGED mem

\* What a program that has returned left queued: a failed MatmulHpu frees its
\* buffers and its stream under it.  That none of it reaches the memory of a
\* later program is assumed of the runtime's stream destruction and release.
Abandoned(c) == ~OfNow(c) /\ UNCHANGED mem

DeviceWorks ==
    /\ \E j \in DOMAIN queue :
          /\ First(j) /\ queue' = Rest(j)
          /\ \/ Uploaded(queue[j]) \/ Launched(queue[j]) \/ Downloaded(queue[j])
             \/ Abandoned(queue[j])
    /\ UNCHANGED <<calls, prog, todo, held, cards, module, raced, failed, retries, answer>>

Settle ==
    /\ \E c \in 1..Cards : cards[c] = "settling" /\ cards' = [cards EXCEPT ![c] = "free"]
    /\ UNCHANGED <<calls, prog, todo, held, mem, queue, module, raced, failed, retries, answer>>

\* The process ends.
Finished == todo = <<>> /\ calls = MaxCalls /\ UNCHANGED vars

Next ==
    \/ Begin \/ Make \/ AcquireCard \/ Malloc \/ Workspace \/ Fill \/ Enqueue \/ Synchronize
    \/ ReadBack \/ Free \/ CallFails \/ Retry \/ DeviceWorks \/ Settle \/ Finished

Spec == Init /\ [][Next]_vars

-----------------------------------------------------------------------------
\* Properties.

\* What an operation hands back is what its CPU reference computes, on a card
\* that had settled and at sizes from 128 on, whose copies back are taken as
\* reliable: the host's preparation of the operands, the tensors' sizes and
\* order, the launch's bindings and the waits between the copies together,
\* also for a handle that is run again, on the same inputs or on others, while
\* the copies of a failed run are still queued.
\* attention_bf16 never answers at another size.
AnswerIsReference ==
    \A j \in DOMAIN answer :
        ~answer[j].raced /\ (prog.small => prog.kind = "attention")
        => answer[j].val = answer[j].cpu

\* When a program has returned, what is still acquired is what a failed one
\* left behind, and the recipes of the three that never destroy theirs; the
\* card of a failed one is back if it went through a Device.
Excused(r) == r.call \in failed \/ r.kind = "recipe"
OnlyFailuresLeak ==
    todo = <<>> =>
        /\ \A r \in held : Excused(r)
        /\ prog.kind = "device" => ~Has("card")
        /\ \A c \in 1..Cards :
              cards[c] = "taken" => \E r \in held : r.kind = "card" /\ r.name = Nm("card", c)

\* Nothing is given back while a copy or a launch of its stream may still use
\* it, unless the program failed: the frees of a successful one come after its
\* last wait.
NothingFreedInFlight ==
    \A j \in DOMAIN queue :
        queue[j].call \in failed
        \/ /\ \E r \in held : r.call = queue[j].call /\ r.kind = "stream"
           /\ queue[j].do # "launch" =>
                \A side \in {"host", "dev"} :
                    \E r \in held : /\ r.call = queue[j].call /\ r.kind = side
                                    /\ r.name = queue[j].name

-----------------------------------------------------------------------------
\* Why they hold: what is true of what is left of every script.

Acquires(x) == x.do \in {"make", "card", "dev", "host", "ws"}
KindOf(x) == IF x.do = "make" THEN x.arg ELSE x.do
Queues(x) == x.do \in {"upload", "launch", "download"}
Frees(x, kind, k) == x.do = "free" /\ kind \in x.arg /\ (x.k = k \/ kind \in Context)

\* Whatever a script acquires it gives back, but for recipes.
FreedIn(s, i, kind, k) == kind = "recipe" \/ \E j \in (i + 1)..Len(s) : Frees(s[j], kind, k)
GivesBack(s) == \A i \in DOMAIN s : Acquires(s[i]) => FreedIn(s, i, KindOf(s[i]), s[i].k)

\* After step i a wait comes before anything is given back.
Keeps(s, i, j) == \A f \in i..j : s[f].do # "free"
Waited(s, i) == \E j \in (i + 1)..Len(s) : s[j].do = "sync" /\ Keeps(s, i + 1, j)
Waits(s) == \A i \in DOMAIN s : Queues(s[i]) => Waited(s, i)

\* What a queued step uses, as kinds and names, is in hand or acquired before
\* it, and given back only after it.
Uses(do, name) ==
    {<<"stream", Gl("")>>}
    \cup (IF do = "launch" THEN {} ELSE {<<"host", name>>, <<"dev", name>>})
Provides(x, u) ==
    \/ x.do = "make" /\ u = <<x.arg, Gl("")>>
    \/ x.do \in {"dev", "host"} /\ u = <<x.do, x.arg>>
Supplied(s, has) ==
    \A i \in DOMAIN s : Queues(s[i]) =>
        \A u \in Uses(s[i].do, s[i].arg) :
            \/ u \in has /\ Keeps(s, 1, i)
            \/ \E j \in 1..(i - 1) : Provides(s[j], u) /\ Keeps(s, j, i)

TypeOK ==
    /\ calls \in Nat /\ failed \subseteq 0..calls
    /\ IsSeq(todo) /\ IsSeq(queue)
    /\ \A r \in held : r.call \in 0..calls
    /\ cards \in [1..Cards -> {"free", "taken", "settling"}]
    /\ \E p \in DOMAIN Programs : prog = Programs[p]

InHand == {<<r.kind, r.name>> : r \in {h \in held : Ours(h)}}

\* The programs that have returned.
Earlier ==
    /\ \A r \in held : Ours(r) \/ Excused(r)
    /\ \A j \in DOMAIN queue : OfNow(queue[j]) \/ queue[j].call \in failed

TakenAreHeld ==
    \A c \in 1..Cards : cards[c] = "taken" => \E r \in held : r.kind = "card" /\ r.name = Nm("card", c)

\* Failed or not, a program gives its Device's card back; a failed one does
\* nothing else.
DropsDevice ==
    /\ prog.kind = "device" /\ Has("card") => FreedIn(todo, 0, "card", 1)
    /\ calls \in failed => \A i \in DOMAIN todo : todo[i].do = "free"

\* A program that has not failed: what is left of it is in order, and agrees
\* with what is held and queued.
InOrder ==
    calls \notin failed =>
        /\ GivesBack(todo) /\ Waits(todo) /\ Supplied(todo, InHand)
        /\ \A r \in held : Ours(r) => FreedIn(todo, 0, r.kind, r.k)
        /\ \A j \in DOMAIN queue : OfNow(queue[j]) =>
              Uses(queue[j].do, queue[j].name) \subseteq InHand /\ Waited(todo, 0)

\* A MatmulHpu that was created has all its buffers, whatever is run again.
Stock(op) == UNION {Uses("upload", Host(op)[j].name) : j \in DOMAIN Host(op)}
MatmulKinds == Buffers \cup Context \cup {"graph", "recipe"}
Stocked ==
    prog.kind = "matmul" /\ calls \notin failed =>
        /\ \A r \in held : Ours(r) => r.kind \in MatmulKinds /\ r.k = 1
        /\ \A i \in DOMAIN todo :
              /\ todo[i].k \in DOMAIN prog.ops
              /\ Acquires(todo[i]) => KindOf(todo[i]) \in MatmulKinds /\ todo[i].k = 1
              /\ todo[i].do = "free" => i = Len(todo)
              /\ Has("stream") => ~Acquires(todo[i])
              /\ todo[i].do = "make" /\ todo[i].arg = "stream" =>
                    \A j \in (i + 1)..Len(todo) : ~Acquires(todo[j])
        /\ todo # <<>> =>
              \A u \in Stock(prog.ops[1]) : u \in InHand \/ \E i \in DOMAIN todo : Provides(todo[i], u)

IInv == TypeOK /\ Earlier /\ TakenAreHeld /\ DropsDevice /\ InOrder /\ Stocked
-----------------------------------------------------------------------------
\* Why the answers are right.

\* What the operations have to bring.  None of a program writes a tensor that
\* one of it reads; no input is empty; and the host's preparation of the
\* operands, the tensors and the nodes compute the CPU reference.
KeepsInputs(p) ==
    \A k, o \in DOMAIN p.ops : \A i \in DOMAIN p.ops[k].ins, j \in DOMAIN p.ops[o].outs :
        p.ops[k].ins[i].name # p.ops[o].outs[j].name
Computes(op) ==
    /\ \A i \in DOMAIN op.ins : Data(op, op.ins[i].name) # Old
    /\ Ran(op.nodes, Loaded(op.ins), <<>>)[op.outs[1].name].at = op.cpu
OperationsCompute ==
    \A j \in DOMAIN Programs :
        /\ KeepsInputs(Programs[j])
        /\ \A k \in DOMAIN Programs[j].ops : Computes(Programs[j].ops[k])

\* A run of operation k, from the filling of the staging buffers to the read.
RunOf(p, k) ==
    Step("fill", "", k) \o (IF p.kind = "matmul" THEN <<>> ELSE Step("make", "stream", k))
    \o Execute(p.ops[k], k)

\* The steps up to i end with those of r, as far as they go back.
EndsWith(s, i, r) == \A d \in 0..(Len(r) - 1) : d < i => s[i - d] = r[Len(r) - d]
\* Every read ends a run of its operation, and what is queued is of one.
Planned(p, s) ==
    \A i \in DOMAIN s :
        /\ Queues(s[i]) \/ s[i].do = "read" => s[i].k \in DOMAIN p.ops
        /\ s[i].do = "download" => s[i].arg = p.ops[s[i].k].outs[1].name
        /\ s[i].do = "read" => EndsWith(s, i, RunOf(p, s[i].k))
\* All of the run is still to come.
Ahead(p, s, i) == Len(RunOf(p, s[i].k)) <= i

\* A run of op, operation k, on its way, with `left` steps to go (the last six
\* are the wait for the uploads, the launch, the copy back and the read): its
\* data is staged; what has been uploaded is in the card or queued, all of it
\* in the card before the launch; then only the launch, then only the copy
\* back is queued, or it is done.
Holds(place, val) == place \in DOMAIN mem /\ mem[place] = val
Upload(name) ==
    \E j \in DOMAIN queue : OfNow(queue[j]) /\ queue[j].do = "upload" /\ queue[j].name = name
OnItsWay(op, k, left) ==
    LET out == op.outs[1].name
    IN  /\ \A i \in DOMAIN op.ins : Holds(<<"host", op.ins[i].name>>, Data(op, op.ins[i].name))
        /\ \A i \in DOMAIN op.ins : left + i < Len(op.ins) + 7 =>
              \/ Holds(<<"dev", op.ins[i].name>>, Data(op, op.ins[i].name))
              \/ left >= 6 /\ Upload(op.ins[i].name)
        /\ left <= 5 => \A j \in DOMAIN queue : OfNow(queue[j]) =>
              \/ left = 4 /\ queue[j].do = "launch" /\ queue[j].k = k
              \/ left = 2 /\ queue[j].do = "download" /\ queue[j].name = out
        /\ left <= 4 =>
              \/ Holds(<<"dev", out>>, op.cpu)
              \/ left = 4 /\ \E j \in DOMAIN queue : OfNow(queue[j])
        /\ left <= 2 /\ ~raced /\ ~prog.small =>
              \/ Holds(<<"host", out>>, op.cpu)
              \/ left = 2 /\ \E j \in DOMAIN queue : OfNow(queue[j])

AnswerInv ==
    /\ Planned(prog, todo)
    /\ Refuses(prog) => todo = <<>>
    /\ \A j \in DOMAIN queue : OfNow(queue[j]) =>
          /\ queue[j].k \in DOMAIN prog.ops
          /\ queue[j].do = "download" => queue[j].name = prog.ops[queue[j].k].outs[1].name
    /\ \A i \in DOMAIN todo : todo[i].do = "read" /\ ~Ahead(prog, todo, i) =>
          OnItsWay(prog.ops[todo[i].k], todo[i].k, i)
    /\ AnswerIsReference
=============================================================================
