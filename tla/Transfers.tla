----------------------------- MODULE Transfers ------------------------------
(***************************************************************************)
(* The transfers of one Runtime (reng-synapse/src/runtime.rs): the inputs  *)
(* staged at its construction, the inputs uploaded before a launch, the    *)
(* fence that waits for uploads, and the read-back of what a launch wrote. *)
(*                                                                         *)
(* The host learns nothing from the stack about completion:                *)
(* synStreamSynchronize returns before copies have landed and before a     *)
(* launch has written its output.  So the device is three engines here,    *)
(* one per direction of copy and one for launches, each in order, none     *)
(* ordered with another, landing word by word; the host only polls memory. *)
(* A fill (synMemsetD32Async and the synchronize after it) is the          *)
(* exception the protocol rests on: it has landed when its call returns.   *)
(*                                                                         *)
(* Words are integers: a copy moves a word when it lands, reading its      *)
(* source at that moment, so that overwriting a buffer too early shows.    *)
(***************************************************************************)
EXTENDS Integers, Sequences

CONSTANTS
  Pieces,        \* slot-sized pieces of the inputs staged at construction
  Slots,         \* Staging::SLOTS
  Words,         \* words of a buffer
  SeqWrap,       \* Fence.seq wraps here (2^32)
  Pattern,       \* seq | 0x5A00_0000, by seq
  Sentinel,      \* SENTINEL_D32, filled into the device output
  HostSentinel,  \* HOST_SENTINEL_D32, filled into the host buffer
  Content,       \* the bytes of a piece
  Input,         \* what a caller may upload before a launch
  Result,        \* what the recipe computes from an input
  Leftover,      \* what memory just allocated may hold
  Retries        \* when a caller goes on after a call that timed out: at
                 \* "any" time, or when the copies it left have "settled"

ASSUME SizeAssumption == Pieces \in Nat /\ {Slots, Words} \subseteq Nat \ {0}
ASSUME SentinelAssumption == {Sentinel, HostSentinel} \subseteq Int /\ Sentinel # HostSentinel
ASSUME SeqAssumption == SeqWrap \in Nat \ {0}
ASSUME PatternAssumption ==
  /\ Pattern \in [0 .. SeqWrap - 1 -> Int]
  /\ \A s \in 0 .. SeqWrap - 1 : Pattern[s] # Pattern[(s + 1) % SeqWrap]
ASSUME DataAssumption ==
  /\ Content \in [1 .. Pieces -> Int]
  /\ Input \subseteq Int
  /\ Result \in [Input -> Int]
  /\ Leftover \subseteq Int
  /\ Leftover # {}
ASSUME RetriesAssumption == Retries \in {"any", "settled"}

Word == 1 .. Words

\* Device buffers and pinned host buffers.
Piece(i) == <<"piece", i>>
In == <<"in">>
FenceBuf == <<"fence">>
Out == <<"out">>
Logits == <<"logits">>
Slot(i) == <<"slot", i>>
Up == <<"up">>
FenceIn == <<"fence_in">>
FenceOut == <<"fence_out">>
HOut == <<"h_out">>
HAux == <<"h_aux">>
Tensor == {Piece(i) : i \in 1 .. Pieces} \cup {In, FenceBuf, Out, Logits}
Pinned == {Slot(i) : i \in 0 .. Slots - 1}
            \cup {Up, FenceIn, FenceOut, HOut, HAux}

VARIABLES
  dev,      \* device memory
  host,     \* pinned memory
  h2d,      \* copies to the device that have not landed, oldest first
  d2h,      \* copies from it
  queue,    \* launches that have not finished
  seq,      \* Fence.seq
  next,     \* Staging.next
  at,       \* where the host is
  then,     \* where it goes on after the fence
  piece,    \* the piece staged next
  kind,     \* the call under way: one launch, or a run of the device loop
  late,     \* READBACK_TIMEOUT has passed since the wait began
  input,    \* history: what was uploaded last
  answer    \* history: what the last call returned

deviceVars == <<dev, h2d, d2h, queue>>
callVars == <<piece, kind, input, answer>>
vars == <<dev, host, h2d, d2h, queue, seq, next, at, then, piece, kind, late,
          input, answer>>

All(v) == [w \in Word |-> v]
Buffer == [Word -> Int]
NoAnswer == {}

Places == {"stage", "fence", "fence_copy", "fence_spin", "built", "idle", "fill",
           "copy", "spin", "logits", "logits_spin", "failed"}

Task == [out : SUBSET Word, value : Int, started : BOOLEAN]
Copy(S, D) == [src : S, dst : D, left : SUBSET Word]

TypeOK ==
  /\ dev \in [Tensor -> Buffer]
  /\ host \in [Pinned -> Buffer]
  /\ h2d \in Seq(Copy(Pinned, Tensor))
  /\ d2h \in Seq(Copy(Tensor, Pinned))
  /\ queue \in Seq(Task)
  /\ seq \in 0 .. SeqWrap - 1
  /\ next \in 0 .. Slots
  /\ at \in Places
  /\ then \in {"stage", "built", "fill"}
  /\ piece \in 1 .. Pieces + 1
  /\ kind \in {"launch", "loop"}
  /\ late \in BOOLEAN
  /\ input \in Int
  /\ answer \subseteq Buffer \X Buffer

Init ==
  /\ dev \in {[t \in Tensor |-> All(x)] : x \in Leftover}
  /\ host = [b \in Pinned |-> All(0)]
  /\ h2d = <<>>
  /\ d2h = <<>>
  /\ queue = <<>>
  /\ seq = 0
  /\ next = 0
  /\ at = "stage"
  /\ then = "built"
  /\ piece = 1
  /\ kind = "launch"
  /\ late = FALSE
  /\ input = 0
  /\ answer = NoAnswer

-----------------------------------------------------------------------------
(* The device.                                                             *)

Enqueue(q, src, dst) == Append(q, [src |-> src, dst |-> dst, left |-> Word])

\* A copy in flight after word w has landed.
Landed(q, w) ==
  IF Head(q).left = {w} THEN Tail(q) ELSE [q EXCEPT ![1].left = @ \ {w}]

LandUp(w) ==
  /\ h2d # <<>>
  /\ w \in Head(h2d).left
  /\ dev' = [dev EXCEPT ![Head(h2d).dst][w] = host[Head(h2d).src][w]]
  /\ h2d' = Landed(h2d, w)
  /\ UNCHANGED <<host, d2h, queue, seq, next, at, then, late, callVars>>

LandDown(w) ==
  /\ d2h # <<>>
  /\ w \in Head(d2h).left
  /\ host' = [host EXCEPT ![Head(d2h).dst][w] = dev[Head(d2h).src][w]]
  /\ d2h' = Landed(d2h, w)
  /\ UNCHANGED <<dev, h2d, queue, seq, next, at, then, late, callVars>>

\* What a recipe computes from inputs that are not what the host meant.
Wrong == -1

Computed ==
  IF /\ \A i \in 1 .. Pieces : dev[Piece(i)] = All(Content[i])
     /\ \E v \in Input : dev[In] = All(v)
  THEN Result[CHOOSE v \in Input : dev[In] = All(v)]
  ELSE Wrong

\* The recipe reads its inputs and computes the logits before the ids, the
\* tensor it is read back by.
Compute ==
  /\ queue # <<>>
  /\ ~Head(queue).started
  /\ dev' = [dev EXCEPT ![Logits] = All(Computed)]
  /\ queue' = [queue EXCEPT ![1] = [@ EXCEPT !.value = Computed, !.started = TRUE]]
  /\ UNCHANGED <<host, h2d, d2h, seq, next, at, then, late, callVars>>

Write(w) ==
  /\ queue # <<>>
  /\ Head(queue).started
  /\ w \in Head(queue).out
  /\ dev' = [dev EXCEPT ![Out][w] = Head(queue).value]
  /\ queue' = IF Head(queue).out = {w} THEN Tail(queue)
              ELSE [queue EXCEPT ![1].out = @ \ {w}]
  /\ UNCHANGED <<host, h2d, d2h, seq, next, at, then, late, callVars>>

\* READBACK_TIMEOUT.
Tick ==
  /\ at \in {"fence_copy", "fence_spin", "copy", "spin", "logits_spin"}
  /\ ~late
  /\ late' = TRUE
  /\ UNCHANGED <<deviceVars, host, seq, next, at, then, callVars>>

-----------------------------------------------------------------------------
(* Fence::wait, called from three places.                                  *)

\* A fresh pattern goes out after the uploads.
Fence ==
  /\ at = "fence"
  /\ seq' = (seq + 1) % SeqWrap
  /\ host' = [host EXCEPT ![FenceIn] = All(Pattern[seq'])]
  /\ h2d' = Enqueue(h2d, FenceIn, FenceBuf)
  /\ late' = FALSE
  /\ at' = "fence_copy"
  /\ UNCHANGED <<dev, d2h, queue, next, then, callVars>>

\* The fence buffer is copied back.
FenceCopy ==
  /\ at = "fence_copy"
  /\ host' = [host EXCEPT ![FenceOut] = All(HostSentinel)]
  /\ d2h' = Enqueue(d2h, FenceBuf, FenceOut)
  /\ at' = "fence_spin"
  /\ UNCHANGED <<dev, h2d, queue, seq, next, then, late, callVars>>

\* Mutant: the first word is taken for all.
PendingFirst(b) == host[b][1] = HostSentinel

Pending(b) == \E w \in Word : host[b][w] = HostSentinel

\* Mutant: one word with the pattern is taken for the whole buffer.
MatchedSome == \E w \in Word : host[FenceOut][w] = Pattern[seq]

Matched == host[FenceOut] = All(Pattern[seq])

\* The copy has landed: the fence returns, or copies again.
FenceSpin ==
  /\ at = "fence_spin"
  /\ ~Pending(FenceOut)
  /\ IF Matched
     THEN at' = then /\ next' = IF then = "stage" THEN 0 ELSE next
     ELSE at' = (IF late THEN "failed" ELSE "fence_copy") /\ UNCHANGED next
  /\ UNCHANGED <<deviceVars, host, seq, then, late, callVars>>

\* The copy has not landed within the timeout.
Late(place, b) ==
  /\ at = place
  /\ Pending(b)
  /\ late
  /\ at' = "failed"
  /\ UNCHANGED <<deviceVars, host, seq, next, then, late, callVars>>

-----------------------------------------------------------------------------
(* Construction: every input goes through the ring of slots.               *)

\* Mutant: the ring is not advanced.
FirstSlot == 0

\* The slot a piece goes to, when one is free.
FreeSlot == next

\* Staging::upload of one piece.
Stage ==
  /\ at = "stage"
  /\ piece <= Pieces
  /\ next < Slots
  /\ host' = [host EXCEPT ![Slot(FreeSlot)] = All(Content[piece])]
  /\ h2d' = Enqueue(h2d, Slot(FreeSlot), Piece(piece))
  /\ next' = next + 1
  /\ piece' = piece + 1
  /\ UNCHANGED <<dev, d2h, queue, seq, at, then, kind, late, input, answer>>

\* The ring is used up, or everything is staged: wait for all of it.
StageWait ==
  /\ at = "stage"
  /\ \/ piece <= Pieces /\ next = Slots /\ then' = "stage"
     \/ piece > Pieces /\ then' = "built"
  /\ at' = "fence"
  /\ UNCHANGED <<deviceVars, host, seq, next, late, callVars>>

\* The slots are released.
Built ==
  /\ at = "built"
  /\ at' = "idle"
  /\ UNCHANGED <<deviceVars, host, seq, next, then, late, callVars>>

-----------------------------------------------------------------------------
(* A call: upload, fence, launch, read back.                               *)

Upload(v, k) ==
  /\ at = "idle"
  /\ host' = [host EXCEPT ![Up] = All(v)]
  /\ h2d' = Enqueue(h2d, Up, In)
  /\ input' = v
  /\ answer' = NoAnswer
  /\ kind' = k
  /\ then' = "fill"
  /\ at' = "fence"
  /\ UNCHANGED <<dev, d2h, queue, seq, next, piece, late>>

\* A run of the device loop whose seed is already on the device.
Resident ==
  /\ at = "idle"
  /\ answer # NoAnswer
  /\ answer' = NoAnswer
  /\ kind' = "loop"
  /\ at' = "fill"
  /\ UNCHANGED <<deviceVars, host, seq, next, then, piece, late, input>>

\* The launches of a call: one that writes the whole output, or the loop's,
\* each of which writes its row.
Launch(rows) == [out |-> rows, value |-> 0, started |-> FALSE]
Launches ==
  IF kind = "launch" THEN <<Launch(Word)>> ELSE [w \in Word |-> Launch({w})]

\* Mutant: the output keeps what the last call left in it.
NoFill == dev

\* The output is pre-filled with the device sentinel.
Filled == [dev EXCEPT ![Out] = All(Sentinel)]

Fill ==
  /\ at = "fill"
  /\ queue = <<>>
  /\ dev' = Filled
  /\ queue' = Launches
  /\ late' = FALSE
  /\ at' = "copy"
  /\ UNCHANGED <<host, h2d, d2h, seq, next, then, callVars>>

\* The host buffer is filled with the host sentinel before a copy.
Refilled(b) == [host EXCEPT ![b] = All(HostSentinel)]

\* read_once
ReadCopy ==
  /\ at = "copy"
  /\ host' = Refilled(HOut)
  /\ d2h' = Enqueue(d2h, Out, HOut)
  /\ at' = "spin"
  /\ UNCHANGED <<dev, h2d, queue, seq, next, then, late, callVars>>

Incomplete == \E w \in Word : host[HOut][w] = Sentinel

\* Mutant: an output with a sentinel in it is copied again for ever.
ReadForever ==
  /\ at = "spin"
  /\ ~Pending(HOut)
  /\ at' = IF ~Incomplete THEN "logits" ELSE "copy"
  /\ UNCHANGED <<deviceVars, host, seq, next, then, late, callVars>>

\* The copy has landed: it is the output, or is repeated.
ReadSpin ==
  /\ at = "spin"
  /\ ~Pending(HOut)
  /\ at' = IF ~Incomplete THEN "logits" ELSE IF late THEN "failed" ELSE "copy"
  /\ UNCHANGED <<deviceVars, host, seq, next, then, late, callVars>>

\* read_bf16_range, for callers that want the logits of the launch too: the
\* recipe is known complete, one copy is enough.
LogitsCopy ==
  /\ at = "logits"
  /\ host' = Refilled(HAux)
  /\ d2h' = Enqueue(d2h, Logits, HAux)
  /\ late' = FALSE
  /\ at' = "logits_spin"
  /\ UNCHANGED <<dev, h2d, queue, seq, next, then, callVars>>

Return ==
  /\ at = "logits_spin"
  /\ ~Pending(HAux)
  /\ answer' = {<<host[HOut], host[HAux]>>}
  /\ at' = "idle"
  /\ UNCHANGED <<deviceVars, host, seq, next, then, piece, kind, late, input>>

\* A caller that goes on after an error.
Retry ==
  /\ at = "failed"
  /\ then = "fill"
  /\ Retries = "settled" => h2d = <<>> /\ d2h = <<>>
  /\ answer' = NoAnswer
  /\ at' = "idle"
  /\ UNCHANGED <<deviceVars, host, seq, next, then, piece, kind, late, input>>

\* One that gives up, as those of this repository do.
GiveUp == at = "failed" /\ UNCHANGED vars

Device ==
  \/ \E w \in Word : LandUp(w) \/ LandDown(w) \/ Write(w)
  \/ Compute

Host ==
  \/ Fence \/ FenceCopy \/ FenceSpin
  \/ Stage \/ StageWait \/ Built
  \/ Fill \/ ReadCopy \/ ReadSpin \/ LogitsCopy \/ Return
  \/ Late("fence_spin", FenceOut)
  \/ Late("spin", HOut)
  \/ Late("logits_spin", HAux)

Caller ==
  \/ \E v \in Input, k \in {"launch", "loop"} : Upload(v, k)
  \/ Resident
  \/ Retry

Next == Device \/ Host \/ Caller \/ Tick \/ GiveUp

\* The device goes on, the host goes on, time passes; nobody has to call.
Fairness == WF_vars(Device) /\ WF_vars(Host) /\ WF_vars(Tick)

Spec == Init /\ [][Next]_vars /\ Fairness

-----------------------------------------------------------------------------
(* Properties.                                                             *)

\* The fence's copy is on its way.
FencePending == \E i \in 1 .. Len(h2d) : h2d[i].dst = FenceBuf

\* A fence's copy is the last one enqueued while the host waits for it, and a
\* word of the fence buffer shows the current pattern only once it has landed.
FenceOrder ==
  /\ \A i \in 1 .. Len(h2d) :
       /\ h2d[i].left # {}
       /\ h2d[i].dst = FenceBuf =>
            /\ h2d[i].src = FenceIn
            /\ i = Len(h2d)
            /\ at \in {"fence_copy", "fence_spin", "failed"}
            /\ host[FenceIn] = All(Pattern[seq])
            /\ \A w \in Word : (w \in h2d[i].left) # (dev[FenceBuf][w] = Pattern[seq])
  /\ ~FencePending =>
       \/ dev[FenceBuf] = All(Pattern[seq])
       \/ seq = 0 /\ \A w \in Word : dev[FenceBuf][w] \in Leftover
  /\ at \in {"fence_copy", "fence_spin"} /\ h2d # <<>> => FencePending

\* What the host has read of the fence buffer is still there.
FenceRead ==
  /\ \A i \in 1 .. Len(d2h) :
       /\ d2h[i].dst \in {FenceOut, HOut, HAux}
       /\ d2h[i].dst = FenceOut => d2h[i].src = FenceBuf
  /\ at = "fence_spin" =>
       \A w \in Word :
         host[FenceOut][w] # HostSentinel /\ host[FenceOut][w] = Pattern[seq] =>
           dev[FenceBuf][w] = Pattern[seq]

\* A fence that has returned was right: no upload enqueued before it is
\* still on its way when the host goes on to reuse or release a slot, or to
\* launch ("once the fence is visible all of them are").
Fenced ==
  at \in {"built", "idle", "fill", "copy", "spin", "logits", "logits_spin"}
    \/ (at = "stage" /\ next = 0)
  => h2d = <<>>

\* Where the host is, in the life of the runtime: everything has been staged
\* once it goes on to calls, and a call has uploaded its input.
Stages ==
  /\ at = "stage" \/ then = "stage" \/ piece = Pieces + 1
  /\ at \in {"built", "idle", "fill", "copy", "spin", "logits", "logits_spin"} => then # "stage"
  /\ at = "stage" => then # "fill"
  /\ at \in {"fill", "copy", "spin", "logits", "logits_spin"} => then = "fill"
  /\ answer # NoAnswer => at = "idle" /\ then = "fill"

\* An upload reads a buffer that still holds what it is to bring: the slot of
\* a piece, the caller's input, or the fence's pattern.
Uploads ==
  \A k \in 1 .. Len(h2d) :
    \/ \E j \in 0 .. next - 1, i \in 1 .. piece - 1 :
         /\ h2d[k].src = Slot(j) /\ h2d[k].dst = Piece(i)
         /\ host[Slot(j)] = All(Content[i])
    \/ h2d[k].src = Up /\ h2d[k].dst = In /\ host[Up] = All(input)
    \/ h2d[k].src = FenceIn /\ h2d[k].dst = FenceBuf

\* Every word of tensor t is v, or on its way.
Arrives(t, v) ==
  \A w \in Word :
    dev[t][w] = v \/ \E k \in 1 .. Len(h2d) : h2d[k].dst = t /\ w \in h2d[k].left

Inputs ==
  /\ \A i \in 1 .. piece - 1 : Arrives(Piece(i), Content[i])
  /\ then = "fill" => input \in Input /\ Arrives(In, input)

\* There is one copy to the host at a time, of what the host waits for, and a
\* word of it that has not landed shows the host sentinel.
Downloads ==
  /\ Len(d2h) <= 1
  /\ d2h # <<>> => at \in {"fence_spin", "spin", "logits_spin", "failed"}
  /\ \A k \in 1 .. Len(d2h) :
       /\ d2h[k].left # {}
       /\ \A w \in d2h[k].left : host[d2h[k].dst][w] = HostSentinel
       /\ at = "fence_spin" => d2h[k].dst = FenceOut
       /\ at = "spin" => d2h[k].src = Out /\ d2h[k].dst = HOut
       /\ at = "logits_spin" => d2h[k].src = Logits /\ d2h[k].dst = HAux

\* A word of the output is the device sentinel until it is the result, and by
\* then the logits are the result too.
Written ==
  at \in {"copy", "spin", "logits", "logits_spin"} =>
    /\ \A k \in 1 .. Len(queue) : queue[k].started =>
         queue[k].value = Result[input] /\ dev[Logits] = All(Result[input])
    /\ \A w \in Word : dev[Out][w] # Sentinel =>
         dev[Out][w] = Result[input] /\ dev[Logits] = All(Result[input])

\* What the host has read that is no sentinel is the result.
ReadBack ==
  /\ at = "spin" =>
       \A w \in Word : host[HOut][w] \notin {HostSentinel, Sentinel} =>
         host[HOut][w] = Result[input] /\ dev[Logits] = All(Result[input])
  /\ at \in {"logits", "logits_spin"} =>
       host[HOut] = All(Result[input]) /\ dev[Logits] = All(Result[input])
  /\ at = "logits_spin" =>
       \A w \in Word : host[HAux][w] # HostSentinel => host[HAux][w] = Result[input]

\* An answer is what the recipe computes from what was uploaded last, every
\* word of it: never a mix with an earlier answer, an input that had not
\* arrived, or a sentinel.
Exact ==
  \A a \in answer : a = <<All(Result[input]), All(Result[input])>>

\* The inductive invariant behind Fenced.
FenceInv == TypeOK /\ FenceOrder /\ FenceRead /\ Fenced

\* And the one behind Exact: what the host believes of the device, from the
\* pieces staged to the answer returned.
IInv ==
  /\ FenceInv
  /\ Stages /\ Uploads /\ Inputs /\ Downloads /\ Written /\ ReadBack /\ Exact

\* No pinned buffer is overwritten by the host while a copy still reads it.
SlotsKept ==
  [][\A i \in 1 .. Len(h2d) : host'[h2d[i].src] = host[h2d[i].src]]_vars

\* No buffer a copy still lands in is filled again: a word of an old copy
\* cannot pass for one of a new copy.
OneCopyAtATime ==
  [][Len(d2h') > Len(d2h) => \A i \in 1 .. Len(d2h) : d2h[i].dst # d2h'[Len(d2h')].dst]_vars

\* Every call ends, with an answer or with an error, also when a result or a
\* fence pattern equals a sentinel.
EveryCallEnds == (at # "idle") ~> (at \in {"idle", "failed"})
=============================================================================
