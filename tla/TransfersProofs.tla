-------------------------- MODULE TransfersProofs ---------------------------
(***************************************************************************)
(* A fence that has returned was right and an answer read back is the one  *)
(* that was computed, for every ring, counter width, sentinel and result,  *)
(* under two conditions: that the memory the fence buffer was allocated    *)
(* from does not hold its first pattern, and that nobody goes on with a    *)
(* runtime whose copies may still be landing.                              *)
(***************************************************************************)
EXTENDS Transfers, TLAPS, SequenceTheorems

\* The conditions.
Conditions == Pattern[1 % SeqWrap] \notin Leftover /\ Retries = "settled"

\* The buffers of the fence are no others.
LEMMA Names ==
  /\ FenceBuf \in Tensor /\ {In, Out, Logits} \subseteq Tensor
  /\ FenceBuf \notin {In, Out, Logits}
  /\ \A i \in 1 .. Pieces : Piece(i) \in Tensor /\ Piece(i) # FenceBuf
  /\ {Up, FenceIn, FenceOut, HOut, HAux} \subseteq Pinned
  /\ FenceIn \notin {Up, FenceOut, HOut, HAux}
  /\ FenceOut \notin {Up, HOut, HAux}
  /\ \A i \in 0 .. Slots - 1 : Slot(i) \in Pinned /\ Slot(i) \notin {FenceIn, FenceOut}
BY DEF Tensor, Pinned, FenceBuf, In, Out, Logits, Piece, Up, FenceIn, FenceOut, HOut, HAux, Slot

\* r is q with a copy from s to d appended.
Extended(q, r, s, d) ==
  /\ Len(r) = Len(q) + 1
  /\ r[Len(q) + 1] = [src |-> s, dst |-> d, left |-> Word]
  /\ \A i \in 1 .. Len(q) : r[i] = q[i]

\* r is q after word w of its first copy has landed: one copy fewer, or the
\* same copies with that word gone from the first.
Popped(q, r, w) ==
  \/ /\ q[1].left = {w}
     /\ Len(r) = Len(q) - 1
     /\ \A i \in 1 .. Len(q) - 1 : r[i] = q[i + 1]
  \/ /\ q[1].left # {w}
     /\ Len(r) = Len(q)
     /\ r[1].src = q[1].src
     /\ r[1].dst = q[1].dst
     /\ r[1].left = q[1].left \ {w}
     /\ \A i \in 2 .. Len(q) : r[i] = q[i]

\* What is appended to a queue of copies.
LEMMA EnqueueIs ==
  ASSUME NEW S, NEW D, NEW q \in Seq(Copy(S, D)), NEW s \in S, NEW d \in D
  PROVE  /\ Enqueue(q, s, d) \in Seq(Copy(S, D))
         /\ Extended(q, Enqueue(q, s, d), s, d)
<1>1. [src |-> s, dst |-> d, left |-> Word] \in Copy(S, D)
  BY DEF Copy
<1> QED BY <1>1, AppendProperties DEF Enqueue, Extended

\* What is left of a queue of copies when a word has landed.
LEMMA LandedIs ==
  ASSUME NEW S, NEW D, NEW q \in Seq(Copy(S, D)), q # <<>>, NEW w \in Head(q).left
  PROVE  /\ Landed(q, w) \in Seq(Copy(S, D))
         /\ Popped(q, Landed(q, w), w)
<1>0. Head(q) = q[1]
  OBVIOUS
<1>1. CASE Head(q).left = {w}
  BY <1>0, <1>1, HeadTailProperties DEF Landed, Popped
<1>2. CASE Head(q).left # {w}
  <2> DEFINE e == [q[1] EXCEPT !.left = @ \ {w}]
  <2>1. q[1] \in Copy(S, D) /\ 1 \in 1 .. Len(q)
    OBVIOUS
  <2>2. e.src = q[1].src /\ e.dst = q[1].dst /\ e.left = q[1].left \ {w} /\ e \in Copy(S, D)
    BY <2>1 DEF Copy
  <2>3. Landed(q, w) = [q EXCEPT ![1] = e]
    BY <1>2 DEF Landed
  <2> HIDE DEF e
  <2>4. /\ Landed(q, w) \in Seq(Copy(S, D))
        /\ Len(Landed(q, w)) = Len(q)
        /\ \A j \in 1 .. Len(q) : Landed(q, w)[j] = IF j = 1 THEN e ELSE q[j]
    BY <2>1, <2>2, <2>3, ExceptSeq
  <2>5. Landed(q, w)[1] = e /\ \A i \in 2 .. Len(q) : Landed(q, w)[i] = q[i]
    BY <2>1, <2>4
  <2> QED BY <1>0, <1>2, <2>2, <2>4, <2>5 DEF Popped
<1> QED BY <1>1, <1>2
-----------------------------------------------------------------------------
(* Types.                                                                  *)

\* A pattern is an integer, and the counter stays below its wrap.
LEMMA SeqNext ==
  ASSUME seq \in 0 .. SeqWrap - 1
  PROVE  /\ (seq + 1) % SeqWrap \in 0 .. SeqWrap - 1
         /\ All(Pattern[(seq + 1) % SeqWrap]) \in Buffer
         /\ All(Pattern[seq]) \in Buffer
<1>1. (seq + 1) % SeqWrap \in 0 .. SeqWrap - 1
  BY SeqAssumption
<1>2. \A s \in 0 .. SeqWrap - 1 : Pattern[s] \in Int
  BY PatternAssumption
<1> QED BY <1>1, <1>2 DEF All, Buffer

\* What a recipe computes is a word.
LEMMA ComputedIs == Computed \in Int
<1>1. \A v \in Input : Result[v] \in Int
  BY DataAssumption
<1>2. CASE \E v \in Input : dev[In] = All(v)
  <2>1. (CHOOSE v \in Input : dev[In] = All(v)) \in Input
    BY <1>2
  <2> QED BY <1>1, <2>1 DEF Computed, Wrong
<1>3. CASE ~\E v \in Input : dev[In] = All(v)
  BY <1>3 DEF Computed, Wrong
<1> QED BY <1>2, <1>3

\* Filling a buffer, and writing one word of it.
LEMMA Store ==
  ASSUME NEW B, NEW m \in [B -> Buffer], NEW b \in B
  PROVE  /\ \A x \in Buffer : [m EXCEPT ![b] = x] \in [B -> Buffer]
         /\ \A w \in Word, x \in Int : [m EXCEPT ![b][w] = x] \in [B -> Buffer]
BY DEF Buffer

LEMMA TypeInit == Init => TypeOK
<1> SUFFICES ASSUME Init PROVE TypeOK
  OBVIOUS
<1>1. \A x \in Int : All(x) \in Buffer
  BY DEF All, Buffer
<1>2. dev \in [Tensor -> Buffer]
  BY <1>1, DataAssumption DEF Init
<1>3. host \in [Pinned -> Buffer]
  BY <1>1 DEF Init
<1>4. h2d \in Seq(Copy(Pinned, Tensor)) /\ d2h \in Seq(Copy(Tensor, Pinned)) /\ queue \in Seq(Task)
  BY DEF Init
<1>5. seq \in 0 .. SeqWrap - 1
  BY SeqAssumption DEF Init
<1>7. next \in 0 .. Slots /\ piece \in 1 .. Pieces + 1
  BY SizeAssumption DEF Init
<1>8. /\ at \in Places /\ then \in {"stage", "built", "fill"} /\ kind \in {"launch", "loop"} /\ input \in Int
  BY DEF Init, Places
<1>9. late \in BOOLEAN
  BY Zenon DEF Init
<1>6. answer \subseteq Buffer \X Buffer
  BY DEF Init, NoAnswer
<1> QED BY <1>2, <1>3, <1>4, <1>5, <1>6, <1>7, <1>8, <1>9 DEF TypeOK

LEMMA TypeStep == TypeOK /\ [Next]_vars => TypeOK'
<1> SUFFICES ASSUME TypeOK, [Next]_vars PROVE TypeOK'
  OBVIOUS
<1> USE DEF TypeOK
<1>0. \A x \in Int : All(x) \in Buffer
  BY DEF All, Buffer
<1>1. ASSUME NEW w \in Word, LandUp(w) PROVE TypeOK'
  <2>1. Head(h2d) \in Copy(Pinned, Tensor)
    BY <1>1 DEF LandUp
  <2>2. Head(h2d).dst \in Tensor /\ host[Head(h2d).src][w] \in Int
    BY <2>1 DEF Copy, Buffer
  <2>3. dev' \in [Tensor -> Buffer]
    <3> DEFINE d == Head(h2d).dst
    <3> DEFINE x == host[Head(h2d).src][w]
    <3>1. d \in Tensor /\ x \in Int
      BY <2>2
    <3>2. dev' = [dev EXCEPT ![d][w] = x]
      BY <1>1 DEF LandUp
    <3> HIDE DEF d, x
    <3> QED BY <3>1, <3>2, Store
  <2>4. h2d' \in Seq(Copy(Pinned, Tensor))
    BY <1>1, LandedIs DEF LandUp
  <2> QED BY <1>1, <2>3, <2>4 DEF LandUp, callVars
<1>2. ASSUME NEW w \in Word, LandDown(w) PROVE TypeOK'
  <2>1. Head(d2h) \in Copy(Tensor, Pinned)
    BY <1>2 DEF LandDown
  <2>2. Head(d2h).dst \in Pinned /\ dev[Head(d2h).src][w] \in Int
    BY <2>1 DEF Copy, Buffer
  <2>3. host' \in [Pinned -> Buffer]
    <3> DEFINE d == Head(d2h).dst
    <3> DEFINE x == dev[Head(d2h).src][w]
    <3>1. d \in Pinned /\ x \in Int
      BY <2>2
    <3>2. host' = [host EXCEPT ![d][w] = x]
      BY <1>2 DEF LandDown
    <3> HIDE DEF d, x
    <3> QED BY <3>1, <3>2, Store
  <2>4. d2h' \in Seq(Copy(Tensor, Pinned))
    BY <1>2, LandedIs DEF LandDown
  <2> QED BY <1>2, <2>3, <2>4 DEF LandDown, callVars
<1>3. CASE Compute
  <2>1. dev' \in [Tensor -> Buffer]
    BY <1>3, <1>0, ComputedIs, Store, Names DEF Compute
  <2> DEFINE t == [queue[1] EXCEPT !.value = Computed, !.started = TRUE]
  <2>2. Head(queue) \in Task /\ queue[1] \in Task /\ 1 \in 1 .. Len(queue)
    BY <1>3 DEF Compute
  <2>3. t \in Task
    BY <2>2, ComputedIs DEF Task
  <2>4. queue' = [queue EXCEPT ![1] = t]
    BY <1>3 DEF Compute
  <2>5. queue' \in Seq(Task)
    BY <2>2, <2>3, <2>4, ExceptSeq
  <2> QED BY <1>3, <2>1, <2>5 DEF Compute, callVars
<1>4. ASSUME NEW w \in Word, Write(w) PROVE TypeOK'
  <2>1. Head(queue) \in Task /\ queue[1] \in Task /\ 1 \in 1 .. Len(queue)
    BY <1>4 DEF Write
  <2>2. dev' \in [Tensor -> Buffer]
    <3>1. Head(queue).value \in Int
      BY <2>1 DEF Task
    <3> QED BY <1>4, <3>1, Store, Names DEF Write
  <2> DEFINE t == [queue[1] EXCEPT !.out = @ \ {w}]
  <2>3. t \in Task
    BY <2>1 DEF Task
  <2>4. queue' = Tail(queue) \/ queue' = [queue EXCEPT ![1] = t]
    BY <1>4 DEF Write
  <2>5. queue' \in Seq(Task)
    <3>1. CASE queue' = Tail(queue)
      BY <3>1, <1>4, HeadTailProperties DEF Write
    <3>2. CASE queue' = [queue EXCEPT ![1] = t]
      <4> HIDE DEF t
      <4> QED BY <2>1, <2>3, <3>2, ExceptSeq
    <3> QED BY <2>4, <3>1, <3>2
  <2> QED BY <1>4, <2>2, <2>5 DEF Write, callVars
<1>5. CASE Tick
  BY <1>5 DEF Tick, deviceVars, callVars
<1>6. CASE Fence
  <2>1. host' \in [Pinned -> Buffer] /\ seq' \in 0 .. SeqWrap - 1
    BY <1>6, SeqNext, Store, Names DEF Fence
  <2>2. h2d' \in Seq(Copy(Pinned, Tensor))
    BY <1>6, EnqueueIs, Names DEF Fence
  <2> QED BY <1>6, <2>1, <2>2 DEF Fence, callVars, Places
<1>7. CASE FenceCopy
  <2>1. host' \in [Pinned -> Buffer]
    BY <1>7, <1>0, SentinelAssumption, Store, Names DEF FenceCopy
  <2>2. d2h' \in Seq(Copy(Tensor, Pinned))
    BY <1>7, EnqueueIs, Names DEF FenceCopy
  <2> QED BY <1>7, <2>1, <2>2 DEF FenceCopy, callVars, Places
<1>8. CASE FenceSpin
  BY <1>8, SizeAssumption DEF FenceSpin, deviceVars, callVars, Places
<1>9. ASSUME NEW p \in Places, NEW b \in Pinned, Late(p, b) PROVE TypeOK'
  BY <1>9 DEF Late, deviceVars, callVars, Places
<1>10. CASE Stage
  <2>1. Slot(next) \in Pinned /\ Piece(piece) \in Tensor /\ Content[piece] \in Int
    BY <1>10, Names, DataAssumption, SizeAssumption DEF Stage
  <2>2. host' \in [Pinned -> Buffer]
    BY <1>10, <1>0, <2>1, Store DEF Stage, FreeSlot
  <2>3. h2d' \in Seq(Copy(Pinned, Tensor))
    BY <1>10, <2>1, EnqueueIs DEF Stage, FreeSlot
  <2>4. next' \in 0 .. Slots /\ piece' \in 1 .. Pieces + 1
    BY <1>10, SizeAssumption DEF Stage
  <2> QED BY <1>10, <2>2, <2>3, <2>4 DEF Stage
<1>11. CASE StageWait
  BY <1>11 DEF StageWait, deviceVars, callVars, Places
<1>12. CASE Built
  BY <1>12 DEF Built, deviceVars, callVars, Places
<1>13. CASE Fill
  <2>1. dev' \in [Tensor -> Buffer]
    BY <1>13, <1>0, SentinelAssumption, Store, Names DEF Fill, Filled
  <2>2. \A rows \in SUBSET Word : Launch(rows) \in Task
    BY DEF Launch, Task
  <2>3. queue' \in Seq(Task)
    <3>1. <<Launch(Word)>> \in Seq(Task)
      BY <2>2
    <3>2. [w \in Word |-> Launch({w})] \in Seq(Task)
      <4> DEFINE f == [w \in Word |-> Launch({w})]
      <4>1. f \in [1 .. Words -> Task]
        BY <2>2 DEF Word
      <4>2. Words \in Nat
        BY SizeAssumption
      <4> HIDE DEF f
      <4>3. f \in UNION {[1 .. n -> Task] : n \in Nat}
        BY <4>1, <4>2
      <4>4. f \in Seq(Task)
        BY <4>3, SeqDef
      <4> QED BY <4>4 DEF f
    <3> QED BY <1>13, <3>1, <3>2 DEF Fill, Launches
  <2> QED BY <1>13, <2>1, <2>3 DEF Fill, callVars, Places
<1>14. CASE ReadCopy
  <2>1. host' \in [Pinned -> Buffer]
    BY <1>14, <1>0, SentinelAssumption, Store, Names DEF ReadCopy, Refilled
  <2>2. d2h' \in Seq(Copy(Tensor, Pinned))
    BY <1>14, EnqueueIs, Names DEF ReadCopy
  <2> QED BY <1>14, <2>1, <2>2 DEF ReadCopy, callVars, Places
<1>15. CASE ReadSpin
  BY <1>15 DEF ReadSpin, deviceVars, callVars, Places
<1>16. CASE LogitsCopy
  <2>1. host' \in [Pinned -> Buffer]
    BY <1>16, <1>0, SentinelAssumption, Store, Names DEF LogitsCopy, Refilled
  <2>2. d2h' \in Seq(Copy(Tensor, Pinned))
    BY <1>16, EnqueueIs, Names DEF LogitsCopy
  <2> QED BY <1>16, <2>1, <2>2 DEF LogitsCopy, callVars, Places
<1>17. CASE Return
  BY <1>17, Names DEF Return, deviceVars, Places
<1>18. ASSUME NEW v \in Input, NEW k \in {"launch", "loop"}, Upload(v, k) PROVE TypeOK'
  <2>1. v \in Int
    BY DataAssumption
  <2>2. host' \in [Pinned -> Buffer]
    BY <1>18, <1>0, <2>1, Store, Names DEF Upload
  <2>3. h2d' \in Seq(Copy(Pinned, Tensor))
    BY <1>18, EnqueueIs, Names DEF Upload
  <2> QED BY <1>18, <2>1, <2>2, <2>3 DEF Upload, Places, NoAnswer
<1>19. CASE Resident
  BY <1>19 DEF Resident, deviceVars, Places, NoAnswer
<1>20. CASE Retry
  BY <1>20 DEF Retry, deviceVars, Places, NoAnswer
<1>21. CASE GiveUp \/ UNCHANGED vars
  BY <1>21 DEF GiveUp, vars
<1> QED
  BY <1>1, <1>2, <1>3, <1>4, <1>5, <1>6, <1>7, <1>8, <1>9, <1>10, <1>11, <1>12,
     <1>13, <1>14, <1>15, <1>16, <1>17, <1>18, <1>19, <1>20, <1>21, Names
  DEF Next, Device, Host, Caller, Places

LEMMA Types == Spec => []TypeOK
<1> QED BY TypeInit, TypeStep, PTL DEF Spec

-----------------------------------------------------------------------------
(* The fence.                                                              *)

\* What FenceOrder says of a fence's copy, last in the queue.
FenceCopyAt(i) ==
  /\ h2d[i].src = FenceIn
  /\ i = Len(h2d)
  /\ at \in {"fence_copy", "fence_spin", "failed"}
  /\ host[FenceIn] = All(Pattern[seq])
  /\ \A w \in Word : (w \in h2d[i].left) # (dev[FenceBuf][w] = Pattern[seq])

\* FenceOrder in parts.
Copies == \A i \in 1 .. Len(h2d) :
            h2d[i].left # {} /\ (h2d[i].dst = FenceBuf => FenceCopyAt(i))
Shown ==
  ~FencePending =>
    \/ dev[FenceBuf] = All(Pattern[seq])
    \/ seq = 0 /\ \A w \in Word : dev[FenceBuf][w] \in Leftover
LastFence == at \in {"fence_copy", "fence_spin"} /\ h2d # <<>> => FencePending

LEMMA Parts == FenceOrder <=> Copies /\ Shown /\ LastFence
BY DEF FenceOrder, Copies, FenceCopyAt, Shown, LastFence

\* A step that leaves the fence, its buffers and the uploads alone.
LEMMA Quiet ==
  ASSUME Copies, Shown, LastFence,
         h2d' = h2d, seq' = seq,
         dev'[FenceBuf] = dev[FenceBuf], host'[FenceIn] = host[FenceIn],
         at' \in {"fence_copy", "fence_spin"} => at \in {"fence_copy", "fence_spin"} \/ h2d = <<>>,
         at \in {"fence_copy", "fence_spin", "failed"} /\ h2d # <<>> =>
           at' \in {"fence_copy", "fence_spin", "failed"}
  PROVE  FenceOrder'
<1>1. FencePending' <=> FencePending
  BY DEF FencePending
<1>2. Shown'
  BY <1>1 DEF Shown
<1>3. LastFence'
  BY <1>1 DEF LastFence
<1>4. Copies'
  <2> SUFFICES ASSUME NEW i \in 1 .. Len(h2d)
               PROVE  h2d[i].left # {} /\ (h2d[i].dst = FenceBuf => FenceCopyAt(i)')
    BY DEF Copies
  <2>1. h2d[i].left # {} /\ (h2d[i].dst = FenceBuf => FenceCopyAt(i))
    BY DEF Copies
  <2>2. FenceCopyAt(i) => h2d # <<>>
    BY DEF FenceCopyAt
  <2> QED BY <2>1, <2>2 DEF FenceCopyAt
<1> QED BY <1>2, <1>3, <1>4 DEF FenceOrder, Copies, FenceCopyAt, Shown, LastFence

\* FenceRead in parts.
Targets == \A i \in 1 .. Len(d2h) :
             /\ d2h[i].dst \in {FenceOut, HOut, HAux}
             /\ d2h[i].dst = FenceOut => d2h[i].src = FenceBuf
Read == at = "fence_spin" =>
          \A w \in Word :
            host[FenceOut][w] # HostSentinel /\ host[FenceOut][w] = Pattern[seq] =>
              dev[FenceBuf][w] = Pattern[seq]

\* A copy enqueued to the host: Targets holds of it too.
LEMMA TargetsEnqueue ==
  ASSUME TypeOK, Targets, NEW t \in Tensor, NEW b \in {FenceOut, HOut, HAux},
         d2h' = Enqueue(d2h, t, b), b = FenceOut => t = FenceBuf
  PROVE  Targets'
<1>1. /\ Len(d2h') = Len(d2h) + 1
      /\ d2h'[Len(d2h) + 1] = [src |-> t, dst |-> b, left |-> Word]
      /\ \A i \in 1 .. Len(d2h) : d2h'[i] = d2h[i]
  <2>1. Extended(d2h, d2h', t, b)
    BY EnqueueIs, Names DEF TypeOK
  <2> QED BY <2>1 DEF Extended
<1>2. Len(d2h) \in Nat
  BY DEF TypeOK
<1> SUFFICES ASSUME NEW i \in 1 .. Len(d2h')
             PROVE  /\ d2h'[i].dst \in {FenceOut, HOut, HAux}
                    /\ d2h'[i].dst = FenceOut => d2h'[i].src = FenceBuf
  BY DEF Targets
<1>3. CASE i = Len(d2h) + 1
  BY <1>1, <1>3
<1>4. CASE i \in 1 .. Len(d2h)
  BY <1>1, <1>4 DEF Targets
<1> QED BY <1>1, <1>2, <1>3, <1>4

\* A copy of something else than the fence enqueued to the device while no
\* fence is under way.
LEMMA OtherEnqueue ==
  ASSUME TypeOK, Copies, Shown, at \in {"stage", "idle"},
         NEW b \in Pinned, NEW t \in Tensor, t # FenceBuf,
         h2d' = Enqueue(h2d, b, t), seq' = seq, dev' = dev,
         at' \in {"stage", "fence"}
  PROVE  FenceOrder'
<1>1. /\ Len(h2d') = Len(h2d) + 1
      /\ h2d'[Len(h2d) + 1] = [src |-> b, dst |-> t, left |-> Word]
      /\ \A i \in 1 .. Len(h2d) : h2d'[i] = h2d[i]
  <2>1. Extended(h2d, h2d', b, t)
    BY EnqueueIs DEF TypeOK
  <2> QED BY <2>1 DEF Extended
<1>2. Len(h2d) \in Nat
  BY DEF TypeOK
<1>3. \A i \in 1 .. Len(h2d) : h2d[i].left # {} /\ h2d[i].dst # FenceBuf
  BY DEF Copies, FenceCopyAt
<1>4. Word # {}
  BY SizeAssumption DEF Word
<1>5. \A i \in 1 .. Len(h2d') : h2d'[i].left # {} /\ h2d'[i].dst # FenceBuf
  <2> TAKE i \in 1 .. Len(h2d')
  <2>1. CASE i = Len(h2d) + 1
    BY <1>1, <1>4, <2>1
  <2>2. CASE i \in 1 .. Len(h2d)
    BY <1>1, <1>3, <2>2
  <2> QED BY <1>1, <1>2, <2>1, <2>2
<1>6. ~FencePending /\ ~FencePending'
  BY <1>3, <1>5 DEF FencePending
<1> QED BY <1>5, <1>6 DEF FenceOrder, Shown

\* A word of the oldest upload lands.
LEMMA LandUpStep ==
  ASSUME TypeOK, TypeOK', FenceOrder, FenceRead, NEW w \in Word, LandUp(w)
  PROVE  FenceOrder' /\ FenceRead'
<1> DEFINE c == h2d[1]
<1>1. /\ h2d # <<>> /\ Len(h2d) \in Nat /\ Len(h2d) >= 1 /\ Head(h2d) = c /\ c \in Copy(Pinned, Tensor)
      /\ w \in c.left
  BY DEF LandUp, TypeOK
<1>2. c.src \in Pinned /\ c.dst \in Tensor
  BY <1>1 DEF Copy
<1>3. /\ host' = host /\ d2h' = d2h /\ seq' = seq /\ at' = at
      /\ dev' = [dev EXCEPT ![c.dst][w] = host[c.src][w]]
      /\ h2d' = Landed(h2d, w)
  BY <1>1 DEF LandUp
<1>4. \/ /\ c.left = {w}
         /\ Len(h2d') = Len(h2d) - 1
         /\ \A i \in 1 .. Len(h2d) - 1 : h2d'[i] = h2d[i + 1]
      \/ /\ c.left # {w}
         /\ Len(h2d') = Len(h2d)
         /\ h2d'[1].src = c.src /\ h2d'[1].dst = c.dst /\ h2d'[1].left = c.left \ {w}
         /\ \A i \in 2 .. Len(h2d) : h2d'[i] = h2d[i]
  <2>1. Popped(h2d, h2d', w)
    BY <1>1, <1>3, LandedIs DEF TypeOK
  <2> QED BY <2>1 DEF Popped
<1>5. Copies /\ Shown /\ LastFence /\ Read /\ Targets
  BY Parts DEF FenceRead, Read, Targets
<1>6. dev[FenceBuf] \in Buffer /\ dev'[FenceBuf] \in Buffer
  BY Names DEF TypeOK
<1>7. CASE c.dst = FenceBuf
  <2>1. FenceCopyAt(1) /\ Len(h2d) = 1
    <3>1. 1 \in 1 .. Len(h2d)
      BY <1>1
    <3>2. FenceCopyAt(1)
      BY <1>5, <1>7, <3>1 DEF Copies
    <3> QED BY <3>2 DEF FenceCopyAt
  <2>2. host[c.src][w] = Pattern[seq]
    BY <2>1 DEF FenceCopyAt, All
  <2>3. \A v \in Word : dev'[FenceBuf][v] = IF v = w THEN Pattern[seq] ELSE dev[FenceBuf][v]
    BY <1>3, <1>6, <1>7, <2>2, Names DEF TypeOK, Buffer
  <2>4. Read'
    BY <1>3, <1>5, <2>3 DEF Read
  <2>5. CASE c.left = {w}
    <3>1. \A v \in Word : dev'[FenceBuf][v] = Pattern[seq]
      BY <2>1, <2>3, <2>5 DEF FenceCopyAt
    <3>2. dev'[FenceBuf] = All(Pattern[seq])
      BY <3>1, <1>6 DEF Buffer, All
    <3>3. Len(h2d') = 0
      BY <1>4, <2>1, <2>5
    <3>4. h2d' = <<>>
      BY <3>3 DEF TypeOK
    <3> QED BY <1>3, <1>5, <2>4, <3>2, <3>3, <3>4 DEF FenceOrder, FenceRead, Read, Targets
  <2>6. CASE c.left # {w}
    <3>1. /\ Len(h2d') = 1 /\ h2d'[1].src = FenceIn /\ h2d'[1].dst = FenceBuf
          /\ h2d'[1].left = c.left \ {w}
      BY <1>4, <1>7, <2>1, <2>6 DEF FenceCopyAt
    <3>2. h2d'[1].left # {}
      BY <1>1, <2>6, <3>1
    <3>3. \A v \in Word : (v \in h2d'[1].left) # (dev'[FenceBuf][v] = Pattern[seq])
      BY <2>1, <2>3, <3>1 DEF FenceCopyAt
    <3>4. FenceCopyAt(1)'
      BY <1>3, <2>1, <3>1, <3>3 DEF FenceCopyAt
    <3>5. FencePending'
      BY <3>1 DEF FencePending
    <3>6. Copies'
      BY <3>1, <3>2, <3>4 DEF Copies
    <3> QED BY <1>3, <1>5, <2>4, <3>5, <3>6 DEF FenceOrder, Copies, FenceCopyAt, FenceRead, Read, Targets
  <2> QED BY <2>5, <2>6
<1>8. CASE c.dst # FenceBuf
  <2>1. dev'[FenceBuf] = dev[FenceBuf]
    BY <1>2, <1>3, <1>8, Names DEF TypeOK
  <2>2. Read'
    BY <1>3, <1>5, <2>1 DEF Read
  <2>3. \A i \in 1 .. Len(h2d') : h2d'[i].left # {} /\ (h2d'[i].dst = FenceBuf => FenceCopyAt(i)')
    <3> TAKE i \in 1 .. Len(h2d')
    <3>1. CASE c.left = {w}
      <4>1. i + 1 \in 1 .. Len(h2d) /\ h2d'[i] = h2d[i + 1]
        BY <1>1, <1>4, <3>1
      <4>2. h2d[i + 1].left # {} /\ (h2d[i + 1].dst = FenceBuf => FenceCopyAt(i + 1))
        BY <1>5, <4>1 DEF Copies
      <4>3. FenceCopyAt(i + 1) => FenceCopyAt(i)'
        BY <1>1, <1>3, <1>4, <2>1, <3>1, <4>1 DEF FenceCopyAt
      <4> QED BY <4>1, <4>2, <4>3
    <3>2. CASE c.left # {w}
      <4>1. CASE i = 1
        BY <1>1, <1>4, <1>8, <3>2, <4>1
      <4>2. CASE i \in 2 .. Len(h2d)
        <5>1. h2d'[i] = h2d[i]
          BY <1>4, <3>2, <4>2
        <5>2. h2d[i].left # {} /\ (h2d[i].dst = FenceBuf => FenceCopyAt(i))
          BY <1>5, <4>2 DEF Copies
        <5> QED BY <1>3, <1>4, <2>1, <3>2, <5>1, <5>2 DEF FenceCopyAt
      <4> QED BY <1>1, <1>4, <3>2, <4>1, <4>2
    <3> QED BY <3>1, <3>2
  <2>4. FencePending => FencePending'
    <3> SUFFICES ASSUME NEW i \in 1 .. Len(h2d), h2d[i].dst = FenceBuf PROVE FencePending'
      BY DEF FencePending
    <3>1. i # 1
      BY <1>8
    <3>2. CASE c.left = {w}
      <4>1. i - 1 \in 1 .. Len(h2d')
        BY <1>1, <1>4, <3>1, <3>2
      <4>2. h2d'[i - 1] = h2d[(i - 1) + 1]
        BY <1>1, <1>4, <3>1, <3>2
      <4>3. h2d'[i - 1].dst = FenceBuf
        BY <4>2
      <4> QED BY <4>1, <4>3 DEF FencePending
    <3>3. CASE c.left # {w}
      BY <1>1, <1>4, <3>1, <3>3 DEF FencePending
    <3> QED BY <3>2, <3>3
  <2>5. Shown'
    BY <1>3, <1>5, <2>1, <2>4 DEF Shown
  <2>6. LastFence'
    BY <1>1, <1>3, <1>5, <2>4 DEF LastFence
  <2> QED BY <1>3, <1>5, <2>2, <2>3, <2>5, <2>6 DEF FenceOrder, FenceCopyAt, Shown, LastFence, FenceRead, Read, Targets
<1> QED BY <1>7, <1>8

\* A word of the oldest copy to the host lands.
LEMMA LandDownStep ==
  ASSUME TypeOK, TypeOK', FenceOrder, FenceRead, NEW w \in Word, LandDown(w)
  PROVE  FenceOrder' /\ FenceRead'
<1> DEFINE c == d2h[1]
<1>1. /\ d2h # <<>> /\ 1 \in 1 .. Len(d2h) /\ Head(d2h) = c /\ c \in Copy(Tensor, Pinned)
      /\ Len(d2h) \in Nat
  BY DEF LandDown, TypeOK
<1>2. c.dst \in Pinned /\ c.src \in Tensor
  BY <1>1 DEF Copy
<1>3. /\ dev' = dev /\ h2d' = h2d /\ seq' = seq /\ at' = at
      /\ host' = [host EXCEPT ![c.dst][w] = dev[c.src][w]]
      /\ d2h' = Landed(d2h, w)
  BY <1>1 DEF LandDown
<1>4. Copies /\ Shown /\ LastFence /\ Read /\ Targets
  BY Parts DEF FenceRead, Read, Targets
<1>5. c.dst \in {FenceOut, HOut, HAux} /\ (c.dst = FenceOut => c.src = FenceBuf)
  BY <1>1, <1>4 DEF Targets
<1>6. host'[FenceIn] = host[FenceIn]
  BY <1>2, <1>3, <1>5, Names DEF TypeOK
<1>7. FenceOrder'
  BY <1>3, <1>4, <1>6, Quiet
<1>8. Read'
  <2>1. CASE c.dst = FenceOut
    <3>1. \A v \in Word : host'[FenceOut][v] = IF v = w THEN dev[FenceBuf][v] ELSE host[FenceOut][v]
      BY <1>3, <1>5, <2>1, Names DEF TypeOK, Buffer
    <3> QED BY <1>3, <1>4, <3>1 DEF Read
  <2>2. CASE c.dst # FenceOut
    <3>1. host'[FenceOut] = host[FenceOut]
      BY <1>2, <1>3, <2>2, Names DEF TypeOK
    <3> QED BY <1>3, <1>4, <3>1 DEF Read
  <2> QED BY <2>1, <2>2
<1>9. Targets'
  <2>1. w \in Head(d2h).left
    BY DEF LandDown
  <2>2. Popped(d2h, d2h', w)
    BY <1>1, <1>3, <2>1, LandedIs DEF TypeOK
  <2> SUFFICES ASSUME NEW i \in 1 .. Len(d2h')
               PROVE  /\ d2h'[i].dst \in {FenceOut, HOut, HAux}
                      /\ d2h'[i].dst = FenceOut => d2h'[i].src = FenceBuf
    BY DEF Targets
  <2>3. \E j \in 1 .. Len(d2h) : d2h'[i].dst = d2h[j].dst /\ d2h'[i].src = d2h[j].src
    <3>1. CASE d2h[1].left = {w}
      <4>1. i + 1 \in 1 .. Len(d2h) /\ d2h'[i] = d2h[i + 1]
        BY <1>1, <2>2, <3>1 DEF Popped
      <4> QED BY <4>1
    <3>2. CASE d2h[1].left # {w}
      <4>1. i \in 1 .. Len(d2h) /\ (i = 1 \/ i \in 2 .. Len(d2h))
        BY <1>1, <2>2, <3>2 DEF Popped
      <4> QED BY <2>2, <3>2, <4>1 DEF Popped
    <3> QED BY <3>1, <3>2
  <2> QED BY <1>4, <2>3 DEF Targets
<1> QED BY <1>3, <1>7, <1>8, <1>9 DEF FenceRead, Read, Targets

\* The pattern goes out: no earlier one is on its way, and the fence buffer
\* does not show the new one anywhere.
LEMMA FenceStep ==
  ASSUME TypeOK, TypeOK', FenceOrder, FenceRead, Conditions, Fence
  PROVE  FenceOrder' /\ FenceRead'
<1>1. Copies /\ Shown /\ Targets
  BY Parts DEF FenceRead, Targets
<1>2. /\ at = "fence" /\ at' = "fence_copy" /\ seq' = (seq + 1) % SeqWrap
      /\ dev' = dev /\ d2h' = d2h
      /\ h2d' = Enqueue(h2d, FenceIn, FenceBuf)
  BY DEF Fence
<1>3. host'[FenceIn] = All(Pattern[seq'])
  BY Names DEF Fence, TypeOK
<1>4. /\ Len(h2d) \in Nat /\ Len(h2d') = Len(h2d) + 1
      /\ h2d'[Len(h2d) + 1] = [src |-> FenceIn, dst |-> FenceBuf, left |-> Word]
      /\ \A i \in 1 .. Len(h2d) : h2d'[i] = h2d[i]
  <2>1. Extended(h2d, h2d', FenceIn, FenceBuf)
    BY <1>2, EnqueueIs, Names DEF TypeOK
  <2> QED BY <2>1 DEF Extended, TypeOK
<1>5. \A i \in 1 .. Len(h2d) : h2d[i].left # {} /\ h2d[i].dst # FenceBuf
  BY <1>1, <1>2 DEF Copies, FenceCopyAt
<1>6. ~FencePending
  BY <1>5 DEF FencePending
<1>7. \A w \in Word : dev[FenceBuf][w] # Pattern[seq']
  <2> TAKE w \in Word
  <2>1. CASE dev[FenceBuf] = All(Pattern[seq])
    <3>1. dev[FenceBuf][w] = Pattern[seq]
      BY <2>1 DEF All
    <3>2. Pattern[seq] # Pattern[(seq + 1) % SeqWrap]
      BY PatternAssumption DEF TypeOK
    <3> QED BY <1>2, <3>1, <3>2
  <2>2. CASE seq = 0 /\ \A v \in Word : dev[FenceBuf][v] \in Leftover
    <3>1. seq' = 1 % SeqWrap
      BY <1>2, <2>2
    <3> QED BY <2>2, <3>1 DEF Conditions
  <2> QED BY <1>1, <1>6, <2>1, <2>2 DEF Shown
<1>8. Word # {}
  BY SizeAssumption DEF Word
<1>9. /\ h2d'[Len(h2d) + 1].src = FenceIn
      /\ h2d'[Len(h2d) + 1].dst = FenceBuf
      /\ h2d'[Len(h2d) + 1].left = Word
  BY <1>4
<1>10. \A w \in Word : (w \in h2d'[Len(h2d) + 1].left) # (dev'[FenceBuf][w] = Pattern[seq'])
  BY <1>2, <1>7, <1>9
<1>11. \A i \in 1 .. Len(h2d') :
         h2d'[i].left # {} /\ (h2d'[i].dst = FenceBuf => i = Len(h2d) + 1)
  <2> TAKE i \in 1 .. Len(h2d')
  <2>1. CASE i = Len(h2d) + 1
    BY <1>8, <1>9, <2>1
  <2>2. CASE i \in 1 .. Len(h2d)
    BY <1>4, <1>5, <2>2
  <2> QED BY <1>4, <2>1, <2>2
<1>12. Copies'
  <2> SUFFICES ASSUME NEW i \in 1 .. Len(h2d')
               PROVE  h2d'[i].left # {} /\ (h2d'[i].dst = FenceBuf => FenceCopyAt(i)')
    BY DEF Copies
  <2>1. ASSUME i = Len(h2d) + 1 PROVE FenceCopyAt(i)'
    BY <1>2, <1>3, <1>4, <1>9, <1>10, <2>1 DEF FenceCopyAt
  <2> QED BY <1>11, <2>1
<1>13. FencePending'
  <2>1. Len(h2d) + 1 \in 1 .. Len(h2d')
    BY <1>4
  <2> QED BY <1>9, <2>1 DEF FencePending
<1> QED BY <1>1, <1>2, <1>12, <1>13 DEF FenceOrder, Copies, FenceCopyAt, FenceRead, Targets

\* When the host finds the pattern in every word, nothing is on its way: had
\* the fence's copy a word left, the fence buffer would not show it there.
LEMMA MatchedIsDone ==
  ASSUME TypeOK, FenceOrder, FenceRead, at = "fence_spin", ~Pending(FenceOut), Matched
  PROVE  h2d = <<>>
<1> SUFFICES ASSUME h2d # <<>> PROVE FALSE
  OBVIOUS
<1>1. Copies /\ LastFence /\ Read
  BY Parts DEF FenceRead, Read
<1>2. \A w \in Word : dev[FenceBuf][w] = Pattern[seq]
  <2> TAKE w \in Word
  <2>1. host[FenceOut][w] # HostSentinel
    BY DEF Pending
  <2>2. host[FenceOut][w] = Pattern[seq]
    BY DEF Matched, All
  <2> QED BY <1>1, <2>1, <2>2 DEF Read
<1>3. PICK i \in 1 .. Len(h2d) : h2d[i].dst = FenceBuf
  BY <1>1 DEF LastFence, FencePending
<1>4. h2d[i].left # {} /\ FenceCopyAt(i)
  BY <1>1, <1>3 DEF Copies
<1>5. h2d[i].left \subseteq Word
  <2>1. h2d[i] \in Copy(Pinned, Tensor)
    BY <1>3 DEF TypeOK
  <2> QED BY <2>1 DEF Copy
<1>6. PICK w \in h2d[i].left : w \in Word
  BY <1>4, <1>5
<1>7. dev[FenceBuf][w] # Pattern[seq]
  BY <1>4, <1>6 DEF FenceCopyAt
<1> QED BY <1>2, <1>6, <1>7

\* A step that leaves the fence, its buffers and the uploads alone, and what
\* the host has read.
LEMMA QuietRead ==
  ASSUME FenceOrder, FenceRead,
         h2d' = h2d, d2h' = d2h, seq' = seq,
         dev'[FenceBuf] = dev[FenceBuf],
         host'[FenceIn] = host[FenceIn],
         at' = "fence_spin" => at = "fence_spin" /\ host'[FenceOut] = host[FenceOut],
         at' = "fence_copy" => at \in {"fence_copy", "fence_spin"} \/ h2d = <<>>,
         at \in {"fence_copy", "fence_spin", "failed"} /\ h2d # <<>> =>
           at' \in {"fence_copy", "fence_spin", "failed"}
  PROVE  FenceOrder' /\ FenceRead'
<1>1. Copies /\ Shown /\ LastFence /\ Read /\ Targets
  BY Parts DEF FenceRead, Read, Targets
<1>2. FenceOrder'
  BY <1>1, Quiet
<1>3. Read' /\ Targets'
  BY <1>1 DEF Read, Targets
<1> QED BY <1>2, <1>3 DEF FenceRead, Read, Targets

\* A step that enqueues a copy to the host: the fence's, or another.
LEMMA CopyStep ==
  ASSUME TypeOK, FenceOrder, FenceRead, NEW t \in Tensor, NEW b \in {FenceOut, HOut, HAux},
         b = FenceOut => t = FenceBuf,
         h2d' = h2d, seq' = seq, dev' = dev, d2h' = Enqueue(d2h, t, b),
         host' = [host EXCEPT ![b] = All(HostSentinel)],
         \/ at = "fence_copy" /\ at' = "fence_spin" /\ b = FenceOut
         \/ at \in {"copy", "logits"} /\ at' \in {"spin", "logits_spin"}
  PROVE  FenceOrder' /\ FenceRead'
<1>1. Copies /\ Shown /\ LastFence /\ Targets
  BY Parts DEF FenceRead, Targets
<1>2. host'[FenceIn] = host[FenceIn] /\ host'[b] = All(HostSentinel)
  BY Names DEF TypeOK
<1>3. FenceOrder'
  BY <1>1, <1>2, Quiet
<1>4. Targets'
  BY <1>1, TargetsEnqueue
<1>5. at' = "fence_spin" => \A w \in Word : host'[FenceOut][w] = HostSentinel
  BY <1>2 DEF All
<1> QED BY <1>3, <1>4, <1>5 DEF FenceRead, Targets

\* Every step keeps the invariant.
LEMMA FencedStep ==
  ASSUME FenceInv, TypeOK', Conditions, [Next]_vars
  PROVE  FenceOrder' /\ FenceRead' /\ Fenced'
<1> USE DEF FenceInv
<1>a. Copies /\ Shown
  BY Parts
<1>1. ASSUME NEW w \in Word, LandUp(w) PROVE FenceOrder' /\ FenceRead' /\ Fenced'
  BY <1>1, LandUpStep DEF LandUp, Fenced
<1>2. ASSUME NEW w \in Word, LandDown(w) PROVE FenceOrder' /\ FenceRead' /\ Fenced'
  BY <1>2, LandDownStep DEF LandDown, Fenced
<1>3. CASE Compute
  <2>1. dev'[FenceBuf] = dev[FenceBuf]
    BY <1>3, Names DEF Compute, TypeOK
  <2> QED BY <1>3, <2>1, QuietRead DEF Compute, Fenced
<1>4. ASSUME NEW w \in Word, Write(w) PROVE FenceOrder' /\ FenceRead' /\ Fenced'
  <2>1. dev'[FenceBuf] = dev[FenceBuf]
    BY <1>4, Names DEF Write, TypeOK
  <2> QED BY <1>4, <2>1, QuietRead DEF Write, Fenced
<1>5. CASE Tick
  BY <1>5, QuietRead DEF Tick, deviceVars, Fenced
<1>6. CASE Fence
  BY <1>6, FenceStep DEF Fence, Fenced
<1>7. CASE FenceCopy
  BY <1>7, CopyStep, Names DEF FenceCopy, Fenced
<1>8. CASE FenceSpin
  <2>1. Matched => h2d = <<>>
    BY <1>8, MatchedIsDone DEF FenceSpin
  <2>2. (at' \in {"stage", "built", "fill"} /\ h2d = <<>>) \/ at' \in {"fence_copy", "failed"}
    BY <1>8, <2>1 DEF FenceSpin, TypeOK
  <2> QED BY <1>8, <2>2, QuietRead DEF FenceSpin, deviceVars, Fenced
<1>9. ASSUME NEW p \in {"fence_spin", "spin", "logits_spin"}, NEW b \in Pinned, Late(p, b)
      PROVE  FenceOrder' /\ FenceRead' /\ Fenced'
  BY <1>9, QuietRead DEF Late, deviceVars, Fenced
<1>10. CASE Stage
  <2>1. Slot(next) \in Pinned /\ Piece(piece) \in Tensor /\ Piece(piece) # FenceBuf
    BY <1>10, Names, SizeAssumption DEF Stage, TypeOK
  <2>2. FenceOrder'
    BY <1>10, <1>a, <2>1, OtherEnqueue DEF Stage, FreeSlot
  <2> QED BY <1>10, <2>2 DEF Stage, FenceRead, Fenced, TypeOK
<1>11. CASE StageWait
  BY <1>11, QuietRead DEF StageWait, deviceVars, Fenced
<1>12. CASE Built
  BY <1>12, QuietRead DEF Built, deviceVars, Fenced
<1>13. CASE Fill
  <2>1. dev'[FenceBuf] = dev[FenceBuf]
    BY <1>13, Names DEF Fill, Filled, TypeOK
  <2> QED BY <1>13, <2>1, QuietRead DEF Fill, Fenced
<1>14. CASE ReadCopy
  BY <1>14, CopyStep, Names DEF ReadCopy, Refilled, Fenced
<1>15. CASE ReadSpin
  BY <1>15, QuietRead DEF ReadSpin, deviceVars, Fenced
<1>16. CASE LogitsCopy
  BY <1>16, CopyStep, Names DEF LogitsCopy, Refilled, Fenced
<1>17. CASE Return
  BY <1>17, QuietRead DEF Return, deviceVars, Fenced
<1>18. ASSUME NEW v \in Input, NEW k \in {"launch", "loop"}, Upload(v, k)
       PROVE  FenceOrder' /\ FenceRead' /\ Fenced'
  <2>1. FenceOrder'
    BY <1>18, <1>a, Names, OtherEnqueue DEF Upload
  <2> QED BY <1>18, <2>1 DEF Upload, FenceRead, Fenced
<1>19. CASE Resident
  BY <1>19, QuietRead DEF Resident, deviceVars, Fenced
<1>20. CASE Retry
  BY <1>20, QuietRead DEF Retry, deviceVars, Fenced, Conditions
<1>21. CASE GiveUp \/ UNCHANGED vars
  BY <1>21, QuietRead DEF GiveUp, vars, Fenced
<1> QED
  BY <1>1, <1>2, <1>3, <1>4, <1>5, <1>6, <1>7, <1>8, <1>9, <1>10, <1>11, <1>12, <1>13,
     <1>14, <1>15, <1>16, <1>17, <1>18, <1>19, <1>20, <1>21, Names
  DEF Next, Device, Host, Caller

LEMMA FencedInit == Init => FenceInv
<1> SUFFICES ASSUME Init PROVE FenceInv
  OBVIOUS
<1>1. TypeOK
  BY TypeInit
<1>2. Len(h2d) = 0 /\ Len(d2h) = 0
  BY DEF Init
<1>3. \A w \in Word : dev[FenceBuf][w] \in Leftover
  BY Names DEF Init, All
<1>4. FenceOrder
  BY <1>2, <1>3 DEF Init, FenceOrder
<1> QED BY <1>1, <1>2, <1>4 DEF Init, FenceInv, FenceRead, Fenced

\* The fence's copy is the last while the host waits for it, and what the
\* host has seen of the fence buffer is still there: for any ring of slots, any
\* width of the counter and any sentinels, under the two conditions.
THEOREM FenceInvariant == Conditions => (Spec => []FenceInv)
<1> SUFFICES ASSUME Conditions PROVE Spec => []FenceInv
  OBVIOUS
<1>1. Init => FenceInv
  BY FencedInit
<1>2. FenceInv /\ [Next]_vars => FenceInv'
  BY TypeStep, FencedStep DEF FenceInv
<1> QED BY <1>1, <1>2, PTL DEF Spec

\* Fence::wait, the claim "once the fence is visible all of them are": a fence
\* that returned leaves no upload behind, before a slot is reused or released
\* and before a launch.
THEOREM FenceIsRight == Conditions => (Spec => []Fenced)
<1> SUFFICES ASSUME Conditions PROVE Spec => []Fenced
  OBVIOUS
<1>1. Spec => []FenceInv
  BY FenceInvariant
<1>2. FenceInv => Fenced
  BY DEF FenceInv
<1> QED BY <1>1, <1>2, PTL

-----------------------------------------------------------------------------
(* The answer.                                                             *)

\* The buffers are all different.
LEMMA Distinct ==
  /\ \A i, j \in 1 .. Pieces : Piece(i) = Piece(j) => i = j
  /\ \A i \in 1 .. Pieces : Piece(i) \notin {In, FenceBuf, Out, Logits}
  /\ In \notin {FenceBuf, Out, Logits} /\ Out \notin {FenceBuf, Logits}
  /\ \A i, j \in 0 .. Slots - 1 : Slot(i) = Slot(j) => i = j
  /\ \A i \in 0 .. Slots - 1 : Slot(i) \notin {Up, FenceIn, FenceOut, HOut, HAux}
  /\ Up \notin {FenceIn, FenceOut, HOut, HAux}
  /\ FenceIn \notin {FenceOut, HOut, HAux}
  /\ FenceOut \notin {HOut, HAux} /\ HOut # HAux
BY DEF FenceBuf, In, Out, Logits, Piece, Up, FenceIn, FenceOut, HOut, HAux, Slot

\* What the host believes, beyond the fence.
Beliefs == Stages /\ Uploads /\ Inputs /\ Downloads /\ Written /\ ReadBack /\ Exact

\* A step that leaves the device, its copies and the pinned buffers alone, and
\* that enqueues and reads nothing.
LEMMA HostOnly ==
  ASSUME Uploads, Inputs, h2d' = h2d, dev' = dev, host' = host, piece' = piece,
         input' = input, next' = next \/ h2d = <<>>, then' = "fill" => then = "fill"
  PROVE  Uploads' /\ Inputs'
<1>1. Uploads'
  <2>1. CASE next' = next
    BY <2>1 DEF Uploads
  <2>2. CASE h2d = <<>>
    BY <2>2 DEF Uploads
  <2> QED
    BY <2>1, <2>2
<1>2. Inputs'
  BY DEF Inputs, Arrives
<1> QED
  BY <1>1, <1>2

\* The words of the host sentinel have all been overwritten: the copy the host
\* waits for has landed.
LEMMA CopyLanded ==
  ASSUME TypeOK, Downloads,
         \/ at = "fence_spin" /\ ~Pending(FenceOut)
         \/ at = "spin" /\ ~Pending(HOut)
         \/ at = "logits_spin" /\ ~Pending(HAux)
  PROVE  d2h = <<>>
<1> SUFFICES ASSUME d2h # <<>> PROVE FALSE
  OBVIOUS
<1>1. 1 \in 1 .. Len(d2h) /\ d2h[1] \in Copy(Tensor, Pinned)
  BY EmptySeq DEF TypeOK
<1>2. d2h[1].left # {} /\ \A w \in d2h[1].left : w \in Word /\ host[d2h[1].dst][w] = HostSentinel
  BY <1>1 DEF Downloads, Copy
<1>3. Pending(d2h[1].dst)
  BY <1>2 DEF Pending
<1> QED
  BY <1>1, <1>3 DEF Downloads

\* The host waits, is told, or goes on: FenceSpin, ReadSpin, Return, Late,
\* and what the caller does between calls.
LEMMA FenceSpinKeeps ==
  ASSUME TypeOK, FenceOrder, FenceRead, Beliefs, FenceSpin
  PROVE  Beliefs'
<1> USE DEF Beliefs
<1>1. /\ at = "fence_spin" /\ ~Pending(FenceOut)
      /\ h2d' = h2d /\ dev' = dev /\ host' = host /\ piece' = piece /\ input' = input
      /\ d2h' = d2h /\ queue' = queue /\ then' = then /\ answer' = answer
      /\ next' = next \/ Matched
      /\ at' \in {then, "failed", "fence_copy"}
  BY DEF FenceSpin, deviceVars, callVars
<1>2. Matched => h2d = <<>>
  BY <1>1, MatchedIsDone
<1>3. d2h = <<>>
  BY <1>1, CopyLanded
<1>4. Uploads' /\ Inputs'
  BY <1>1, <1>2, HostOnly
<1>5. Stages'
  BY <1>1 DEF Stages, TypeOK
<1>6. at' \notin {"copy", "spin", "logits", "logits_spin"}
  BY <1>1 DEF TypeOK
<1>7. Downloads'
  BY <1>1, <1>3 DEF Downloads
<1>8. Written' /\ ReadBack' /\ Exact'
  BY <1>1, <1>6 DEF Written, ReadBack, Exact
<1> QED
  BY <1>4, <1>5, <1>7, <1>8

LEMMA ReadSpinKeeps ==
  ASSUME TypeOK, Beliefs, ReadSpin
  PROVE  Beliefs'
<1> USE DEF Beliefs
<1>1. /\ at = "spin" /\ ~Pending(HOut)
      /\ h2d' = h2d /\ dev' = dev /\ host' = host /\ piece' = piece /\ input' = input
      /\ d2h' = d2h /\ queue' = queue /\ then' = then /\ answer' = answer /\ next' = next
      /\ at' = IF ~Incomplete THEN "logits" ELSE IF late THEN "failed" ELSE "copy"
  BY DEF ReadSpin, deviceVars, callVars
<1>2. d2h = <<>>
  BY <1>1, CopyLanded
<1>3. Uploads' /\ Inputs'
  BY <1>1, HostOnly
<1>4. Stages' /\ Exact'
  BY <1>1 DEF Stages, Exact
<1>5. Downloads'
  BY <1>1, <1>2 DEF Downloads
<1>6. Written'
  BY <1>1 DEF Written
<1>7. ReadBack'
  <2>1. ASSUME ~Incomplete
        PROVE  host[HOut] = All(Result[input]) /\ dev[Logits] = All(Result[input])
    <3>1. \A w \in Word : host[HOut][w] \notin {HostSentinel, Sentinel}
      BY <1>1, <2>1 DEF Pending, Incomplete
    <3>2. \A w \in Word : host[HOut][w] = Result[input] /\ dev[Logits] = All(Result[input])
      BY <1>1, <3>1 DEF ReadBack
    <3>3. 1 \in Word
      BY SizeAssumption DEF Word
    <3>4. host[HOut] \in [Word -> Int]
      BY Names DEF TypeOK, Buffer
    <3> QED
      BY <3>2, <3>3, <3>4 DEF All
  <2> QED
    BY <1>1, <2>1 DEF ReadBack
<1> QED
  BY <1>3, <1>4, <1>5, <1>6, <1>7

LEMMA ReturnKeeps ==
  ASSUME TypeOK, Beliefs, Return
  PROVE  Beliefs'
<1> USE DEF Beliefs
<1>1. /\ at = "logits_spin" /\ ~Pending(HAux) /\ at' = "idle"
      /\ h2d' = h2d /\ dev' = dev /\ host' = host /\ piece' = piece /\ input' = input
      /\ d2h' = d2h /\ queue' = queue /\ then' = then /\ next' = next
      /\ answer' = {<<host[HOut], host[HAux]>>}
  BY DEF Return, deviceVars
<1>2. d2h = <<>>
  BY <1>1, CopyLanded
<1>3. Uploads' /\ Inputs'
  BY <1>1, HostOnly
<1>4. Stages' /\ Downloads' /\ Written' /\ ReadBack'
  BY <1>1, <1>2 DEF Stages, Downloads, Written, ReadBack
<1>5. host[HOut] = All(Result[input]) /\ host[HAux] = All(Result[input])
  <2>1. host[HAux] \in [Word -> Int]
    BY Names DEF TypeOK, Buffer
  <2>2. \A w \in Word : host[HAux][w] = Result[input]
    BY <1>1 DEF ReadBack, Pending
  <2> QED
    BY <1>1, <2>1, <2>2 DEF ReadBack, All
<1>6. Exact'
  BY <1>1, <1>5 DEF Exact
<1> QED
  BY <1>3, <1>4, <1>6

\* The other steps of the host that touch no buffer.
LEMMA WaitKeeps ==
  ASSUME TypeOK, Fenced, Beliefs, Retries = "settled",
         \/ Tick \/ StageWait \/ Built \/ Resident \/ Retry \/ GiveUp \/ UNCHANGED vars
         \/ \E p \in {"fence_spin", "spin", "logits_spin"}, b \in Pinned : Late(p, b)
  PROVE  Beliefs'
<1> USE DEF Beliefs
<1>1. /\ h2d' = h2d /\ dev' = dev /\ host' = host /\ piece' = piece /\ input' = input
      /\ d2h' = d2h /\ queue' = queue /\ next' = next
  BY DEF Tick, StageWait, Built, Resident, Retry, GiveUp, vars, Late, deviceVars, callVars
<1>2. then' = "fill" => then = "fill"
  BY DEF Tick, StageWait, Built, Resident, Retry, GiveUp, vars, Late, deviceVars, callVars
<1>3. Uploads' /\ Inputs'
  BY <1>1, <1>2, HostOnly
<1>4. Stages'
  <2>1. CASE Tick \/ GiveUp \/ UNCHANGED vars
    BY <2>1 DEF Tick, GiveUp, vars, Stages, callVars
  <2>2. CASE StageWait
    BY <1>1, <2>2, SizeAssumption DEF StageWait, Stages, TypeOK, callVars
  <2>3. CASE Built \/ Resident \/ Retry
    BY <1>1, <2>3 DEF Built, Resident, Retry, Stages, callVars
  <2>4. CASE \E p \in {"fence_spin", "spin", "logits_spin"}, b \in Pinned : Late(p, b)
    BY <1>1, <2>4 DEF Late, Stages, callVars
  <2> QED
    BY <2>1, <2>2, <2>3, <2>4
<1>5. Downloads'
  <2>1. CASE Tick \/ GiveUp \/ UNCHANGED vars
    BY <1>1, <2>1 DEF Tick, GiveUp, vars, Downloads
  <2>2. CASE StageWait \/ Built \/ Resident
    BY <1>1, <2>2 DEF StageWait, Built, Resident, Downloads
  <2>3. CASE Retry
    BY <1>1, <2>3 DEF Retry, Downloads
  <2>4. CASE \E p \in {"fence_spin", "spin", "logits_spin"}, b \in Pinned : Late(p, b)
    BY <1>1, <2>4 DEF Late, Downloads
  <2> QED
    BY <2>1, <2>2, <2>3, <2>4
<1>6. at' # at => at' \notin {"copy", "spin", "logits", "logits_spin"}
  BY DEF Tick, StageWait, Built, Resident, Retry, GiveUp, vars, Late
<1>7. Written' /\ ReadBack'
  BY <1>1, <1>6 DEF Written, ReadBack
<1>8. Exact'
  BY <1>1 DEF Exact, Tick, StageWait, Built, Resident, Retry, GiveUp, vars, Late, callVars, NoAnswer
<1> QED
  BY <1>3, <1>4, <1>5, <1>7, <1>8

\* The first element of a queue.
LEMMA First ==
  ASSUME NEW S, NEW q \in Seq(S), q # <<>>
  PROVE  Head(q) = q[1] /\ 1 \in 1 .. Len(q) /\ Len(q) \in Nat /\ q[1] \in S
OBVIOUS

\* The oldest upload lands where it brings the right word.
LEMMA HeadUpload ==
  ASSUME TypeOK, Uploads, h2d # <<>>
  PROVE  /\ Head(h2d) = h2d[1] /\ 1 \in 1 .. Len(h2d)
         /\ h2d[1] \in Copy(Pinned, Tensor)
         /\ h2d[1].dst \notin {Out, Logits}
         /\ h2d[1].dst = In => host[h2d[1].src] = All(input)
         /\ \A i \in 1 .. Pieces : h2d[1].dst = Piece(i) => host[h2d[1].src] = All(Content[i])
<1>1. 1 \in 1 .. Len(h2d) /\ Head(h2d) = h2d[1] /\ h2d[1] \in Copy(Pinned, Tensor)
  BY First DEF TypeOK
<1> SUFFICES /\ h2d[1].dst \notin {Out, Logits}
             /\ h2d[1].dst = In => host[h2d[1].src] = All(input)
             /\ \A i \in 1 .. Pieces :
                  h2d[1].dst = Piece(i) => host[h2d[1].src] = All(Content[i])
  BY <1>1
<1>2. CASE \E j \in 0 .. next - 1, i \in 1 .. piece - 1 :
             /\ h2d[1].src = Slot(j) /\ h2d[1].dst = Piece(i)
             /\ host[Slot(j)] = All(Content[i])
  <2>1. PICK i \in 1 .. piece - 1 : h2d[1].dst = Piece(i) /\ host[h2d[1].src] = All(Content[i])
    BY <1>2
  <2>2. i \in 1 .. Pieces
    BY SizeAssumption DEF TypeOK
  <2> QED
    BY <1>1, <2>1, <2>2, Distinct
<1>3. CASE h2d[1].src = Up /\ h2d[1].dst = In /\ host[Up] = All(input)
  BY <1>1, <1>3, Distinct
<1>4. CASE h2d[1].src = FenceIn /\ h2d[1].dst = FenceBuf
  BY <1>1, <1>4, Distinct, Names
<1>5. \/ \E j \in 0 .. next - 1, i \in 1 .. piece - 1 :
           /\ h2d[1].src = Slot(j) /\ h2d[1].dst = Piece(i)
           /\ host[Slot(j)] = All(Content[i])
      \/ h2d[1].src = Up /\ h2d[1].dst = In /\ host[Up] = All(input)
      \/ h2d[1].src = FenceIn /\ h2d[1].dst = FenceBuf
  BY <1>1 DEF Uploads
<1> QED
  BY <1>2, <1>3, <1>4, <1>5

\* A word lands: what arrived has arrived, and what was on its way still is.
LEMMA ArrivesLand ==
  ASSUME TypeOK, NEW w \in Word, LandUp(w), NEW t \in Tensor, NEW v \in Int, Arrives(t, v),
         h2d[1].dst = t => host[h2d[1].src] = All(v)
  PROVE  \A u \in Word :
           dev'[t][u] = v \/ \E k \in 1 .. Len(h2d') : h2d'[k].dst = t /\ u \in h2d'[k].left
<1> TAKE u \in Word
<1>1. /\ h2d # <<>> /\ Head(h2d) = h2d[1] /\ 1 \in 1 .. Len(h2d) /\ w \in h2d[1].left
      /\ h2d[1] \in Copy(Pinned, Tensor) /\ Len(h2d) \in Nat
      /\ dev' = [dev EXCEPT ![h2d[1].dst][w] = host[h2d[1].src][w]]
  <2>1. h2d \in Seq(Copy(Pinned, Tensor)) /\ h2d # <<>>
    BY DEF LandUp, TypeOK
  <2>2. /\ Head(h2d) = h2d[1] /\ 1 \in 1 .. Len(h2d) /\ h2d[1] \in Copy(Pinned, Tensor)
        /\ Len(h2d) \in Nat
    BY <2>1, First
  <2> QED
    BY <2>1, <2>2 DEF LandUp
<1>2. Popped(h2d, h2d', w)
  BY <1>1, LandedIs DEF LandUp, TypeOK
<1>3. h2d[1].dst \in Tensor /\ h2d[1].src \in Pinned
  BY <1>1 DEF Copy
<1>4. CASE h2d[1].dst = t /\ u = w
  BY <1>1, <1>3, <1>4 DEF TypeOK, Buffer, All
<1>5. CASE ~(h2d[1].dst = t /\ u = w)
  <2>1. dev'[t][u] = dev[t][u]
    BY <1>1, <1>3, <1>5 DEF TypeOK, Buffer
  <2>2. ASSUME NEW k \in 1 .. Len(h2d), h2d[k].dst = t, u \in h2d[k].left
        PROVE  \E m \in 1 .. Len(h2d') : h2d'[m].dst = t /\ u \in h2d'[m].left
    <3>1. CASE h2d[1].left = {w}
      <4>1. k # 1
        BY <1>5, <2>2, <3>1
      <4>2. k - 1 \in 1 .. Len(h2d') /\ k - 1 + 1 = k
        BY <1>1, <1>2, <3>1, <4>1 DEF Popped
      <4>3. h2d'[k - 1] = h2d[k]
        BY <1>1, <1>2, <3>1, <4>1, <4>2 DEF Popped
      <4> QED
        BY <2>2, <4>2, <4>3
    <3>2. CASE h2d[1].left # {w}
      <4>1. k \in 1 .. Len(h2d') /\ (k = 1 \/ k \in 2 .. Len(h2d))
        BY <1>1, <1>2, <3>2 DEF Popped
      <4>2. h2d'[k].dst = t /\ u \in h2d'[k].left
        BY <1>2, <1>5, <2>2, <3>2, <4>1 DEF Popped
      <4> QED
        BY <4>1, <4>2
    <3> QED
      BY <3>1, <3>2
  <2> QED
    BY <2>1, <2>2 DEF Arrives
<1> QED
  BY <1>4, <1>5

LEMMA LandUpKeeps ==
  ASSUME TypeOK, Fenced, Beliefs, NEW w \in Word, LandUp(w)
  PROVE  Beliefs'
<1> USE DEF Beliefs
<1>1. /\ h2d # <<>>
      /\ dev' = [dev EXCEPT ![h2d[1].dst][w] = host[h2d[1].src][w]]
      /\ host' = host /\ d2h' = d2h /\ queue' = queue /\ next' = next /\ at' = at
      /\ then' = then /\ piece' = piece /\ input' = input /\ answer' = answer
      /\ w \in h2d[1].left
  BY HeadUpload DEF LandUp, callVars
<1>2. at \notin {"built", "idle", "fill", "copy", "spin", "logits", "logits_spin"}
  BY <1>1 DEF Fenced
<1>3. Popped(h2d, h2d', w)
  BY <1>1, LandedIs, HeadUpload DEF LandUp, TypeOK
<1>4. Stages' /\ Downloads' /\ Exact'
  BY <1>1 DEF Stages, Downloads, Exact
<1>5. Written' /\ ReadBack'
  BY <1>1, <1>2 DEF Written, ReadBack
<1>6. Uploads'
  <2> SUFFICES ASSUME NEW k \in 1 .. Len(h2d')
               PROVE  \E m \in 1 .. Len(h2d) :
                        h2d'[k].src = h2d[m].src /\ h2d'[k].dst = h2d[m].dst
    BY <1>1 DEF Uploads
  <2>1. 1 \in 1 .. Len(h2d) /\ Len(h2d) \in Nat
    BY <1>1, HeadUpload DEF TypeOK
  <2>2. CASE h2d[1].left = {w}
    <3>1. k + 1 \in 1 .. Len(h2d) /\ h2d'[k] = h2d[k + 1]
      BY <1>3, <2>1, <2>2 DEF Popped
    <3> QED
      BY <3>1
  <2>3. CASE h2d[1].left # {w}
    <3>1. k \in 1 .. Len(h2d) /\ (k = 1 \/ k \in 2 .. Len(h2d))
      BY <1>3, <2>1, <2>3 DEF Popped
    <3> QED
      BY <1>3, <2>3, <3>1 DEF Popped
  <2> QED
    BY <2>2, <2>3
<1>7. Inputs'
  <2>1. ASSUME NEW i \in 1 .. piece - 1
        PROVE  \A u \in Word : \/ dev'[Piece(i)][u] = Content[i]
                               \/ \E k \in 1 .. Len(h2d') :
                                    h2d'[k].dst = Piece(i) /\ u \in h2d'[k].left
    <3>1. i \in 1 .. Pieces
      BY SizeAssumption DEF TypeOK
    <3>2. Piece(i) \in Tensor /\ Content[i] \in Int
      BY <3>1, Names, DataAssumption
    <3>3. h2d[1].dst = Piece(i) => host[h2d[1].src] = All(Content[i])
      BY <1>1, <3>1, HeadUpload
    <3>4. Arrives(Piece(i), Content[i])
      BY DEF Inputs
    <3> QED
      BY <3>2, <3>3, <3>4, ArrivesLand
  <2>2. ASSUME then = "fill"
        PROVE  \A u \in Word : \/ dev'[In][u] = input
                               \/ \E k \in 1 .. Len(h2d') : h2d'[k].dst = In /\ u \in h2d'[k].left
    <3>1. In \in Tensor /\ input \in Int
      BY Names DEF TypeOK
    <3>2. h2d[1].dst = In => host[h2d[1].src] = All(input)
      BY <1>1, HeadUpload
    <3>3. Arrives(In, input)
      BY <2>2 DEF Inputs
    <3> QED
      BY <3>1, <3>2, <3>3, ArrivesLand
  <2> QED
    BY <1>1, <2>1, <2>2 DEF Inputs, Arrives
<1> QED
  BY <1>4, <1>5, <1>6, <1>7

\* A word of the copy the host waits for lands.
LEMMA LandDownKeeps ==
  ASSUME TypeOK, Beliefs, FenceRead, NEW w \in Word, LandDown(w)
  PROVE  Beliefs'
<1> USE DEF Beliefs
<1> DEFINE c == d2h[1]
<1>1. /\ d2h # <<>> /\ Head(d2h) = c /\ 1 \in 1 .. Len(d2h) /\ Len(d2h) = 1
      /\ c \in Copy(Tensor, Pinned) /\ w \in c.left
  <2>1. d2h \in Seq(Copy(Tensor, Pinned)) /\ d2h # <<>> /\ w \in Head(d2h).left
    BY DEF LandDown, TypeOK
  <2>2. /\ Head(d2h) = d2h[1] /\ 1 \in 1 .. Len(d2h) /\ d2h[1] \in Copy(Tensor, Pinned)
        /\ Len(d2h) \in Nat
    BY <2>1, First
  <2>3. Len(d2h) = 1
    <3>1. Len(d2h) <= 1
      BY DEF Downloads
    <3>2. \A n \in Nat : 1 \in 1 .. n /\ n <= 1 => n = 1
      OBVIOUS
    <3> QED
      BY <2>2, <3>1, <3>2, Zenon
  <2> QED
    BY <2>1, <2>2, <2>3
<1>2. c.dst \in {FenceOut, HOut, HAux} /\ c.src \in Tensor /\ c.dst \in Pinned
  BY <1>1 DEF FenceRead, Copy
<1>3. /\ host' = [host EXCEPT ![c.dst][w] = dev[c.src][w]]
      /\ d2h' = Landed(d2h, w)
      /\ h2d' = h2d /\ dev' = dev /\ queue' = queue /\ next' = next /\ at' = at
      /\ then' = then /\ piece' = piece /\ input' = input /\ answer' = answer
  BY <1>1 DEF LandDown, callVars
<1>4. Popped(d2h, d2h', w)
  BY <1>1, <1>3, LandedIs DEF TypeOK
<1>5. /\ \A b \in Pinned : b # c.dst => host'[b] = host[b]
      /\ \A u \in Word : host'[c.dst][u] = IF u = w THEN dev[c.src][w] ELSE host[c.dst][u]
  BY <1>2, <1>3 DEF TypeOK, Buffer
<1> HIDE DEF c
<1>6. Stages' /\ Inputs' /\ Written' /\ Exact'
  BY <1>3 DEF Stages, Inputs, Arrives, Written, Exact
<1>7. Uploads'
  <2>1. host'[Up] = host[Up] /\ \A j \in 0 .. next - 1 : host'[Slot(j)] = host[Slot(j)]
    <3>1. \A j \in 0 .. next - 1 : j \in 0 .. Slots - 1
      BY SizeAssumption DEF TypeOK
    <3> QED
      BY <1>2, <1>5, <3>1, Names, Distinct
  <2> QED
    BY <1>3, <2>1 DEF Uploads
<1>8. Downloads'
  <2>1. CASE c.left = {w}
    <3>1. Len(d2h') = 0
      BY <1>1, <1>4, <2>1 DEF Popped, c
    <3>2. d2h' = <<>>
      <4>1. d2h' \in Seq(Copy(Tensor, Pinned))
        BY <1>1, <1>3, LandedIs DEF TypeOK
      <4> QED
        BY <3>1, <4>1, EmptySeq
    <3> QED
      BY <3>1, <3>2 DEF Downloads
  <2>2. CASE c.left # {w}
    <3>1. /\ Len(d2h') = 1 /\ d2h'[1].src = c.src /\ d2h'[1].dst = c.dst
          /\ d2h'[1].left = c.left \ {w}
      BY <1>1, <1>4, <2>2 DEF Popped, c
    <3>2. d2h'[1].left # {} /\ \A u \in d2h'[1].left : u \in Word /\ u # w /\ u \in c.left
      BY <1>1, <2>2, <3>1 DEF Copy
    <3>3. \A u \in c.left : host[c.dst][u] = HostSentinel
      BY <1>1 DEF Downloads, c
    <3>4. \A u \in d2h'[1].left : host'[d2h'[1].dst][u] = HostSentinel
      BY <1>5, <3>1, <3>2, <3>3
    <3>5. \A k \in 1 .. Len(d2h') : k = 1
      BY <3>1
    <3>6. /\ at \in {"fence_spin", "spin", "logits_spin", "failed"}
          /\ at = "fence_spin" => c.dst = FenceOut
          /\ at = "spin" => c.src = Out /\ c.dst = HOut
          /\ at = "logits_spin" => c.src = Logits /\ c.dst = HAux
      BY <1>1 DEF Downloads, c
    <3> QED
      BY <1>3, <3>1, <3>2, <3>4, <3>5, <3>6 DEF Downloads
  <2> QED
    BY <2>1, <2>2
<1>9. ReadBack'
  <2>1. CASE at = "spin"
    <3>1. c.src = Out /\ c.dst = HOut
      BY <1>1, <2>1 DEF Downloads, c
    <3>2. \A u \in Word : host'[HOut][u] = IF u = w THEN dev[Out][w] ELSE host[HOut][u]
      BY <1>5, <3>1
    <3>3. \A u \in Word : host'[HOut][u] \notin {HostSentinel, Sentinel} =>
            host'[HOut][u] = Result[input] /\ dev[Logits] = All(Result[input])
      BY <2>1, <3>2 DEF ReadBack, Written
    <3> QED
      BY <1>3, <2>1, <3>3 DEF ReadBack
  <2>2. CASE at = "logits_spin"
    <3>1. c.src = Logits /\ c.dst = HAux
      BY <1>1, <2>2 DEF Downloads, c
    <3>2. host'[HOut] = host[HOut]
      BY <1>5, <3>1, Names, Distinct
    <3>3. \A u \in Word : host'[HAux][u] = IF u = w THEN dev[Logits][w] ELSE host[HAux][u]
      BY <1>5, <3>1
    <3>4. dev[Logits][w] = Result[input]
      BY <2>2 DEF ReadBack, All
    <3> QED
      BY <1>3, <2>2, <3>2, <3>3, <3>4 DEF ReadBack
  <2>3. CASE at \in {"fence_spin", "failed"}
    BY <1>3, <2>3 DEF ReadBack
  <2> QED
    BY <1>1, <2>1, <2>2, <2>3 DEF Downloads
<1> QED
  BY <1>6, <1>7, <1>8, <1>9

\* Once nothing is on its way to the device the recipe computes from what the
\* host meant: every piece staged, and the input uploaded last.
LEMMA ComputedRight ==
  ASSUME TypeOK, Stages, Inputs, Fenced, at \in {"copy", "spin", "logits", "logits_spin"}
  PROVE  Computed = Result[input]
<1>1. h2d = <<>> /\ Len(h2d) = 0
  BY DEF Fenced
<1>2. then = "fill" /\ piece - 1 = Pieces
  BY SizeAssumption DEF Stages, TypeOK
<1>3. ASSUME NEW t \in Tensor, NEW v \in Int, Arrives(t, v) PROVE dev[t] = All(v)
  <2>1. dev[t] \in [Word -> Int]
    BY DEF TypeOK, Buffer
  <2>2. \A w \in Word : dev[t][w] = v
    BY <1>1, <1>3 DEF Arrives
  <2> QED
    BY <2>1, <2>2 DEF All
<1>4. \A i \in 1 .. Pieces : dev[Piece(i)] = All(Content[i])
  <2> TAKE i \in 1 .. Pieces
  <2>1. Piece(i) \in Tensor /\ Content[i] \in Int
    BY Names, DataAssumption
  <2>2. Arrives(Piece(i), Content[i])
    BY <1>2 DEF Inputs
  <2> QED
    BY <1>3, <2>1, <2>2
<1>5. input \in Input /\ dev[In] = All(input)
  BY <1>2, <1>3, Names DEF Inputs, TypeOK
<1>6. \A v \in Input : dev[In] = All(v) => v = input
  <2>1. 1 \in Word
    BY SizeAssumption DEF Word
  <2>2. dev[In][1] = input
    BY <1>5, <2>1 DEF All
  <2>3. ASSUME NEW v \in Input, dev[In] = All(v) PROVE dev[In][1] = v
    BY <2>1, <2>3 DEF All
  <2> QED
    BY <2>2, <2>3
<1>7. (CHOOSE v \in Input : dev[In] = All(v)) = input
  BY <1>5, <1>6
<1> QED
  BY <1>4, <1>5, <1>7 DEF Computed

LEMMA ComputeKeeps ==
  ASSUME TypeOK, Fenced, Beliefs, Compute
  PROVE  Beliefs'
<1> USE DEF Beliefs
<1>1. /\ host' = host /\ h2d' = h2d /\ d2h' = d2h /\ next' = next /\ at' = at
      /\ then' = then /\ piece' = piece /\ input' = input /\ answer' = answer
      /\ dev' = [dev EXCEPT ![Logits] = All(Computed)]
  BY DEF Compute, callVars
<1>2. /\ dev'[Logits] = All(Computed)
      /\ \A t \in Tensor : t # Logits => dev'[t] = dev[t]
  BY <1>1, Names DEF TypeOK
<1>3. Stages' /\ Uploads' /\ Downloads' /\ Exact'
  BY <1>1 DEF Stages, Uploads, Downloads, Exact
<1>4. Inputs'
  <2>1. \A i \in 1 .. piece - 1 : dev'[Piece(i)] = dev[Piece(i)]
    <3> TAKE i \in 1 .. piece - 1
    <3>1. i \in 1 .. Pieces
      BY SizeAssumption DEF TypeOK
    <3> QED
      BY <1>2, <3>1, Names, Distinct
  <2>2. dev'[In] = dev[In]
    BY <1>2, Names, Distinct
  <2> QED
    BY <1>1, <2>1, <2>2 DEF Inputs, Arrives
<1>5. CASE at \in {"copy", "spin", "logits", "logits_spin"}
  <2>1. Computed = Result[input]
    BY <1>5, ComputedRight
  <2>2. dev'[Logits] = All(Result[input]) /\ dev'[Out] = dev[Out]
    BY <1>2, <2>1, Names, Distinct
  <2>3. ReadBack'
    BY <1>1, <2>2 DEF ReadBack
  <2>4. \A k \in 1 .. Len(queue') : queue'[k].started => queue'[k].value = Result[input]
    <3> DEFINE e == [queue[1] EXCEPT !.value = Computed, !.started = TRUE]
    <3>1. queue \in Seq(Task) /\ queue # <<>>
      BY DEF TypeOK, Compute
    <3>2. 1 \in 1 .. Len(queue) /\ queue[1] \in Task
      BY <3>1, First
    <3>3. e.value = Result[input]
      BY <2>1, <3>2 DEF Task
    <3>4. e \in Task
      BY <3>2, ComputedIs DEF Task
    <3>5. queue' = [queue EXCEPT ![1] = e]
      BY DEF Compute
    <3> HIDE DEF e
    <3>6. /\ Len(queue') = Len(queue)
          /\ \A k \in 1 .. Len(queue) : queue'[k] = IF k = 1 THEN e ELSE queue[k]
      BY <3>1, <3>2, <3>4, <3>5, ExceptSeq
    <3> QED
      BY <1>5, <3>3, <3>6 DEF Written
  <2>5. Written'
    BY <1>1, <1>5, <2>2, <2>4 DEF Written
  <2> QED
    BY <1>3, <1>4, <2>3, <2>5
<1>6. CASE at \notin {"copy", "spin", "logits", "logits_spin"}
  <2>1. Written' /\ ReadBack'
    BY <1>1, <1>6 DEF Written, ReadBack
  <2> QED
    BY <1>3, <1>4, <2>1
<1> QED
  BY <1>5, <1>6

LEMMA WriteKeeps ==
  ASSUME TypeOK, Beliefs, NEW w \in Word, Write(w)
  PROVE  Beliefs'
<1> USE DEF Beliefs
<1>1. /\ host' = host /\ h2d' = h2d /\ d2h' = d2h /\ next' = next /\ at' = at
      /\ then' = then /\ piece' = piece /\ input' = input /\ answer' = answer
  BY DEF Write, callVars
<1>2. /\ queue \in Seq(Task) /\ queue # <<>>
      /\ Head(queue) = queue[1] /\ 1 \in 1 .. Len(queue) /\ Len(queue) \in Nat
      /\ queue[1] \in Task /\ queue[1].started
  <2>1. queue \in Seq(Task) /\ queue # <<>> /\ Head(queue).started
    BY DEF Write, TypeOK
  <2> QED
    BY <2>1, First
<1>3. dev' = [dev EXCEPT ![Out][w] = queue[1].value]
  BY <1>2 DEF Write
<1>4. /\ \A t \in Tensor : t # Out => dev'[t] = dev[t]
      /\ \A u \in Word : dev'[Out][u] = IF u = w THEN queue[1].value ELSE dev[Out][u]
  BY <1>3, Names DEF TypeOK, Buffer
<1>5. dev'[Logits] = dev[Logits]
  BY <1>4, Names, Distinct
<1>6. Stages' /\ Uploads' /\ Downloads' /\ Exact'
  BY <1>1 DEF Stages, Uploads, Downloads, Exact
<1>7. Inputs'
  <2>1. \A i \in 1 .. piece - 1 : dev'[Piece(i)] = dev[Piece(i)]
    <3> TAKE i \in 1 .. piece - 1
    <3>1. i \in 1 .. Pieces
      BY SizeAssumption DEF TypeOK
    <3> QED
      BY <1>4, <3>1, Names, Distinct
  <2>2. dev'[In] = dev[In]
    BY <1>4, Names, Distinct
  <2> QED
    BY <1>1, <2>1, <2>2 DEF Inputs, Arrives
<1>8. ReadBack'
  BY <1>1, <1>5 DEF ReadBack
<1>9. \A k \in 1 .. Len(queue') : \E m \in 1 .. Len(queue) :
        queue'[k].started = queue[m].started /\ queue'[k].value = queue[m].value
  <2>1. CASE queue' = Tail(queue)
    <3>1. /\ Len(queue') = Len(queue) - 1
          /\ \A k \in 1 .. Len(queue) - 1 : queue'[k] = queue[k + 1]
      BY <1>2, <2>1, HeadTailProperties
    <3> TAKE k \in 1 .. Len(queue')
    <3>2. k + 1 \in 1 .. Len(queue) /\ queue'[k] = queue[k + 1]
      BY <1>2, <3>1
    <3> QED
      BY <3>2
  <2>2. CASE queue' = [queue EXCEPT ![1].out = @ \ {w}]
    <3> DEFINE e == [queue[1] EXCEPT !.out = @ \ {w}]
    <3>1. e \in Task /\ e.started = queue[1].started /\ e.value = queue[1].value
      BY <1>2 DEF Task
    <3>2. queue' = [queue EXCEPT ![1] = e]
      BY <2>2
    <3> HIDE DEF e
    <3>3. /\ Len(queue') = Len(queue)
          /\ \A k \in 1 .. Len(queue) : queue'[k] = IF k = 1 THEN e ELSE queue[k]
      BY <1>2, <3>1, <3>2, ExceptSeq
    <3> TAKE k \in 1 .. Len(queue')
    <3>4. CASE k = 1
      BY <1>2, <3>1, <3>3, <3>4
    <3>5. CASE k # 1
      BY <3>3, <3>5
    <3> QED
      BY <3>4, <3>5
  <2> QED
    BY <2>1, <2>2 DEF Write
<1>10. Written'
  <2> SUFFICES ASSUME at \in {"copy", "spin", "logits", "logits_spin"}
               PROVE  /\ \A k \in 1 .. Len(queue') : queue'[k].started =>
                           queue'[k].value = Result[input] /\ dev'[Logits] = All(Result[input])
                      /\ \A u \in Word : dev'[Out][u] # Sentinel =>
                           dev'[Out][u] = Result[input] /\ dev'[Logits] = All(Result[input])
    BY <1>1 DEF Written
  <2>1. \A k \in 1 .. Len(queue) : queue[k].started =>
          queue[k].value = Result[input] /\ dev[Logits] = All(Result[input])
    BY DEF Written
  <2>2. queue[1].value = Result[input] /\ dev[Logits] = All(Result[input])
    BY <1>2, <2>1
  <2>3. \A u \in Word : dev'[Out][u] # Sentinel => dev'[Out][u] = Result[input]
    BY <1>4, <2>2 DEF Written
  <2>4. \A k \in 1 .. Len(queue') : queue'[k].started => queue'[k].value = Result[input]
    BY <1>9, <2>1
  <2> QED
    BY <1>5, <2>2, <2>3, <2>4
<1> QED
  BY <1>6, <1>7, <1>8, <1>10

\* Something is enqueued to the device: what was on its way still is, and the
\* buffer enqueued is on its way to its tensor.
LEMMA ArrivesMore ==
  ASSUME TypeOK, NEW s \in Pinned, NEW d \in Tensor, h2d' = Enqueue(h2d, s, d), dev' = dev
  PROVE  /\ \A t, v : Arrives(t, v) =>
              \A u \in Word :
                dev'[t][u] = v \/ \E k \in 1 .. Len(h2d') : h2d'[k].dst = t /\ u \in h2d'[k].left
         /\ \A u \in Word : \E k \in 1 .. Len(h2d') : h2d'[k].dst = d /\ u \in h2d'[k].left
<1>1. /\ Len(h2d) \in Nat /\ Len(h2d') = Len(h2d) + 1
      /\ h2d'[Len(h2d) + 1] = [src |-> s, dst |-> d, left |-> Word]
      /\ \A i \in 1 .. Len(h2d) : h2d'[i] = h2d[i]
  <2>1. Extended(h2d, h2d', s, d)
    BY EnqueueIs DEF TypeOK
  <2> QED
    BY <2>1 DEF Extended, TypeOK
<1>2. ASSUME NEW u \in Word
      PROVE  \E k \in 1 .. Len(h2d') : h2d'[k].dst = d /\ u \in h2d'[k].left
  <2>1. /\ Len(h2d) + 1 \in 1 .. Len(h2d')
        /\ h2d'[Len(h2d) + 1].dst = d /\ u \in h2d'[Len(h2d) + 1].left
    BY <1>1
  <2> QED
    BY <2>1
<1>3. ASSUME NEW t, NEW v, Arrives(t, v), NEW u \in Word
      PROVE  dev'[t][u] = v \/ \E k \in 1 .. Len(h2d') : h2d'[k].dst = t /\ u \in h2d'[k].left
  <2>1. CASE dev[t][u] = v
    BY <2>1
  <2>2. CASE \E k \in 1 .. Len(h2d) : h2d[k].dst = t /\ u \in h2d[k].left
    <3>1. PICK k \in 1 .. Len(h2d) : h2d[k].dst = t /\ u \in h2d[k].left
      BY <2>2
    <3>2. k \in 1 .. Len(h2d') /\ h2d'[k] = h2d[k]
      BY <1>1
    <3> QED
      BY <3>1, <3>2
  <2> QED
    BY <1>3, <2>1, <2>2 DEF Arrives
<1> QED
  BY <1>2, <1>3

\* No copy to the host is under way where the host does not wait for one.
LEMMA NoDownload ==
  ASSUME Downloads, at \notin {"fence_spin", "spin", "logits_spin", "failed"}
  PROVE  d2h = <<>>
BY DEF Downloads

\* The pattern is uploaded.
LEMMA FenceKeeps ==
  ASSUME TypeOK, Beliefs, Fence
  PROVE  Beliefs'
<1> USE DEF Beliefs
<1>1. /\ at = "fence" /\ at' = "fence_copy" /\ dev' = dev /\ d2h' = d2h /\ queue' = queue
      /\ next' = next /\ then' = then /\ piece' = piece /\ input' = input /\ answer' = answer
      /\ h2d' = Enqueue(h2d, FenceIn, FenceBuf)
      /\ host' = [host EXCEPT ![FenceIn] = All(Pattern[seq'])]
  BY DEF Fence, callVars
<1>2. \A b \in Pinned : b # FenceIn => host'[b] = host[b]
  BY <1>1 DEF TypeOK
<1>3. /\ Len(h2d) \in Nat /\ Len(h2d') = Len(h2d) + 1
      /\ h2d'[Len(h2d) + 1] = [src |-> FenceIn, dst |-> FenceBuf, left |-> Word]
      /\ \A i \in 1 .. Len(h2d) : h2d'[i] = h2d[i]
  <2>1. Extended(h2d, h2d', FenceIn, FenceBuf)
    BY <1>1, Names, EnqueueIs DEF TypeOK
  <2> QED
    BY <2>1 DEF Extended, TypeOK
<1>4. d2h = <<>>
  BY <1>1, NoDownload
<1>5. Stages' /\ Downloads' /\ Written' /\ ReadBack' /\ Exact'
  BY <1>1, <1>4 DEF Stages, Downloads, Written, ReadBack, Exact
<1>6. Uploads'
  <2>1. host'[Up] = host[Up] /\ \A j \in 0 .. next - 1 : host'[Slot(j)] = host[Slot(j)]
    <3>1. \A j \in 0 .. next - 1 : j \in 0 .. Slots - 1
      BY SizeAssumption DEF TypeOK
    <3> QED
      BY <1>2, <3>1, Names
  <2>2. ASSUME NEW k \in 1 .. Len(h2d')
        PROVE  \/ \E j \in 0 .. next - 1, i \in 1 .. piece - 1 :
                    /\ h2d'[k].src = Slot(j) /\ h2d'[k].dst = Piece(i)
                    /\ host'[Slot(j)] = All(Content[i])
               \/ h2d'[k].src = Up /\ h2d'[k].dst = In /\ host'[Up] = All(input)
               \/ h2d'[k].src = FenceIn /\ h2d'[k].dst = FenceBuf
    <3>1. CASE k \in 1 .. Len(h2d)
      <4>1. h2d'[k] = h2d[k]
        BY <1>3, <3>1
      <4> QED
        BY <2>1, <3>1, <4>1 DEF Uploads
    <3>2. CASE k = Len(h2d) + 1
      BY <1>3, <3>2
    <3> QED
      BY <1>3, <3>1, <3>2
  <2> QED
    BY <1>1, <2>2 DEF Uploads
<1>7. Inputs'
  <2>1. ASSUME NEW t \in Tensor, NEW v, Arrives(t, v)
        PROVE  \A u \in Word : \/ dev'[t][u] = v
                               \/ \E k \in 1 .. Len(h2d') : h2d'[k].dst = t /\ u \in h2d'[k].left
    BY <1>1, <2>1, Names, ArrivesMore
  <2>2. \A i \in 1 .. piece - 1 : Piece(i) \in Tensor
    <3>1. \A i \in 1 .. piece - 1 : i \in 1 .. Pieces
      BY SizeAssumption DEF TypeOK
    <3> QED
      BY <3>1, Names
  <2>3. \A i \in 1 .. piece - 1 : \A u \in Word :
          \/ dev'[Piece(i)][u] = Content[i]
          \/ \E k \in 1 .. Len(h2d') : h2d'[k].dst = Piece(i) /\ u \in h2d'[k].left
    BY <2>1, <2>2 DEF Inputs
  <2>4. then = "fill" =>
          /\ input \in Input
          /\ \A u \in Word : \/ dev'[In][u] = input
                             \/ \E k \in 1 .. Len(h2d') : h2d'[k].dst = In /\ u \in h2d'[k].left
    BY <2>1, Names DEF Inputs
  <2> QED
    BY <1>1, <2>3, <2>4 DEF Inputs, Arrives
<1> QED
  BY <1>5, <1>6, <1>7

\* A copy to the host is enqueued: of the fence buffer, the output, the logits.
LEMMA CopyKeeps ==
  ASSUME TypeOK, Beliefs, NEW t \in Tensor, NEW b \in {FenceOut, HOut, HAux},
         h2d' = h2d, dev' = dev, queue' = queue, next' = next, then' = then, piece' = piece,
         input' = input, answer' = answer, d2h' = Enqueue(d2h, t, b),
         host' = [host EXCEPT ![b] = All(HostSentinel)],
         \/ at = "fence_copy" /\ at' = "fence_spin" /\ b = FenceOut
         \/ at = "copy" /\ at' = "spin" /\ t = Out /\ b = HOut
         \/ at = "logits" /\ at' = "logits_spin" /\ t = Logits /\ b = HAux
  PROVE  Beliefs'
<1> USE DEF Beliefs
<1>1. b \in Pinned
  BY Names
<1>2. host'[b] = All(HostSentinel) /\ \A p \in Pinned : p # b => host'[p] = host[p]
  BY <1>1 DEF TypeOK
<1>3. d2h = <<>>
  BY NoDownload
<1>4. /\ Len(d2h') = 1
      /\ d2h'[1].src = t /\ d2h'[1].dst = b /\ d2h'[1].left = Word
  <2>1. Extended(d2h, d2h', t, b)
    BY <1>1, EnqueueIs DEF TypeOK
  <2>2. Len(d2h) = 0
    BY <1>3
  <2> QED
    BY <2>1, <2>2 DEF Extended
<1>5. Stages' /\ Inputs' /\ Exact'
  BY DEF Stages, Inputs, Arrives, Exact
<1>6. Written'
  BY DEF Written
<1>7. Uploads'
  <2>1. host'[Up] = host[Up] /\ \A j \in 0 .. next - 1 : host'[Slot(j)] = host[Slot(j)]
    <3>1. \A j \in 0 .. next - 1 : j \in 0 .. Slots - 1
      BY SizeAssumption DEF TypeOK
    <3> QED
      BY <1>2, <3>1, Names, Distinct
  <2> QED
    BY <2>1 DEF Uploads
<1>8. Downloads'
  <2>1. 1 \in Word
    BY SizeAssumption DEF Word
  <2>2. \A w \in Word : host'[b][w] = HostSentinel
    BY <1>2 DEF All
  <2>3. \A k \in 1 .. Len(d2h') : k = 1
    BY <1>4
  <2> QED
    BY <1>4, <2>1, <2>2, <2>3 DEF Downloads
<1>9. ReadBack'
  <2>1. CASE at = "fence_copy"
    BY <2>1 DEF ReadBack
  <2>2. CASE at = "copy"
    <3>1. at' = "spin" /\ \A w \in Word : host'[HOut][w] = HostSentinel
      BY <1>2, <2>2 DEF All
    <3> QED
      BY <3>1 DEF ReadBack
  <2>3. CASE at = "logits"
    <3>1. at' = "logits_spin" /\ b = HAux
      BY <2>3
    <3>2. host'[HOut] = host[HOut] /\ \A w \in Word : host'[HAux][w] = HostSentinel
      BY <1>2, <3>1, Names, Distinct DEF All
    <3> QED
      BY <2>3, <3>1, <3>2 DEF ReadBack
  <2> QED
    BY <2>1, <2>2, <2>3
<1> QED
  BY <1>5, <1>6, <1>7, <1>8, <1>9

\* A piece goes out through the next slot, which no earlier one of this round
\* reads.
LEMMA StageKeeps ==
  ASSUME TypeOK, Beliefs, Stage
  PROVE  Beliefs'
<1> USE DEF Beliefs
<1>1. /\ at = "stage" /\ at' = at /\ dev' = dev /\ d2h' = d2h /\ queue' = queue
      /\ next' = next + 1 /\ then' = then /\ piece' = piece + 1 /\ input' = input
      /\ answer' = answer
      /\ h2d' = Enqueue(h2d, Slot(next), Piece(piece))
      /\ host' = [host EXCEPT ![Slot(next)] = All(Content[piece])]
      /\ next \in 0 .. Slots - 1 /\ piece \in 1 .. Pieces
  BY SizeAssumption DEF Stage, FreeSlot, TypeOK
<1>2. Slot(next) \in Pinned /\ Piece(piece) \in Tensor
  BY <1>1, Names
<1>3. /\ host'[Slot(next)] = All(Content[piece])
      /\ \A b \in Pinned : b # Slot(next) => host'[b] = host[b]
  BY <1>1, <1>2 DEF TypeOK
<1>4. /\ Len(h2d) \in Nat /\ Len(h2d') = Len(h2d) + 1
      /\ h2d'[Len(h2d) + 1] = [src |-> Slot(next), dst |-> Piece(piece), left |-> Word]
      /\ \A i \in 1 .. Len(h2d) : h2d'[i] = h2d[i]
  <2>1. Extended(h2d, h2d', Slot(next), Piece(piece))
    BY <1>1, <1>2, EnqueueIs DEF TypeOK
  <2> QED
    BY <2>1 DEF Extended, TypeOK
<1>5. d2h = <<>>
  BY <1>1, NoDownload
<1>6. Stages' /\ Downloads' /\ Written' /\ ReadBack' /\ Exact'
  BY <1>1, <1>5 DEF Stages, Downloads, Written, ReadBack, Exact
<1>7. Uploads'
  <2>1. host'[Up] = host[Up] /\ \A j \in 0 .. next - 1 : host'[Slot(j)] = host[Slot(j)]
    <3>1. \A j \in 0 .. next - 1 : j \in 0 .. Slots - 1 /\ j # next
      BY <1>1, SizeAssumption
    <3> QED
      BY <1>1, <1>3, <3>1, Names, Distinct
  <2>2. ASSUME NEW k \in 1 .. Len(h2d')
        PROVE  \/ \E j \in 0 .. next, i \in 1 .. piece :
                    /\ h2d'[k].src = Slot(j) /\ h2d'[k].dst = Piece(i)
                    /\ host'[Slot(j)] = All(Content[i])
               \/ h2d'[k].src = Up /\ h2d'[k].dst = In /\ host'[Up] = All(input)
               \/ h2d'[k].src = FenceIn /\ h2d'[k].dst = FenceBuf
    <3>1. CASE k \in 1 .. Len(h2d)
      <4>1. h2d'[k] = h2d[k]
        BY <1>4, <3>1
      <4>2. CASE \E j \in 0 .. next - 1, i \in 1 .. piece - 1 :
                   /\ h2d[k].src = Slot(j) /\ h2d[k].dst = Piece(i)
                   /\ host[Slot(j)] = All(Content[i])
        <5>1. PICK j \in 0 .. next - 1, i \in 1 .. piece - 1 :
                /\ h2d[k].src = Slot(j) /\ h2d[k].dst = Piece(i)
                /\ host[Slot(j)] = All(Content[i])
          BY <4>2
        <5>2. j \in 0 .. next /\ i \in 1 .. piece
          BY <1>1
        <5> QED
          BY <2>1, <4>1, <5>1, <5>2
      <4> QED
        BY <2>1, <3>1, <4>1, <4>2 DEF Uploads
    <3>2. CASE k = Len(h2d) + 1
      <4>1. next \in 0 .. next /\ piece \in 1 .. piece
        BY <1>1
      <4> QED
        BY <1>3, <1>4, <3>2, <4>1
    <3> QED
      BY <1>4, <3>1, <3>2
  <2>3. next' - 1 = next /\ piece' - 1 = piece
    BY <1>1
  <2> QED
    BY <1>1, <2>2, <2>3 DEF Uploads
<1>8. Inputs'
  <2>1. ASSUME NEW i \in 1 .. piece
        PROVE  \A u \in Word :
                 \/ dev'[Piece(i)][u] = Content[i]
                 \/ \E k \in 1 .. Len(h2d') : h2d'[k].dst = Piece(i) /\ u \in h2d'[k].left
    <3>1. i \in 1 .. Pieces /\ (i \in 1 .. piece - 1 \/ i = piece)
      BY <1>1, SizeAssumption
    <3>2. Piece(i) \in Tensor
      BY <3>1, Names
    <3>3. /\ Slot(next) \in Pinned /\ Piece(piece) \in Tensor /\ dev' = dev
          /\ h2d' = Enqueue(h2d, Slot(next), Piece(piece))
      BY <1>1, <1>2
    <3>4. CASE i \in 1 .. piece - 1
      <4>1. Arrives(Piece(i), Content[i])
        BY <3>4 DEF Inputs
      <4> QED
        BY <3>3, <4>1, ArrivesMore
    <3>5. CASE i = piece
      BY <3>3, <3>5, ArrivesMore
    <3> QED
      BY <3>1, <3>4, <3>5
  <2>2. then # "fill" /\ piece' - 1 = piece
    BY <1>1 DEF Stages
  <2> QED
    BY <1>1, <2>1, <2>2 DEF Inputs, Arrives
<1> QED
  BY <1>6, <1>7, <1>8

\* The output is filled and the launches are enqueued.
LEMMA FillKeeps ==
  ASSUME TypeOK, Fenced, Beliefs, Fill
  PROVE  Beliefs'
<1> USE DEF Beliefs
<1>1. /\ at = "fill" /\ at' = "copy" /\ host' = host /\ h2d' = h2d /\ d2h' = d2h
      /\ next' = next /\ then' = then /\ piece' = piece /\ input' = input
      /\ answer' = answer /\ queue' = Launches
      /\ dev' = [dev EXCEPT ![Out] = All(Sentinel)]
  BY DEF Fill, Filled, callVars
<1>2. dev'[Out] = All(Sentinel) /\ \A t \in Tensor : t # Out => dev'[t] = dev[t]
  BY <1>1, Names DEF TypeOK
<1>3. d2h = <<>>
  BY <1>1, NoDownload
<1>4. Stages' /\ Uploads' /\ Downloads' /\ ReadBack' /\ Exact'
  BY <1>1, <1>3 DEF Stages, Uploads, Downloads, ReadBack, Exact
<1>5. Inputs'
  <2>1. \A i \in 1 .. piece - 1 : dev'[Piece(i)] = dev[Piece(i)]
    <3> TAKE i \in 1 .. piece - 1
    <3>1. i \in 1 .. Pieces
      BY SizeAssumption DEF TypeOK
    <3> QED
      BY <1>2, <3>1, Names, Distinct
  <2>2. dev'[In] = dev[In]
    BY <1>2, Names, Distinct
  <2> QED
    BY <1>1, <2>1, <2>2 DEF Inputs, Arrives
<1>6. \A k \in 1 .. Len(queue') : ~queue'[k].started
  <2>1. CASE kind = "launch"
    <3>1. queue' = <<Launch(Word)>>
      BY <1>1, <2>1 DEF Launches
    <3> QED
      BY <3>1 DEF Launch
  <2>2. CASE kind # "launch"
    <3>1. queue' = [w \in 1 .. Words |-> Launch({w})]
      BY <1>1, <2>2 DEF Launches, Word
    <3>2. \A k \in 1 .. Words : ~queue'[k].started
      BY <3>1 DEF Launch
    <3>3. queue' \in Seq(Task)
      BY <1>1, TypeStep DEF Next, Host, TypeOK
    <3>4. DOMAIN queue' = 1 .. Len(queue')
      BY <3>3, LenProperties
    <3>5. DOMAIN queue' = 1 .. Words
      BY <3>1
    <3> QED
      BY <3>2, <3>4, <3>5
  <2> QED
    BY <2>1, <2>2
<1>7. Written'
  <2>1. \A w \in Word : dev'[Out][w] = Sentinel
    BY <1>2 DEF All
  <2> QED
    BY <1>6, <2>1 DEF Written
<1> QED
  BY <1>4, <1>5, <1>7

\* A caller's input goes out.
LEMMA UploadKeeps ==
  ASSUME TypeOK, Fenced, Beliefs, NEW v \in Input, NEW k \in {"launch", "loop"}, Upload(v, k)
  PROVE  Beliefs'
<1> USE DEF Beliefs
<1>1. /\ at = "idle" /\ at' = "fence" /\ dev' = dev /\ d2h' = d2h /\ queue' = queue
      /\ next' = next /\ then' = "fill" /\ piece' = piece /\ input' = v
      /\ answer' = {} /\ h2d' = Enqueue(h2d, Up, In)
      /\ host' = [host EXCEPT ![Up] = All(v)]
  BY DEF Upload, NoAnswer
<1>2. h2d = <<>> /\ d2h = <<>>
  BY <1>1, NoDownload DEF Fenced
<1>3. host'[Up] = All(v)
  BY <1>1, Names DEF TypeOK
<1>4. /\ Len(h2d') = 1
      /\ h2d'[1] = [src |-> Up, dst |-> In, left |-> Word]
  <2>1. Extended(h2d, h2d', Up, In)
    BY <1>1, Names, EnqueueIs DEF TypeOK
  <2>2. Len(h2d) = 0
    BY <1>2
  <2> QED
    BY <2>1, <2>2 DEF Extended
<1>5. Stages' /\ Downloads' /\ Written' /\ ReadBack' /\ Exact'
  BY <1>1, <1>2 DEF Stages, Downloads, Written, ReadBack, Exact, NoAnswer
<1>6. Uploads'
  <2>1. \A i \in 1 .. Len(h2d') : i = 1
    BY <1>4
  <2> QED
    BY <1>1, <1>3, <1>4, <2>1 DEF Uploads
<1>7. Inputs'
  <2>1. ASSUME NEW t \in Tensor, NEW x, Arrives(t, x)
        PROVE  \A u \in Word : \/ dev'[t][u] = x
                               \/ \E i \in 1 .. Len(h2d') : h2d'[i].dst = t /\ u \in h2d'[i].left
    BY <1>1, <2>1, Names, ArrivesMore
  <2>2. \A i \in 1 .. piece - 1 : Piece(i) \in Tensor
    <3>1. \A i \in 1 .. piece - 1 : i \in 1 .. Pieces
      BY SizeAssumption DEF TypeOK
    <3> QED
      BY <3>1, Names
  <2>3. \A i \in 1 .. piece - 1 : \A u \in Word :
          \/ dev'[Piece(i)][u] = Content[i]
          \/ \E j \in 1 .. Len(h2d') : h2d'[j].dst = Piece(i) /\ u \in h2d'[j].left
    BY <2>1, <2>2 DEF Inputs
  <2>4. \A u \in Word : \/ dev'[In][u] = v
                        \/ \E i \in 1 .. Len(h2d') : h2d'[i].dst = In /\ u \in h2d'[i].left
    BY <1>1, Names, ArrivesMore
  <2> QED
    BY <1>1, <2>3, <2>4 DEF Inputs, Arrives
<1> QED
  BY <1>5, <1>6, <1>7

LEMMA BeliefsInit == Init => Beliefs
<1> SUFFICES ASSUME Init PROVE Beliefs
  OBVIOUS
<1>1. /\ h2d = <<>> /\ d2h = <<>> /\ Len(h2d) = 0 /\ Len(d2h) = 0
      /\ at = "stage" /\ then = "built" /\ piece = 1 /\ answer = {}
  BY DEF Init, NoAnswer
<1>2. Stages /\ Written /\ ReadBack /\ Exact
  BY <1>1 DEF Stages, Written, ReadBack, Exact, NoAnswer
<1>3. Uploads /\ Inputs /\ Downloads
  BY <1>1 DEF Uploads, Inputs, Downloads
<1> QED
  BY <1>2, <1>3 DEF Beliefs

\* Every step keeps what the host believes.
LEMMA BeliefsStep ==
  ASSUME FenceInv, Beliefs, Conditions, [Next]_vars
  PROVE  Beliefs'
<1> USE DEF FenceInv
<1>1. ASSUME NEW w \in Word, LandUp(w) \/ LandDown(w) \/ Write(w) PROVE Beliefs'
  BY <1>1, LandUpKeeps, LandDownKeeps, WriteKeeps
<1>2. CASE Compute
  BY <1>2, ComputeKeeps
<1>3. CASE Fence
  BY <1>3, FenceKeeps
<1>4. CASE FenceCopy
  BY <1>4, CopyKeeps, Names DEF FenceCopy, callVars
<1>5. CASE FenceSpin
  BY <1>5, FenceSpinKeeps
<1>6. CASE Stage
  BY <1>6, StageKeeps
<1>7. CASE Fill
  BY <1>7, FillKeeps
<1>8. CASE ReadCopy
  BY <1>8, CopyKeeps, Names DEF ReadCopy, Refilled, callVars
<1>9. CASE ReadSpin
  BY <1>9, ReadSpinKeeps
<1>10. CASE LogitsCopy
  BY <1>10, CopyKeeps, Names DEF LogitsCopy, Refilled, callVars
<1>11. CASE Return
  BY <1>11, ReturnKeeps
<1>12. ASSUME NEW v \in Input, NEW k \in {"launch", "loop"}, Upload(v, k) PROVE Beliefs'
  BY <1>12, UploadKeeps
<1>13. CASE \/ Tick \/ StageWait \/ Built \/ Resident \/ Retry \/ GiveUp \/ UNCHANGED vars
            \/ \E p \in {"fence_spin", "spin", "logits_spin"}, b \in Pinned : Late(p, b)
  BY <1>13, WaitKeeps DEF Conditions
<1>14. \/ Late("fence_spin", FenceOut) \/ Late("spin", HOut) \/ Late("logits_spin", HAux)
       => \E p \in {"fence_spin", "spin", "logits_spin"}, b \in Pinned : Late(p, b)
  BY Names
<1> QED
  BY <1>1, <1>2, <1>3, <1>4, <1>5, <1>6, <1>7, <1>8, <1>9, <1>10, <1>11, <1>12, <1>13, <1>14
  DEF Next, Device, Host, Caller

LEMMA IInvParts == IInv <=> FenceInv /\ Beliefs
BY DEF IInv, Beliefs

\* From the pieces staged at construction to the answer of a call, the host is
\* right about the device (runtime.rs, Staging, Fence::wait, read_once and the
\* loops around them).
THEOREM Invariant == Conditions => (Spec => []IInv)
<1> SUFFICES ASSUME Conditions PROVE Spec => []IInv
  OBVIOUS
<1>1. Init => IInv
  BY FencedInit, BeliefsInit, IInvParts
<1>2. IInv /\ [Next]_vars => IInv'
  <2> SUFFICES ASSUME IInv, [Next]_vars PROVE IInv'
    OBVIOUS
  <2>1. FenceInv /\ Beliefs
    BY IInvParts
  <2>2. TypeOK'
    BY <2>1, TypeStep DEF FenceInv
  <2>3. FenceInv'
    BY <2>1, <2>2, FencedStep DEF FenceInv
  <2>4. Beliefs'
    BY <2>1, BeliefsStep
  <2> QED
    BY <2>3, <2>4 DEF IInv, Beliefs
<1> QED
  BY <1>1, <1>2, PTL DEF Spec

\* An answer read back by polling, a word at a time, from engines that are not
\* ordered with each other is exactly what the recipe computes from the input
\* uploaded last: no word of it is stale, foreign or a sentinel, whatever the
\* results, the sentinels and what the memory held before.
THEOREM ExactAnswers == Conditions => (Spec => []Exact)
<1> SUFFICES ASSUME Conditions PROVE Spec => []Exact
  OBVIOUS
<1>1. Spec => []IInv
  BY Invariant
<1>2. IInv => Exact
  BY DEF IInv
<1> QED
  BY <1>1, <1>2, PTL

\* No pinned buffer is overwritten while an upload still reads it: not a slot of
\* the ring, the caller's staging buffer or the fence's pattern.
THEOREM SlotsAreKept == Conditions => (Spec => SlotsKept)
<1> DEFINE Kept == \A i \in 1 .. Len(h2d) : host'[h2d[i].src] = host[h2d[i].src]
<1> SUFFICES ASSUME Conditions PROVE Spec => [][Kept]_vars
  BY DEF SlotsKept
<1>1. Spec => []IInv
  BY Invariant
<1>2. IInv /\ [Next]_vars => [Kept]_vars
  <2> SUFFICES ASSUME IInv, Next PROVE Kept
    OBVIOUS
  <2> USE DEF IInv, FenceInv
  <2>1. CASE host' = host
    BY <2>1
  <2>2. ASSUME NEW b \in Pinned, \A p \in Pinned : p # b => host'[p] = host[p],
               \A i \in 1 .. Len(h2d) : h2d[i].src # b
        PROVE  Kept
    <3> SUFFICES ASSUME NEW i \in 1 .. Len(h2d) PROVE host'[h2d[i].src] = host[h2d[i].src]
      OBVIOUS
    <3>1. h2d[i] \in Copy(Pinned, Tensor)
      BY DEF TypeOK
    <3> QED
      BY <2>2, <3>1 DEF Copy
  <2>3. \A i \in 1 .. Len(h2d) :
          \/ \E j \in 0 .. next - 1 : j \in 0 .. Slots - 1 /\ h2d[i].src = Slot(j)
          \/ h2d[i].src = Up
          \/ h2d[i].src = FenceIn /\ h2d[i].dst = FenceBuf
    <3>1. \A j \in 0 .. next - 1 : j \in 0 .. Slots - 1
      BY SizeAssumption DEF TypeOK
    <3> QED
      BY <3>1 DEF Uploads
  <2>4. \A i \in 1 .. Len(h2d) : h2d[i].src \notin {FenceOut, HOut, HAux}
    BY <2>3, Names, Distinct
  <2>5. ASSUME NEW w \in Word, LandDown(w) PROVE Kept
    <3>1. d2h \in Seq(Copy(Tensor, Pinned)) /\ d2h # <<>>
      BY <2>5 DEF LandDown, TypeOK
    <3>2. Head(d2h) = d2h[1] /\ 1 \in 1 .. Len(d2h)
      BY <3>1, First
    <3>3. d2h[1].dst \in {FenceOut, HOut, HAux}
      BY <3>2 DEF FenceRead
    <3>4. \A p \in Pinned : p # d2h[1].dst => host'[p] = host[p]
      BY <2>5, <3>2 DEF LandDown, TypeOK
    <3> QED
      BY <2>2, <2>4, <3>3, <3>4, Names
  <2>6. CASE Fence
    <3>1. \A i \in 1 .. Len(h2d) : h2d[i].src # FenceIn
      <4> TAKE i \in 1 .. Len(h2d)
      <4>1. h2d[i].dst # FenceBuf
        BY <2>6 DEF Fence, FenceOrder
      <4> QED
        BY <2>3, <4>1, Names
    <3>2. \A p \in Pinned : p # FenceIn => host'[p] = host[p]
      BY <2>6 DEF Fence, TypeOK
    <3> QED
      BY <2>2, <3>1, <3>2, Names
  <2>7. CASE FenceCopy
    <3>1. \A p \in Pinned : p # FenceOut => host'[p] = host[p]
      BY <2>7 DEF FenceCopy, TypeOK
    <3> QED
      BY <2>2, <2>4, <3>1, Names
  <2>8. CASE Stage
    <3>1. next \in 0 .. Slots - 1
      BY <2>8, SizeAssumption DEF Stage, TypeOK
    <3>2. \A p \in Pinned : p # Slot(next) => host'[p] = host[p]
      BY <2>8 DEF Stage, FreeSlot, TypeOK
    <3>3. \A i \in 1 .. Len(h2d) : h2d[i].src # Slot(next)
      <4> TAKE i \in 1 .. Len(h2d)
      <4>1. \A j \in 0 .. next - 1 : j # next
        BY <3>1
      <4> QED
        BY <2>3, <3>1, <4>1, Names, Distinct
    <3> QED
      BY <2>2, <3>1, <3>2, <3>3, Names
  <2>9. CASE ReadCopy
    <3>1. \A p \in Pinned : p # HOut => host'[p] = host[p]
      BY <2>9 DEF ReadCopy, Refilled, TypeOK
    <3> QED
      BY <2>2, <2>4, <3>1, Names
  <2>10. CASE LogitsCopy
    <3>1. \A p \in Pinned : p # HAux => host'[p] = host[p]
      BY <2>10 DEF LogitsCopy, Refilled, TypeOK
    <3> QED
      BY <2>2, <2>4, <3>1, Names
  <2>11. ASSUME NEW v \in Input, NEW k \in {"launch", "loop"}, Upload(v, k) PROVE Kept
    <3>1. Len(h2d) = 0
      BY <2>11 DEF Upload, Fenced
    <3> QED
      BY <3>1
  <2>12. \/ host' = host
         \/ \E w \in Word : LandDown(w)
         \/ Fence \/ FenceCopy \/ Stage \/ ReadCopy \/ LogitsCopy
         \/ \E v \in Input, k \in {"launch", "loop"} : Upload(v, k)
    BY DEF Next, Device, Host, Caller, LandUp, Write, Compute, FenceSpin, StageWait, Built,
           Fill, ReadSpin, Return, Late, Resident, Retry, Tick, GiveUp, vars
  <2> QED
    BY <2>1, <2>5, <2>6, <2>7, <2>8, <2>9, <2>10, <2>11, <2>12
<1> QED
  BY <1>1, <1>2, PTL DEF Spec

\* A buffer is filled with the host sentinel, and a copy into it enqueued, only
\* when no copy to the host is still landing: a word of an old copy cannot pass
\* for one of a new copy.
THEOREM CopiesAreAlone == Conditions => (Spec => OneCopyAtATime)
<1> DEFINE Alone ==
      Len(d2h') > Len(d2h) => \A i \in 1 .. Len(d2h) : d2h[i].dst # d2h'[Len(d2h')].dst
<1> SUFFICES ASSUME Conditions PROVE Spec => [][Alone]_vars
  BY DEF OneCopyAtATime
<1>1. Spec => []IInv
  BY Invariant
<1>2. IInv /\ [Next]_vars => [Alone]_vars
  <2> SUFFICES ASSUME IInv, Next PROVE Alone
    OBVIOUS
  <2> USE DEF IInv, FenceInv
  <2>1. CASE d2h' = d2h
    BY <2>1 DEF TypeOK
  <2>2. CASE FenceCopy \/ ReadCopy \/ LogitsCopy
    <3>1. d2h = <<>> /\ Len(d2h) = 0
      BY <2>2, NoDownload DEF FenceCopy, ReadCopy, LogitsCopy
    <3> QED
      BY <3>1
  <2>3. ASSUME NEW w \in Word, LandDown(w) PROVE Alone
    <3>1. Popped(d2h, d2h', w)
      BY <2>3, LandedIs DEF LandDown, TypeOK
    <3>2. Len(d2h) \in Nat
      BY DEF TypeOK
    <3>3. ~(Len(d2h') > Len(d2h))
      BY <3>1, <3>2 DEF Popped
    <3> QED
      BY <3>3
  <2>4. d2h' = d2h \/ FenceCopy \/ ReadCopy \/ LogitsCopy \/ \E w \in Word : LandDown(w)
    BY DEF Next, Device, Host, Caller, LandUp, Write, Compute, Fence, FenceSpin, Stage, StageWait,
           Built, Fill, ReadSpin, Return, Late, Upload, Resident, Retry, Tick, GiveUp, vars,
           deviceVars
  <2> QED
    BY <2>1, <2>2, <2>3, <2>4
<1> QED
  BY <1>1, <1>2, PTL DEF Spec
=============================================================================
