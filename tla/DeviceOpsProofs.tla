-------------------------- MODULE DeviceOpsProofs ---------------------------
(***************************************************************************)
(* Proofs about DeviceOps, for all programs, numbers of cards, calls and   *)
(* retries: only a failure leaks, nothing is given back that a queued copy *)
(* or launch may still use, and what is read back is what the CPU          *)
(* reference computes if the operation's graph computes it.  They rest on  *)
(* the order of the steps of every script, which is composed of parts; so  *)
(* the lemmas say what joining two parts keeps.  The last part is about    *)
(* NodeOrders: a launch's nodes may run in any order their tensors allow.  *)
(***************************************************************************)
EXTENDS DeviceOps, NodeOrders, TLAPS

Numbers == INSTANCE KvCacheProofs WITH Token <- {0}, Garbage <- 1

-----------------------------------------------------------------------------
(* Sequences.                                                              *)

LEMMA SeqIs ==
  ASSUME NEW s, IsSeq(s)
  PROVE  /\ Len(s) \in Nat /\ DOMAIN s = 1 .. Len(s)
         /\ s = <<>> <=> Len(s) = 0
BY DEF IsSeq

LEMMA InSeq ==
  ASSUME NEW X, NEW s \in Seq(X)
  PROVE  IsSeq(s)
BY DEF IsSeq

LEMMA OneIs ==
  ASSUME NEW x
  PROVE  IsSeq(<<x>>) /\ Len(<<x>>) = 1 /\ DOMAIN <<x>> = {1} /\ <<x>>[1] = x
BY DEF IsSeq

LEMMA NoneIs == IsSeq(<<>>) /\ Len(<<>>) = 0 /\ DOMAIN <<>> = {}
BY DEF IsSeq

\* st is s and then t, index by index.
Joins(s, t, st) ==
  /\ IsSeq(st)
  /\ Len(s) \in Nat /\ Len(t) \in Nat /\ Len(st) = Len(s) + Len(t)
  /\ DOMAIN s = 1 .. Len(s) /\ DOMAIN t = 1 .. Len(t)
  /\ DOMAIN st = 1 .. (Len(s) + Len(t))
  /\ \A i \in 1 .. Len(s) : st[i] = s[i]
  /\ \A i \in 1 .. Len(t) : st[Len(s) + i] = t[i]
  /\ \A i \in 1 .. (Len(s) + Len(t)) :
       i \in 1 .. Len(s) \/ \E j \in 1 .. Len(t) : i = Len(s) + j

LEMMA Joined ==
  ASSUME NEW s, IsSeq(s), NEW t, IsSeq(t)
  PROVE  Joins(s, t, s \o t)
<1> DEFINE X == {s[j] : j \in DOMAIN s} \cup {t[j] : j \in DOMAIN t}
           st == s \o t
<1>1. s \in Seq(X) /\ t \in Seq(X)
  BY DEF IsSeq
<1> HIDE DEF X
<1>2. st \in Seq(X)
  BY <1>1
<1>3. IsSeq(st)
  BY <1>2, InSeq, Zenon
<1>4. Len(s) \in Nat /\ Len(t) \in Nat /\ Len(st) = Len(s) + Len(t)
  BY <1>1
<1>5. DOMAIN st = 1 .. (Len(s) + Len(t)) /\ DOMAIN s = 1 .. Len(s) /\ DOMAIN t = 1 .. Len(t)
  BY <1>1, <1>2, <1>4
<1>6. /\ \A i \in 1 .. Len(s) : st[i] = s[i]
      /\ \A i \in 1 .. Len(t) : st[Len(s) + i] = t[i]
  BY <1>1, <1>4
<1>7. ASSUME NEW i \in 1 .. (Len(s) + Len(t)), i \notin 1 .. Len(s)
      PROVE  \E j \in 1 .. Len(t) : i = Len(s) + j
  <2>1. i - Len(s) \in 1 .. Len(t) /\ i = Len(s) + (i - Len(s))
    BY <1>4, <1>7
  <2> QED
    BY <2>1
<1> HIDE DEF st
<1>8. Joins(s, t, st)
  BY <1>3, <1>4, <1>5, <1>6, <1>7 DEF Joins
<1> QED
  BY <1>8 DEF st

LEMMA TailIs ==
  ASSUME NEW s, IsSeq(s), s # <<>>
  PROVE  /\ IsSeq(Tail(s)) /\ Len(Tail(s)) = Len(s) - 1 /\ Len(s) \in Nat \ {0}
         /\ DOMAIN Tail(s) = 1 .. (Len(s) - 1)
         /\ \A i \in 1 .. (Len(s) - 1) : Tail(s)[i] = s[i + 1]
         /\ Head(s) = s[1]
<1> DEFINE X == {s[j] : j \in DOMAIN s}
<1>1. s \in Seq(X)
  BY DEF IsSeq
<1> HIDE DEF X
<1>2. Tail(s) \in Seq(X) /\ Len(s) \in Nat \ {0} /\ Len(Tail(s)) = Len(s) - 1
  BY <1>1
<1>3. IsSeq(Tail(s))
  BY <1>2, InSeq, Zenon
<1>4. DOMAIN Tail(s) = 1 .. (Len(s) - 1)
  BY <1>2
<1>5. \A i \in 1 .. (Len(s) - 1) : Tail(s)[i] = s[i + 1]
  BY <1>1
<1>6. Head(s) = s[1]
  BY <1>1
<1> QED
  BY <1>2, <1>3, <1>4, <1>5, <1>6

-----------------------------------------------------------------------------
(* Parts of scripts.                                                       *)

\* Steps of operation k before anything is queued, which acquire kinds K.
Preparing(s, K, k) ==
  /\ IsSeq(s)
  /\ \A i \in DOMAIN s :
       /\ s[i].k = k /\ s[i].do # "free" /\ ~Queues(s[i])
       /\ Acquires(s[i]) => KindOf(s[i]) \in K

\* Steps of the operations D that use what is in has, and wait.
Running(s, has, D) ==
  /\ IsSeq(s) /\ Waits(s)
  /\ \A i \in DOMAIN s :
       /\ s[i].k \in D /\ s[i].do # "free" /\ ~Acquires(s[i])
       /\ Queues(s[i]) => Uses(s[i].do, s[i].arg) \subseteq has

\* In order, if what is in has is there.
Sound(s, has) == IsSeq(s) /\ GivesBack(s) /\ Waits(s) /\ Supplied(s, has)

LEMMA JoinPreparing ==
  ASSUME NEW s, NEW t, NEW K, NEW k, Preparing(s, K, k), Preparing(t, K, k)
  PROVE  Preparing(s \o t, K, k)
<1> DEFINE st == s \o t
           n == Len(s)
           m == Len(t)
<1>0. Joins(s, t, st)
  BY Joined DEF Preparing
<1>1. /\ \A j \in 1 .. n : st[j] = s[j]
      /\ \A j \in 1 .. m : st[n + j] = t[j]
      /\ \A i \in 1 .. (n + m) : i \in 1 .. n \/ \E j \in 1 .. m : i = n + j
      /\ DOMAIN s = 1 .. n /\ DOMAIN t = 1 .. m /\ DOMAIN st = 1 .. (n + m)
      /\ IsSeq(st)
  <2> HIDE DEF st
  <2> QED
    BY <1>0 DEF Joins
<1> HIDE DEF st, n, m
<1>2. ASSUME NEW i \in 1 .. n
      PROVE  /\ st[i].k = k /\ st[i].do # "free" /\ ~Queues(st[i])
             /\ Acquires(st[i]) => KindOf(st[i]) \in K
  BY <1>1 DEF Preparing
<1>3. ASSUME NEW i \in 1 .. (n + m), NEW j \in 1 .. m, i = n + j
      PROVE  /\ st[i].k = k /\ st[i].do # "free" /\ ~Queues(st[i])
             /\ Acquires(st[i]) => KindOf(st[i]) \in K
  <2>1. st[i] = t[j]
    BY <1>1, <1>3
  <2> QED
    BY <1>1, <2>1 DEF Preparing
<1>4. Preparing(st, K, k)
  BY <1>0, <1>1, <1>2, <1>3 DEF Preparing
<1> QED
  BY <1>4 DEF st

\* A wait stays where it is.
LEMMA WaitedLeft ==
  ASSUME NEW s, IsSeq(s), NEW t, IsSeq(t), NEW i \in Nat, Waited(s, i)
  PROVE  Waited(s \o t, i)
<1> DEFINE st == s \o t
<1>0. Joins(s, t, st)
  BY Joined
<1>1. /\ Len(s) \in Nat /\ Len(t) \in Nat /\ Len(st) = Len(s) + Len(t)
      /\ \A j \in 1 .. Len(s) : st[j] = s[j]
  <2> HIDE DEF st
  <2> QED
    BY <1>0 DEF Joins
<1>2. PICK j \in (i + 1) .. Len(s) : s[j].do = "sync" /\ \A f \in (i + 1) .. j : s[f].do # "free"
  BY DEF Waited, Keeps
<1> HIDE DEF st
<1>3. j \in (i + 1) .. Len(st) /\ st[j].do = "sync"
  BY <1>1, <1>2
<1>4. \A f \in (i + 1) .. j : st[f].do # "free"
  BY <1>1, <1>2
<1>5. Waited(st, i)
  BY <1>3, <1>4 DEF Waited, Keeps
<1> QED
  BY <1>5 DEF st

LEMMA WaitedRight ==
  ASSUME NEW s, IsSeq(s), NEW t, IsSeq(t), NEW i \in Nat, Waited(t, i)
  PROVE  Waited(s \o t, Len(s) + i)
<1> DEFINE st == s \o t
           n == Len(s)
<1>0. Joins(s, t, st)
  BY Joined
<1>1. /\ n \in Nat /\ Len(t) \in Nat /\ Len(st) = n + Len(t)
      /\ \A j \in 1 .. Len(t) : st[n + j] = t[j]
  <2> HIDE DEF st
  <2> QED
    BY <1>0 DEF Joins
<1>2. PICK j \in (i + 1) .. Len(t) : t[j].do = "sync" /\ \A f \in (i + 1) .. j : t[f].do # "free"
  BY DEF Waited, Keeps
<1> HIDE DEF st, n
<1>3. n + j \in (n + i + 1) .. Len(st) /\ st[n + j].do = "sync"
  BY <1>1, <1>2
<1>4. ASSUME NEW f \in (n + i + 1) .. (n + j) PROVE st[f].do # "free"
  <2>1. f - n \in (i + 1) .. j /\ f - n \in 1 .. Len(t) /\ f = n + (f - n)
    BY <1>1, <1>2
  <2>2. st[f] = t[f - n]
    BY <1>1, <2>1
  <2> QED
    BY <1>2, <2>1, <2>2
<1>5. Waited(st, n + i)
  BY <1>3, <1>4 DEF Waited, Keeps
<1> QED
  BY <1>5 DEF st, n

LEMMA JoinWaits ==
  ASSUME NEW s, IsSeq(s), NEW t, IsSeq(t), Waits(s), Waits(t)
  PROVE  Waits(s \o t)
<1> DEFINE st == s \o t
           n == Len(s)
           m == Len(t)
<1>0. Joins(s, t, st)
  BY Joined
<1>1. /\ \A j \in 1 .. n : st[j] = s[j]
      /\ \A j \in 1 .. m : st[n + j] = t[j]
      /\ \A i \in 1 .. (n + m) : i \in 1 .. n \/ \E j \in 1 .. m : i = n + j
      /\ DOMAIN s = 1 .. n /\ DOMAIN t = 1 .. m /\ DOMAIN st = 1 .. (n + m)
  <2> HIDE DEF st
  <2> QED
    BY <1>0 DEF Joins
<1>2. /\ \A j \in Nat : Waited(s, j) => Waited(st, j)
      /\ \A j \in Nat : Waited(t, j) => Waited(st, n + j)
  BY WaitedLeft, WaitedRight
<1> HIDE DEF st, n, m
<1>3. ASSUME NEW i \in DOMAIN st, Queues(st[i]), i \in 1 .. n PROVE Waited(st, i)
  BY <1>1, <1>2, <1>3 DEF Waits
<1>4. ASSUME NEW j \in 1 .. m, Queues(st[n + j]) PROVE Waited(st, n + j)
  <2>1. Queues(t[j])
    BY <1>1, <1>4
  <2> QED
    BY <1>1, <1>2, <2>1 DEF Waits
<1>5. Waits(st)
  BY <1>1, <1>3, <1>4 DEF Waits
<1> QED
  BY <1>5 DEF st

LEMMA JoinRunning ==
  ASSUME NEW s, NEW t, NEW has, NEW D, Running(s, has, D), Running(t, has, D)
  PROVE  Running(s \o t, has, D)
<1> DEFINE st == s \o t
           n == Len(s)
           m == Len(t)
<1>0. Joins(s, t, st) /\ Waits(st)
  BY Joined, JoinWaits DEF Running
<1>1. /\ \A j \in 1 .. n : st[j] = s[j]
      /\ \A j \in 1 .. m : st[n + j] = t[j]
      /\ \A i \in 1 .. (n + m) : i \in 1 .. n \/ \E j \in 1 .. m : i = n + j
      /\ DOMAIN s = 1 .. n /\ DOMAIN t = 1 .. m /\ DOMAIN st = 1 .. (n + m)
      /\ IsSeq(st)
  <2> HIDE DEF st
  <2> QED
    BY <1>0 DEF Joins
<1> HIDE DEF st, n, m
<1>2. ASSUME NEW i \in 1 .. n
      PROVE  /\ st[i].k \in D /\ st[i].do # "free" /\ ~Acquires(st[i])
             /\ Queues(st[i]) => Uses(st[i].do, st[i].arg) \subseteq has
  BY <1>1 DEF Running
<1>3. ASSUME NEW i \in 1 .. (n + m), NEW j \in 1 .. m, i = n + j
      PROVE  /\ st[i].k \in D /\ st[i].do # "free" /\ ~Acquires(st[i])
             /\ Queues(st[i]) => Uses(st[i].do, st[i].arg) \subseteq has
  <2>1. st[i] = t[j]
    BY <1>1, <1>3
  <2> QED
    BY <1>1, <2>1 DEF Running
<1>4. Running(st, has, D)
  BY <1>0, <1>1, <1>2, <1>3 DEF Running
<1> QED
  BY <1>4 DEF st

\* So is what gives back.
LEMMA FreedLeft ==
  ASSUME NEW s, IsSeq(s), NEW t, IsSeq(t), NEW i \in Nat, NEW kind, NEW k,
         FreedIn(s, i, kind, k)
  PROVE  FreedIn(s \o t, i, kind, k)
<1> DEFINE st == s \o t
<1>0. Joins(s, t, st)
  BY Joined
<1>1. /\ Len(s) \in Nat /\ Len(t) \in Nat /\ Len(st) = Len(s) + Len(t)
      /\ \A j \in 1 .. Len(s) : st[j] = s[j]
  <2> HIDE DEF st
  <2> QED
    BY <1>0 DEF Joins
<1> HIDE DEF st
<1>2. ASSUME NEW j \in (i + 1) .. Len(s), Frees(s[j], kind, k)
      PROVE  j \in (i + 1) .. Len(st) /\ Frees(st[j], kind, k)
  BY <1>1, <1>2
<1>3. FreedIn(st, i, kind, k)
  BY <1>2 DEF FreedIn
<1> QED
  BY <1>3 DEF st

LEMMA FreedRight ==
  ASSUME NEW s, IsSeq(s), NEW t, IsSeq(t), NEW i \in Nat, NEW kind, NEW k,
         FreedIn(t, i, kind, k)
  PROVE  FreedIn(s \o t, Len(s) + i, kind, k)
<1> DEFINE st == s \o t
           n == Len(s)
<1>0. Joins(s, t, st)
  BY Joined
<1>1. /\ n \in Nat /\ Len(t) \in Nat /\ Len(st) = n + Len(t)
      /\ \A j \in 1 .. Len(t) : st[n + j] = t[j]
  <2> HIDE DEF st
  <2> QED
    BY <1>0 DEF Joins
<1> HIDE DEF st, n
<1>2. ASSUME NEW j \in (i + 1) .. Len(t), Frees(t[j], kind, k)
      PROVE  n + j \in (n + i + 1) .. Len(st) /\ Frees(st[n + j], kind, k)
  BY <1>1, <1>2
<1>3. FreedIn(st, n + i, kind, k)
  BY <1>2 DEF FreedIn
<1> QED
  BY <1>3 DEF st, n

LEMMA FreedEarlier ==
  ASSUME NEW s, IsSeq(s), NEW i \in Nat, NEW l \in 0 .. i, NEW kind, NEW k,
         FreedIn(s, i, kind, k)
  PROVE  FreedIn(s, l, kind, k)
<1>1. Len(s) \in Nat
  BY SeqIs
<1> QED
  BY <1>1 DEF FreedIn

LEMMA JoinGivesBack ==
  ASSUME NEW s, IsSeq(s), NEW t, IsSeq(t), GivesBack(t),
         \A i \in DOMAIN s : Acquires(s[i]) =>
            FreedIn(s, i, KindOf(s[i]), s[i].k) \/ FreedIn(t, 0, KindOf(s[i]), s[i].k)
  PROVE  GivesBack(s \o t)
<1> DEFINE st == s \o t
           n == Len(s)
           m == Len(t)
<1>0. Joins(s, t, st)
  BY Joined
<1>1. /\ \A j \in 1 .. n : st[j] = s[j]
      /\ \A j \in 1 .. m : st[n + j] = t[j]
      /\ \A i \in 1 .. (n + m) : i \in 1 .. n \/ \E j \in 1 .. m : i = n + j
      /\ DOMAIN s = 1 .. n /\ DOMAIN t = 1 .. m /\ DOMAIN st = 1 .. (n + m)
      /\ n \in Nat /\ IsSeq(st)
  <2> HIDE DEF st
  <2> QED
    BY <1>0 DEF Joins
<1>2. \A i \in Nat : \A kind, k :
        /\ FreedIn(s, i, kind, k) => FreedIn(st, i, kind, k)
        /\ FreedIn(t, i, kind, k) => FreedIn(st, n + i, kind, k)
  BY FreedLeft, FreedRight
<1>3. ASSUME NEW kind, NEW k, FreedIn(t, 0, kind, k), NEW i \in 1 .. n
      PROVE  FreedIn(st, i, kind, k)
  <2>1. FreedIn(st, n + 0, kind, k)
    BY <1>3, FreedRight
  <2>2. n + 0 \in Nat /\ i \in 0 .. n + 0
    BY <1>1
  <2> HIDE DEF st, n
  <2> QED
    BY <1>1, <2>1, <2>2, FreedEarlier
<1> HIDE DEF st, n, m
<1>4. ASSUME NEW i \in DOMAIN st, Acquires(st[i]), i \in 1 .. n
      PROVE  FreedIn(st, i, KindOf(st[i]), st[i].k)
  <2> DEFINE kind == KindOf(s[i])
             k == s[i].k
  <2>1. st[i] = s[i] /\ i \in Nat /\ i \in DOMAIN s
    BY <1>1, <1>4
  <2>2. FreedIn(s, i, kind, k) \/ FreedIn(t, 0, kind, k)
    BY <1>4, <2>1
  <2> HIDE DEF kind, k
  <2>3. FreedIn(st, i, kind, k)
    BY <1>2, <1>3, <1>4, <2>1, <2>2
  <2> QED
    BY <2>1, <2>3 DEF kind, k
<1>5. ASSUME NEW j \in 1 .. m, Acquires(st[n + j])
      PROVE  FreedIn(st, n + j, KindOf(st[n + j]), st[n + j].k)
  <2> DEFINE kind == KindOf(t[j])
             k == t[j].k
  <2>1. st[n + j] = t[j] /\ j \in Nat /\ j \in DOMAIN t
    BY <1>1, <1>5
  <2>2. FreedIn(t, j, kind, k)
    BY <1>5, <2>1 DEF GivesBack
  <2> HIDE DEF kind, k
  <2>3. FreedIn(st, n + j, kind, k)
    BY <1>2, <2>1, <2>2
  <2> QED
    BY <2>1, <2>3 DEF kind, k
<1>6. GivesBack(st)
  BY <1>1, <1>4, <1>5 DEF GivesBack
<1> QED
  BY <1>6 DEF st

\* Parts that are in order of themselves.
LEMMA JoinSound ==
  ASSUME NEW s, NEW t, NEW has, Sound(s, has), Sound(t, {})
  PROVE  Sound(s \o t, has)
<1>1. /\ IsSeq(s) /\ GivesBack(s) /\ Waits(s) /\ Supplied(s, has)
      /\ IsSeq(t) /\ GivesBack(t) /\ Waits(t) /\ Supplied(t, {})
  BY DEF Sound
<1> DEFINE st == s \o t
           n == Len(s)
           m == Len(t)
<1>0. Joins(s, t, st)
  BY <1>1, Joined
<1>2. /\ \A j \in 1 .. n : st[j] = s[j]
      /\ \A j \in 1 .. m : st[n + j] = t[j]
      /\ \A i \in 1 .. (n + m) : i \in 1 .. n \/ \E j \in 1 .. m : i = n + j
      /\ DOMAIN s = 1 .. n /\ DOMAIN t = 1 .. m /\ DOMAIN st = 1 .. (n + m)
      /\ n \in Nat /\ m \in Nat /\ IsSeq(st)
  <2> HIDE DEF st
  <2> QED
    BY <1>0 DEF Joins
<1>3. GivesBack(st) /\ Waits(st)
  BY <1>1, JoinGivesBack, JoinWaits DEF GivesBack
<1> HIDE DEF st, n, m
<1>4. ASSUME NEW i \in 1 .. n, Queues(st[i]), NEW u \in Uses(st[i].do, st[i].arg)
      PROVE  \/ u \in has /\ Keeps(st, 1, i)
             \/ \E j \in 1 .. (i - 1) : Provides(st[j], u) /\ Keeps(st, j, i)
  <2>1. \A j \in 1 .. i : Keeps(s, j, i) => Keeps(st, j, i)
    BY <1>2 DEF Keeps
  <2>2. \/ u \in has /\ Keeps(s, 1, i)
        \/ \E j \in 1 .. (i - 1) : Provides(s[j], u) /\ Keeps(s, j, i)
    BY <1>1, <1>2, <1>4 DEF Supplied
  <2> QED
    BY <1>2, <2>1, <2>2
<1>5. ASSUME NEW i \in 1 .. m, NEW q \in Nat, q = n + i,
             Queues(st[q]), NEW u \in Uses(st[q].do, st[q].arg)
      PROVE  \E j \in 1 .. (q - 1) : Provides(st[j], u) /\ Keeps(st, j, q)
  <2>1. PICK j \in 1 .. (i - 1) : Provides(t[j], u) /\ Keeps(t, j, i)
    BY <1>1, <1>2, <1>5 DEF Supplied
  <2>2. ASSUME NEW f \in (n + j) .. q PROVE st[f].do # "free"
    <3>1. f - n \in j .. i /\ f - n \in 1 .. m /\ f = n + (f - n)
      BY <1>2, <1>5, <2>1
    <3> QED
      BY <1>2, <2>1, <3>1 DEF Keeps
  <2>3. n + j \in 1 .. (q - 1) /\ Provides(st[n + j], u)
    BY <1>2, <1>5, <2>1
  <2> QED
    BY <2>2, <2>3 DEF Keeps
<1>6. Supplied(st, has)
  <2> SUFFICES ASSUME NEW i \in DOMAIN st, Queues(st[i]), NEW u \in Uses(st[i].do, st[i].arg)
               PROVE  \/ u \in has /\ Keeps(st, 1, i)
                      \/ \E j \in 1 .. (i - 1) : Provides(st[j], u) /\ Keeps(st, j, i)
    BY DEF Supplied
  <2>1. CASE i \in 1 .. n
    BY <1>4, <2>1
  <2>2. ASSUME NEW j \in 1 .. m, i = n + j
        PROVE  \E l \in 1 .. (i - 1) : Provides(st[l], u) /\ Keeps(st, l, i)
    <3>1. i \in Nat /\ i = n + j
      BY <1>2, <2>2
    <3> QED
      BY <1>5, <3>1
  <2> QED
    BY <1>2, <2>1, <2>2
<1>7. Sound(st, has)
  BY <1>2, <1>3, <1>6 DEF Sound
<1> QED
  BY <1>7 DEF st

\* Runs, and the end that gives something back.
LEMMA Ended ==
  ASSUME NEW s, NEW has, NEW D, Running(s, has, D), NEW x, x.do = "free"
  PROVE  /\ Sound(s \o <<x>>, has)
         /\ \A kind, k : Frees(x, kind, k) => FreedIn(s \o <<x>>, 0, kind, k)
<1> DEFINE t == <<x>>
           st == s \o t
           n == Len(s)
<1>1. IsSeq(s) /\ IsSeq(t) /\ Len(t) = 1 /\ t[1] = x /\ DOMAIN t = {1}
  BY OneIs DEF Running
<1>2. ~Acquires(x) /\ ~Queues(x)
  BY DEF Acquires, Queues
<1> HIDE DEF t
<1>3. /\ \A j \in 1 .. n : st[j] = s[j]
      /\ st[n + 1] = t[1]
      /\ DOMAIN s = 1 .. n /\ DOMAIN st = 1 .. (n + 1)
      /\ n \in Nat /\ IsSeq(st) /\ Len(st) = n + 1
  <2>1. Joins(s, t, st)
    BY <1>1, Joined
  <2> HIDE DEF st
  <2> QED
    BY <1>1, <2>1 DEF Joins
<1>4. Waits(t) /\ GivesBack(t)
  BY <1>1, <1>2 DEF Waits, GivesBack
<1>5. Waits(st)
  BY <1>1, <1>4, JoinWaits DEF Running
<1>6. GivesBack(st)
  BY <1>1, <1>4, JoinGivesBack DEF Running
<1> HIDE DEF st, n
<1>7. \A i \in 1 .. n : st[i].do # "free" /\ (Queues(st[i]) => Uses(st[i].do, st[i].arg) \subseteq has)
  BY <1>3 DEF Running
<1>8. st[n + 1] = x
  BY <1>1, <1>3
<1>9. ASSUME NEW i \in DOMAIN st, Queues(st[i]), NEW u \in Uses(st[i].do, st[i].arg)
      PROVE  u \in has /\ Keeps(st, 1, i)
  <2>1. i \in 1 .. n
    BY <1>2, <1>3, <1>8, <1>9
  <2>2. \A f \in 1 .. i : f \in 1 .. n
    BY <1>3, <2>1
  <2> QED
    BY <1>7, <1>9, <2>1, <2>2 DEF Keeps
<1>10. Sound(st, has)
  BY <1>3, <1>5, <1>6, <1>9 DEF Sound, Supplied
<1>11. \A kind, k : Frees(x, kind, k) => FreedIn(st, 0, kind, k)
  <2> TAKE kind, k
  <2>1. n + 1 \in (0 + 1) .. Len(st)
    BY <1>3
  <2> QED
    BY <1>8, <2>1 DEF FreedIn
<1> QED
  BY <1>10, <1>11 DEF st, t

\* What is prepared before, of kinds that are given back after.
LEMMA Prepared ==
  ASSUME NEW s, NEW K, NEW k, Preparing(s, K, k), NEW t, NEW has, Sound(t, has),
         \A u \in has : \E i \in DOMAIN s : Provides(s[i], u),
         \A kind \in K : FreedIn(t, 0, kind, k)
  PROVE  Sound(s \o t, {})
<1>1. /\ IsSeq(s) /\ IsSeq(t) /\ GivesBack(t) /\ Waits(t) /\ Supplied(t, has)
      /\ \A i \in DOMAIN s : /\ s[i].k = k /\ s[i].do # "free" /\ ~Queues(s[i])
                             /\ Acquires(s[i]) => KindOf(s[i]) \in K
  BY DEF Preparing, Sound
<1> DEFINE st == s \o t
           n == Len(s)
           m == Len(t)
<1>0. Joins(s, t, st)
  BY <1>1, Joined
<1>2. /\ \A j \in 1 .. n : st[j] = s[j]
      /\ \A j \in 1 .. m : st[n + j] = t[j]
      /\ \A i \in 1 .. (n + m) : i \in 1 .. n \/ \E j \in 1 .. m : i = n + j
      /\ DOMAIN s = 1 .. n /\ DOMAIN t = 1 .. m /\ DOMAIN st = 1 .. (n + m)
      /\ n \in Nat /\ m \in Nat /\ IsSeq(st)
  <2> HIDE DEF st
  <2> QED
    BY <1>0 DEF Joins
<1>3. GivesBack(st)
  BY <1>1, JoinGivesBack
<1>4. Waits(st)
  <2>1. Waits(s)
    BY <1>1 DEF Waits
  <2> QED
    BY <1>1, <2>1, JoinWaits
<1> HIDE DEF st, n, m
<1>5. ASSUME NEW i \in 1 .. m, NEW q \in Nat, q = n + i,
             Queues(st[q]), NEW u \in Uses(st[q].do, st[q].arg)
      PROVE  \E j \in 1 .. (q - 1) : Provides(st[j], u) /\ Keeps(st, j, q)
  <2>1. \/ u \in has /\ Keeps(t, 1, i)
        \/ \E j \in 1 .. (i - 1) : Provides(t[j], u) /\ Keeps(t, j, i)
    BY <1>1, <1>2, <1>5 DEF Supplied
  <2>2. ASSUME NEW j \in 1 .. i, Keeps(t, j, i), NEW f \in (n + j) .. q PROVE st[f].do # "free"
    <3>1. f - n \in j .. i /\ f - n \in 1 .. m /\ f = n + (f - n)
      BY <1>2, <1>5, <2>2
    <3> QED
      BY <1>2, <2>2, <3>1 DEF Keeps
  <2>3. CASE u \in has /\ Keeps(t, 1, i)
    <3>1. PICK j \in 1 .. n : Provides(s[j], u)
      BY <1>2, <2>3
    <3>2. ASSUME NEW f \in j .. q PROVE st[f].do # "free"
      <4>1. CASE f \in 1 .. n
        BY <1>1, <1>2, <4>1
      <4>2. CASE f \notin 1 .. n
        <5>1. f \in (n + 1) .. q /\ 1 \in 1 .. i
          BY <1>2, <1>5, <4>2
        <5> QED
          BY <2>2, <2>3, <5>1
      <4> QED
        BY <4>1, <4>2
    <3>3. j \in 1 .. (q - 1) /\ Provides(st[j], u)
      BY <1>2, <1>5, <3>1
    <3> QED
      BY <3>2, <3>3 DEF Keeps
  <2>4. ASSUME NEW j \in 1 .. (i - 1), Provides(t[j], u), Keeps(t, j, i)
        PROVE  \E l \in 1 .. (q - 1) : Provides(st[l], u) /\ Keeps(st, l, q)
    <3>1. n + j \in 1 .. (q - 1) /\ Provides(st[n + j], u) /\ j \in 1 .. i
      BY <1>2, <1>5, <2>4
    <3>2. Keeps(st, n + j, q)
      BY <2>2, <2>4, <3>1 DEF Keeps
    <3> QED
      BY <3>1, <3>2
  <2> QED
    BY <2>1, <2>3, <2>4
<1>6. Supplied(st, {})
  <2> SUFFICES ASSUME NEW i \in DOMAIN st, Queues(st[i]), NEW u \in Uses(st[i].do, st[i].arg)
               PROVE  \E j \in 1 .. (i - 1) : Provides(st[j], u) /\ Keeps(st, j, i)
    BY DEF Supplied
  <2>1. i \notin 1 .. n
    BY <1>1, <1>2
  <2>2. PICK l \in 1 .. m : i = n + l
    BY <1>2, <2>1
  <2>3. i \in Nat
    BY <1>2
  <2> QED
    BY <1>5, <2>2, <2>3
<1>7. Sound(st, {})
  BY <1>2, <1>3, <1>4, <1>6 DEF Sound
<1> QED
  BY <1>7 DEF st

-----------------------------------------------------------------------------
(* The parts of an operation.                                              *)

Formed(op) == IsSeq(op.ins) /\ IsSeq(op.outs) /\ op.outs # <<>>

\* s acquires u.
Supplies(s, u) == \E i \in DOMAIN s : Provides(s[i], u)

LEMMA JoinSupplies ==
  ASSUME NEW s, IsSeq(s), NEW t, IsSeq(t), NEW u, Supplies(s, u) \/ Supplies(t, u)
  PROVE  Supplies(s \o t, u)
<1> DEFINE st == s \o t
           n == Len(s)
           m == Len(t)
<1>0. Joins(s, t, st)
  BY Joined
<1>1. /\ \A j \in 1 .. n : st[j] = s[j]
      /\ \A j \in 1 .. m : st[n + j] = t[j]
      /\ DOMAIN s = 1 .. n /\ DOMAIN t = 1 .. m /\ DOMAIN st = 1 .. (n + m)
      /\ n \in Nat /\ m \in Nat
  <2> HIDE DEF st
  <2> QED
    BY <1>0 DEF Joins
<1> HIDE DEF st, n, m
<1>2. CASE Supplies(s, u)
  <2>1. PICK i \in 1 .. n : Provides(s[i], u)
    BY <1>1, <1>2 DEF Supplies
  <2>2. i \in DOMAIN st /\ Provides(st[i], u)
    BY <1>1, <2>1
  <2> QED
    BY <2>2 DEF Supplies, st
<1>3. CASE Supplies(t, u)
  <2>1. PICK i \in 1 .. m : Provides(t[i], u)
    BY <1>1, <1>3 DEF Supplies
  <2>2. n + i \in DOMAIN st /\ Provides(st[n + i], u)
    BY <1>1, <2>1
  <2> QED
    BY <2>2 DEF Supplies, st
<1> QED
  BY <1>2, <1>3

\* s is the one step.
IsStep(s, do, arg, k) ==
  IsSeq(s) /\ Len(s) = 1 /\ DOMAIN s = {1} /\ s[1].do = do /\ s[1].arg = arg /\ s[1].k = k

LEMMA StepIs ==
  ASSUME NEW do, NEW arg, NEW k
  PROVE  IsStep(Step(do, arg, k), do, arg, k)
<1> DEFINE x == [do |-> do, arg |-> arg, k |-> k]
           s == <<x>>
<1>1. x.do = do /\ x.arg = arg /\ x.k = k
  OBVIOUS
<1> HIDE DEF x
<1>2. IsSeq(s) /\ Len(s) = 1 /\ DOMAIN s = {1} /\ s[1] = x
  BY OneIs
<1> HIDE DEF s
<1>3. IsStep(s, do, arg, k)
  BY <1>1, <1>2 DEF IsStep
<1> QED
  BY <1>3 DEF s, x, Step

LEMMA EachIs ==
  ASSUME NEW do, NEW bufs, IsSeq(bufs), NEW k
  PROVE  /\ IsSeq(Each(do, bufs, k)) /\ DOMAIN Each(do, bufs, k) = DOMAIN bufs
         /\ \A j \in DOMAIN bufs : /\ Each(do, bufs, k)[j].do = do
                                   /\ Each(do, bufs, k)[j].arg = bufs[j].name
                                   /\ Each(do, bufs, k)[j].k = k
<1> DEFINE e == Each(do, bufs, k)
           S == {e[j] : j \in DOMAIN e}
<1>1. DOMAIN e = 1 .. Len(bufs) /\ DOMAIN bufs = 1 .. Len(bufs) /\ Len(bufs) \in Nat
  BY SeqIs DEF Each
<1>2. e \in [1 .. Len(bufs) -> S]
  BY <1>1 DEF Each
<1>3. e \in Seq(S)
  BY <1>1, <1>2
<1>4. IsSeq(e)
  BY <1>3 DEF IsSeq
<1> QED
  BY <1>1, <1>4 DEF Each

LEMMA PreparingStep ==
  ASSUME NEW do, NEW arg, NEW k, NEW K,
         do \notin {"free", "upload", "launch", "download"},
         do = "make" => arg \in K,
         do \in {"card", "dev", "host", "ws"} => do \in K
  PROVE  Preparing(Step(do, arg, k), K, k)
<1> DEFINE s == Step(do, arg, k)
<1>0. IsStep(s, do, arg, k)
  BY StepIs
<1> HIDE DEF s
<1>1. IsSeq(s) /\ DOMAIN s = {1} /\ s[1].do = do /\ s[1].arg = arg /\ s[1].k = k
  BY <1>0 DEF IsStep
<1>2. Preparing(s, K, k)
  BY <1>1 DEF Preparing, Queues, Acquires, KindOf
<1> QED
  BY <1>2 DEF s

LEMMA PreparingEach ==
  ASSUME NEW do \in {"dev", "host"}, NEW bufs, IsSeq(bufs), NEW k, NEW K, do \in K
  PROVE  /\ Preparing(Each(do, bufs, k), K, k)
         /\ \A j \in DOMAIN bufs : Supplies(Each(do, bufs, k), <<do, bufs[j].name>>)
<1> DEFINE s == Each(do, bufs, k)
<1>1. /\ IsSeq(s) /\ DOMAIN s = DOMAIN bufs
      /\ \A j \in DOMAIN bufs : s[j].do = do /\ s[j].arg = bufs[j].name /\ s[j].k = k
  BY EachIs
<1> HIDE DEF s
<1>2. Preparing(s, K, k)
  BY <1>1 DEF Preparing, Queues, Acquires, KindOf
<1>3. \A j \in DOMAIN bufs : Supplies(s, <<do, bufs[j].name>>)
  BY <1>1 DEF Supplies, Provides
<1> QED
  BY <1>2, <1>3 DEF s

LEMMA BuildIs ==
  ASSUME NEW k, NEW K, {"graph", "recipe"} \subseteq K
  PROVE  Preparing(Build(k), K, k)
<1>1. Preparing(Step("make", "graph", k), K, k) /\ Preparing(Step("make", "recipe", k), K, k)
  BY PreparingStep
<1> QED
  BY <1>1, JoinPreparing DEF Build

\* What h has of the buffers in and out: all of in, the first of out.
Hosts(in, out, h) ==
  /\ IsSeq(h) /\ IsSeq(in \o out)
  /\ \A j \in DOMAIN h : \E i \in DOMAIN (in \o out) : h[j] = (in \o out)[i]
  /\ \A i \in DOMAIN in : \E j \in DOMAIN h : h[j] = in[i]
  /\ \E j \in DOMAIN h : h[j] = out[1]

LEMMA WithFirst ==
  ASSUME NEW a, IsSeq(a), NEW b, IsSeq(b), b # <<>>
  PROVE  Hosts(a, b, a \o <<b[1]>>)
<1> DEFINE one == <<b[1]>>
           h == a \o one
           all == a \o b
           n == Len(a)
           m == Len(b)
<1>1. IsSeq(a) /\ IsSeq(b) /\ IsSeq(one) /\ Len(one) = 1 /\ one[1] = b[1]
  BY OneIs
<1>2. m \in Nat /\ m # 0
  BY SeqIs
<1> HIDE DEF one
<1>3. /\ \A j \in 1 .. n : h[j] = a[j]
      /\ h[n + 1] = b[1]
      /\ DOMAIN h = 1 .. (n + 1) /\ n \in Nat /\ IsSeq(h) /\ DOMAIN a = 1 .. n
  <2>1. Joins(a, one, h)
    BY <1>1, Joined
  <2> HIDE DEF h
  <2> QED
    BY <1>1, <2>1 DEF Joins
<1>4. /\ \A j \in 1 .. n : all[j] = a[j]
      /\ \A j \in 1 .. m : all[n + j] = b[j]
      /\ DOMAIN all = 1 .. (n + m) /\ IsSeq(all)
  <2>1. Joins(a, b, all)
    BY <1>1, Joined
  <2> HIDE DEF all
  <2> QED
    BY <1>1, <2>1 DEF Joins
<1>5. \A j \in 1 .. (n + 1) : \E i \in 1 .. (n + m) : h[j] = all[i]
  <2> TAKE j \in 1 .. (n + 1)
  <2>1. CASE j \in 1 .. n
    <3>1. j \in 1 .. (n + m) /\ h[j] = all[j]
      BY <1>2, <1>3, <1>4, <2>1
    <3> QED
      BY <3>1
  <2>2. CASE j = n + 1
    <3>1. 1 \in 1 .. m /\ n + 1 \in 1 .. (n + m)
      BY <1>2, <1>3
    <3>2. h[j] = all[n + 1]
      BY <1>3, <1>4, <2>2, <3>1
    <3> QED
      BY <3>1, <3>2
  <2> QED
    BY <1>3, <2>1, <2>2
<1>6. \A j \in DOMAIN h : \E i \in DOMAIN all : h[j] = all[i]
  BY <1>3, <1>4, <1>5
<1>7. /\ \A i \in DOMAIN a : \E j \in DOMAIN h : h[j] = a[i]
      /\ \E j \in DOMAIN h : h[j] = b[1]
  BY <1>3
<1> QED
  BY <1>3, <1>4, <1>6, <1>7 DEF h, one, all, Hosts

\* The buffers of the host are among those of the device.
LEMMA HostIs ==
  ASSUME NEW op, Formed(op)
  PROVE  Hosts(op.ins, op.outs, Host(op))
BY WithFirst DEF Formed, Host

\* What the allocation of an operation acquires.
LEMMA AllocateIs ==
  ASSUME NEW op, Formed(op), NEW k, NEW K, {"dev", "ws", "host"} \subseteq K
  PROVE  /\ Preparing(Allocate(op, k), K, k)
         /\ \A j \in DOMAIN Host(op) :
              /\ Supplies(Allocate(op, k), <<"dev", Host(op)[j].name>>)
              /\ Supplies(Allocate(op, k), <<"host", Host(op)[j].name>>)
<1> DEFINE all == op.ins \o op.outs
           h == Host(op)
           d == Each("dev", all, k)
           w == Step("ws", "", k)
           e == Each("host", h, k)
<1>1. IsSeq(h) /\ IsSeq(all) /\ \A j \in DOMAIN h : \E i \in DOMAIN all : h[j] = all[i]
  BY HostIs, ZenonT(60) DEF Hosts
<1> HIDE DEF all, h
<1>2. Preparing(d, K, k) /\ \A j \in DOMAIN all : Supplies(d, <<"dev", all[j].name>>)
  BY <1>1, PreparingEach
<1>3. Preparing(e, K, k) /\ \A j \in DOMAIN h : Supplies(e, <<"host", h[j].name>>)
  BY <1>1, PreparingEach
<1>4. Preparing(w, K, k)
  BY PreparingStep
<1> HIDE DEF d, w, e
<1>5. Preparing(d \o w, K, k) /\ Preparing((d \o w) \o e, K, k)
  BY <1>2, <1>3, <1>4, JoinPreparing
<1>6. IsSeq(d) /\ IsSeq(w) /\ IsSeq(e) /\ IsSeq(d \o w)
  BY <1>2, <1>3, <1>4, <1>5 DEF Preparing
<1>7. \A j \in DOMAIN h : Supplies(d, <<"dev", h[j].name>>)
  BY <1>1, <1>2
<1>8. \A u : Supplies(d, u) \/ Supplies(e, u) => Supplies((d \o w) \o e, u)
  BY <1>6, JoinSupplies
<1>9. Allocate(op, k) = (d \o w) \o e
  BY DEF Allocate, d, w, e, all, h
<1> QED
  BY <1>3, <1>5, <1>7, <1>8, <1>9 DEF h

LEMMA RunningStep ==
  ASSUME NEW do \in {"fill", "sync", "read"}, NEW arg, NEW D, NEW k \in D, NEW has
  PROVE  Running(Step(do, arg, k), has, D)
<1> DEFINE s == Step(do, arg, k)
<1>0. IsStep(s, do, arg, k)
  BY StepIs
<1> HIDE DEF s
<1>1. IsSeq(s) /\ DOMAIN s = {1} /\ s[1].do = do /\ s[1].k = k
  BY <1>0 DEF IsStep
<1>2. Running(s, has, D)
  BY <1>1 DEF Running, Waits, Queues, Acquires
<1> QED
  BY <1>2 DEF s

\* What is queued before a wait.
LEMMA ThenSynced ==
  ASSUME NEW s, IsSeq(s), NEW has, NEW D, NEW k \in D,
         \A i \in DOMAIN s : /\ Queues(s[i]) /\ s[i].k = k
                             /\ Uses(s[i].do, s[i].arg) \subseteq has
  PROVE  /\ Running(s \o Step("sync", "", k), has, D)
         /\ Waited(s \o Step("sync", "", k), 0)
<1> DEFINE t == Step("sync", "", k)
           st == s \o t
           n == Len(s)
<1>0. IsStep(t, "sync", "", k)
  BY StepIs
<1> HIDE DEF t
<1>1. IsSeq(t) /\ DOMAIN t = {1} /\ t[1].do = "sync" /\ t[1].k = k
  BY <1>0 DEF IsStep
<1>2. Len(t) = 1
  BY <1>0 DEF IsStep
<1>3. /\ \A j \in 1 .. n : st[j] = s[j]
      /\ st[n + 1] = t[1]
      /\ DOMAIN s = 1 .. n /\ DOMAIN st = 1 .. (n + 1)
      /\ n \in Nat /\ IsSeq(st) /\ Len(st) = n + 1
  <2>1. Joins(s, t, st)
    BY <1>1, Joined
  <2> HIDE DEF st
  <2> QED
    BY <1>2, <2>1 DEF Joins
<1> HIDE DEF st, n
<1>4. \A i \in 1 .. n : st[i].do # "free" /\ ~Acquires(st[i])
  BY <1>3 DEF Queues, Acquires
<1>5. st[n + 1].do = "sync" /\ st[n + 1].k = k
  BY <1>1, <1>3
<1>6. \A i \in 1 .. (n + 1) : i \in 1 .. n \/ i = n + 1
  BY <1>3
<1>7. \A i \in DOMAIN st : st[i].do # "free" /\ ~Acquires(st[i])
  BY <1>3, <1>4, <1>5, <1>6 DEF Acquires
<1>8. ~Queues(st[n + 1])
  BY <1>5 DEF Queues
<1>9. \A i \in 0 .. n : Waited(st, i)
  <2> TAKE i \in 0 .. n
  <2>1. n + 1 \in (i + 1) .. Len(st) /\ \A f \in (i + 1) .. (n + 1) : f \in DOMAIN st
    BY <1>3
  <2> QED
    BY <1>5, <1>7, <2>1 DEF Waited, Keeps
<1>10. Waits(st)
  <2> SUFFICES ASSUME NEW i \in DOMAIN st, Queues(st[i]) PROVE Waited(st, i)
    BY DEF Waits
  <2>1. i \in 1 .. n
    BY <1>3, <1>6, <1>8
  <2>2. i \in 0 .. n
    BY <1>3, <2>1
  <2> QED
    BY <1>9, <2>2
<1>11. \A i \in DOMAIN st : st[i].k \in D /\ (Queues(st[i]) => Uses(st[i].do, st[i].arg) \subseteq has)
  BY <1>3, <1>5, <1>6, <1>8
<1>12. Running(st, has, D) /\ Waited(st, 0)
  BY <1>3, <1>7, <1>9, <1>10, <1>11 DEF Running
<1> QED
  BY <1>12 DEF st, t

\* A copy of each of some buffers of the host, and the wait.
LEMMA CopiesAre ==
  ASSUME NEW op, Formed(op), NEW do \in {"upload", "download"}, NEW bufs, IsSeq(bufs),
         \A j \in DOMAIN bufs : \E i \in DOMAIN Host(op) : bufs[j].name = Host(op)[i].name,
         NEW D, NEW k \in D
  PROVE  /\ Running(Each(do, bufs, k) \o Step("sync", "", k), Stock(op), D)
         /\ Waited(Each(do, bufs, k) \o Step("sync", "", k), 0)
<1> DEFINE s == Each(do, bufs, k)
<1>1. /\ IsSeq(s) /\ DOMAIN s = DOMAIN bufs
      /\ \A j \in DOMAIN bufs : s[j].do = do /\ s[j].arg = bufs[j].name /\ s[j].k = k
  BY EachIs
<1>2. \A j \in DOMAIN bufs : Uses(do, bufs[j].name) \subseteq Stock(op)
  BY DEF Uses, Stock
<1> HIDE DEF s
<1>3. \A i \in DOMAIN s : /\ Queues(s[i]) /\ s[i].k = k
                          /\ Uses(s[i].do, s[i].arg) \subseteq Stock(op)
  BY <1>1, <1>2 DEF Queues
<1> QED
  BY <1>1, <1>3, ThenSynced DEF s

\* A launch of an operation that copies, and the wait.
LEMMA LaunchIs ==
  ASSUME NEW op, Formed(op), NEW D, NEW k \in D
  PROVE  Running(Launch(k), Stock(op), D) /\ Waited(Launch(k), 0)
<1> DEFINE s == Step("launch", Gl(""), k)
           h == Host(op)
<1>0. IsStep(s, "launch", Gl(""), k)
  BY StepIs
<1>1. IsSeq(s) /\ DOMAIN s = {1} /\ s[1].do = "launch" /\ s[1].k = k
  <2> HIDE DEF s
  <2> QED
    BY <1>0 DEF IsStep
<1>2. PICK j \in DOMAIN h : h[j] = op.outs[1]
  BY HostIs DEF Hosts
<1>3. Uses("launch", s[1].arg) \subseteq Stock(op)
  BY <1>2 DEF Uses, Stock
<1> HIDE DEF s
<1>4. \A i \in DOMAIN s : /\ Queues(s[i]) /\ s[i].k = k
                          /\ Uses(s[i].do, s[i].arg) \subseteq Stock(op)
  BY <1>1, <1>3 DEF Queues
<1> QED
  BY <1>1, <1>4, ThenSynced DEF s, Launch

\* The runs of an operation whose buffers are those of op.
LEMMA ExecuteIs ==
  ASSUME NEW op, Formed(op), NEW run, Formed(run), SameBuffers(run, op), NEW D, NEW k \in D
  PROVE  Running(Execute(run, k), Stock(op), D) /\ Waited(Execute(run, k), 0)
<1> DEFINE h == Host(op)
           feed == Feed(run, k)
           launch == Launch(k)
           copy == Each("download", <<run.outs[1]>>, k) \o Step("sync", "", k)
           read == Step("read", run.outs[1].name, k)
<1>1. /\ \A j \in DOMAIN run.ins : \E i \in DOMAIN h : run.ins[j].name = h[i].name
      /\ \E i \in DOMAIN h : run.outs[1].name = h[i].name
  <2>1. /\ \A i \in DOMAIN op.ins : \E j \in DOMAIN h : h[j] = op.ins[i]
        /\ \E j \in DOMAIN h : h[j] = op.outs[1]
    BY HostIs DEF Hosts
  <2>2. /\ \A j \in DOMAIN run.ins : \E o \in DOMAIN op.ins : run.ins[j].name = op.ins[o].name
        /\ run.outs[1].name = op.outs[1].name
    BY DEF SameBuffers
  <2> HIDE DEF h
  <2> QED
    BY <2>1, <2>2, ZenonT(60)
<1>2. Running(feed, Stock(op), D) /\ Waited(feed, 0)
  BY <1>1, CopiesAre DEF Feed, Formed
<1>3. Running(launch, Stock(op), D)
  BY LaunchIs
<1>4. Running(copy, Stock(op), D)
  <2> DEFINE one == <<run.outs[1]>>
  <2>1. IsSeq(one) /\ DOMAIN one = {1} /\ one[1] = run.outs[1]
    BY OneIs
  <2> HIDE DEF one
  <2>2. \A j \in DOMAIN one : \E i \in DOMAIN h : one[j].name = h[i].name
    BY <1>1, <2>1
  <2>3. Running(Each("download", one, k) \o Step("sync", "", k), Stock(op), D)
    BY <2>1, <2>2, CopiesAre
  <2> QED
    BY <2>3 DEF one
<1>5. Running(read, Stock(op), D)
  BY RunningStep
<1>6. Execute(run, k) = (feed \o launch) \o (copy \o read)
  BY DEF Execute, Fetch
<1> HIDE DEF feed, launch, copy, read
<1>7. Running(feed \o launch, Stock(op), D) /\ Running(copy \o read, Stock(op), D)
  BY <1>2, <1>3, <1>4, <1>5, JoinRunning
<1>8. Running((feed \o launch) \o (copy \o read), Stock(op), D)
  BY <1>7, JoinRunning
<1>9. IsSeq(feed) /\ IsSeq(launch) /\ IsSeq(feed \o launch) /\ IsSeq(copy \o read)
  BY <1>2, <1>3, <1>7 DEF Running
<1>10. Waited(feed \o launch, 0)
  BY <1>2, <1>9, WaitedLeft
<1>11. Waited((feed \o launch) \o (copy \o read), 0)
  BY <1>9, <1>10, WaitedLeft
<1> QED
  BY <1>6, <1>8, <1>11

LEMMA Associates ==
  ASSUME NEW s, IsSeq(s), NEW t, IsSeq(t), NEW u, IsSeq(u)
  PROVE  (s \o t) \o u = s \o (t \o u)
<1> DEFINE X == {s[j] : j \in DOMAIN s} \cup {t[j] : j \in DOMAIN t} \cup {u[j] : j \in DOMAIN u}
<1>1. s \in Seq(X) /\ t \in Seq(X) /\ u \in Seq(X)
  BY DEF IsSeq
<1> HIDE DEF X
<1> QED
  BY <1>1

-----------------------------------------------------------------------------
(* The scripts.                                                            *)

\* s prepares the buffers of op.
Ready(op, s, K, k) ==
  /\ Preparing(s, K, k)
  /\ \A j \in DOMAIN Host(op) :
       Supplies(s, <<"dev", Host(op)[j].name>>) /\ Supplies(s, <<"host", Host(op)[j].name>>)

LEMMA ReadyAllocated ==
  ASSUME NEW op, Formed(op), NEW k, NEW K, {"dev", "ws", "host"} \subseteq K,
         NEW s, Preparing(s, K, k)
  PROVE  Ready(op, s \o Allocate(op, k), K, k)
<1> DEFINE t == Allocate(op, k)
           h == Host(op)
<1>1. Preparing(t, K, k)
  BY AllocateIs
<1>2. \A j \in DOMAIN h : Supplies(t, <<"dev", h[j].name>>) /\ Supplies(t, <<"host", h[j].name>>)
  BY AllocateIs
<1> HIDE DEF t, h
<1>3. Preparing(s \o t, K, k)
  BY <1>1, JoinPreparing
<1>4. \A u : Supplies(t, u) => Supplies(s \o t, u)
  BY <1>1, JoinSupplies DEF Preparing
<1> QED
  BY <1>2, <1>3, <1>4 DEF Ready, t, h

LEMMA ReadyMore ==
  ASSUME NEW op, NEW K, NEW k, NEW s, Ready(op, s, K, k), NEW t, Preparing(t, K, k)
  PROVE  Ready(op, s \o t, K, k)
<1>1. Preparing(s \o t, K, k)
  BY JoinPreparing DEF Ready
<1>2. \A u : Supplies(s, u) => Supplies(s \o t, u)
  BY JoinSupplies DEF Ready, Preparing
<1> QED
  BY <1>1, <1>2 DEF Ready

\* With its stream, an operation has what it uses.
LEMMA ReadyStream ==
  ASSUME NEW op, NEW K, NEW k, NEW s, Ready(op, s, K, k), "stream" \in K
  PROVE  /\ Preparing(s \o Step("make", "stream", k), K, k)
         /\ \A u \in Stock(op) : Supplies(s \o Step("make", "stream", k), u)
<1> DEFINE t == Step("make", "stream", k)
           st == s \o t
<1>1. Preparing(t, K, k)
  BY PreparingStep
<1>2. Supplies(t, <<"stream", Gl("")>>)
  <2>1. IsStep(t, "make", "stream", k)
    BY StepIs
  <2> HIDE DEF t
  <2> QED
    BY <2>1 DEF IsStep, Supplies, Provides
<1> HIDE DEF t
<1>3. Ready(op, st, K, k) /\ Preparing(st, K, k)
  BY <1>1, ReadyMore DEF Ready
<1>4. Supplies(st, <<"stream", Gl("")>>)
  BY <1>1, <1>2, JoinSupplies DEF Ready, Preparing
<1> HIDE DEF st
<1>5. ASSUME NEW j \in DOMAIN Host(op), NEW u \in Uses("upload", Host(op)[j].name)
      PROVE  Supplies(st, u)
  BY <1>3, <1>4 DEF Uses, Ready
<1>6. \A u \in Stock(op) : Supplies(st, u)
  BY <1>5 DEF Stock
<1> QED
  BY <1>3, <1>6 DEF st, t

\* An operation prepared, executed and given back is in order.
LEMMA OperationIs ==
  ASSUME NEW op, Formed(op), NEW K, NEW k, NEW s, Ready(op, s, K, k), "stream" \in K, NEW arg,
         K \subseteq arg \cup {"recipe"}
  PROVE  Sound(s \o Step("make", "stream", k) \o Execute(op, k) \o Step("free", arg, k), {})
<1> DEFINE pre == s \o Step("make", "stream", k)
           run == Execute(op, k)
           x == [do |-> "free", arg |-> arg, k |-> k]
           end == run \o <<x>>
<1>1. Preparing(pre, K, k) /\ \A u \in Stock(op) : Supplies(pre, u)
  BY ReadyStream
<1>2. Running(run, Stock(op), {k})
  <2>1. SameBuffers(op, op)
    BY DEF SameBuffers
  <2> QED
    BY <2>1, ExecuteIs
<1>3. x.do = "free" /\ x.arg = arg /\ x.k = k
  OBVIOUS
<1>4. s \o Step("make", "stream", k) \o Execute(op, k) \o Step("free", arg, k) = (pre \o run) \o <<x>>
  BY DEF Step
<1> HIDE DEF pre, run, x
<1>5. Sound(end, Stock(op)) /\ \A kind, q : Frees(x, kind, q) => FreedIn(end, 0, kind, q)
  BY <1>2, <1>3, Ended
<1>6. \A kind \in K : FreedIn(end, 0, kind, k)
  BY <1>3, <1>5 DEF Frees, FreedIn
<1>7. \A u \in Stock(op) : \E i \in DOMAIN pre : Provides(pre[i], u)
  BY <1>1 DEF Supplies
<1>8. Sound(pre \o end, {})
  BY <1>1, <1>5, <1>6, <1>7, Prepared
<1>9. (pre \o run) \o <<x>> = pre \o end
  BY <1>1, <1>2, OneIs, Associates, SMTT(40) DEF Preparing, Running
<1> QED
  BY <1>4, <1>8, <1>9

\* A method of Device.
LEMMA DeviceOpIs ==
  ASSUME NEW op, Formed(op), NEW k
  PROVE  Sound(DeviceOp(op, k), {})
<1> DEFINE K == Buffers \cup {"recipe", "graph"}
           s == Build(k) \o Allocate(op, k)
           t == Step("fill", "", k)
<1>1. Preparing(Build(k), K, k)
  BY BuildIs
<1>2. {"dev", "ws", "host", "stream"} \subseteq K
  BY DEF Buffers
<1>3. Preparing(t, K, k)
  BY PreparingStep
<1>4. DeviceOp(op, k) = (s \o t) \o Step("make", "stream", k) \o Execute(op, k) \o Step("free", K, k)
  BY DEF DeviceOp
<1> HIDE DEF K, t
<1>5. Ready(op, s, K, k)
  BY <1>1, <1>2, ReadyAllocated
<1> HIDE DEF s
<1>6. Ready(op, s \o t, K, k)
  BY <1>3, <1>5, ReadyMore
<1> QED
  BY <1>2, <1>4, <1>6, OperationIs

\* Nothing to do is in order.
LEMMA NothingIs == Sound(<<>>, {})
BY NoneIs DEF Sound, GivesBack, Waits, Supplied

\* A one-shot program.
LEMMA OneShotIs ==
  ASSUME NEW p, Formed(p.ops[1])
  PROVE  Sound(OneShotProgram(p), {})
<1> DEFINE arg == Buffers \cup Context \cup {"graph"} \cup (IF KeepsRecipe(p) THEN {} ELSE {"recipe"})
           K == Buffers \cup Context \cup {"graph", "recipe"}
           op == p.ops[1]
           i == Step("make", "init", 1)
           c == Step("card", "", 1)
           t == Step("fill", "", 1)
           s == i \o Build(1) \o c \o Allocate(op, 1)
<1>1. CASE Refuses(p)
  BY <1>1, NothingIs DEF OneShotProgram
<1>2. CASE ~Refuses(p)
  <2>1. Preparing(Build(1), K, 1)
    BY BuildIs
  <2>2. {"dev", "ws", "host", "stream"} \subseteq K /\ {"init", "card"} \subseteq K
    BY DEF Buffers, Context
  <2>3. Preparing(i, K, 1) /\ Preparing(c, K, 1) /\ Preparing(t, K, 1)
    BY <2>2, PreparingStep
  <2>4. K \subseteq arg \cup {"recipe"}
    OBVIOUS
  <2>5. OneShotProgram(p)
          = (s \o t) \o Step("make", "stream", 1) \o Execute(op, 1) \o Step("free", arg, 1)
    BY <1>2 DEF OneShotProgram
  <2> HIDE DEF K, arg, i, c, t
  <2>6. Preparing(i \o Build(1) \o c, K, 1)
    BY <2>1, <2>3, JoinPreparing
  <2>7. Ready(op, s, K, 1)
    BY <2>2, <2>6, ReadyAllocated
  <2> HIDE DEF s, op
  <2>8. Ready(op, s \o t, K, 1)
    BY <2>3, <2>7, ReadyMore
  <2>9. Formed(op)
    BY DEF op
  <2> QED
    BY <2>2, <2>4, <2>5, <2>8, <2>9, OperationIs
<1> QED
  BY <1>1, <1>2

\* What Stepped joins: of the parts d, those not before from.
JoinedUpTo(u, n, from, d) ==
  u = [j \in 0 .. n |-> IF j = 0 THEN <<>>
                        ELSE IF j < from THEN u[j - 1] ELSE u[j - 1] \o d[j]]

LEMMA JoinedExists ==
  ASSUME NEW n \in Nat, NEW from, NEW d
  PROVE  \E u : JoinedUpTo(u, n, from, d)
<1> DEFINE S == {m \in Nat : \E u : JoinedUpTo(u, m, from, d)}
<1>1. 0 \in S
  <2> DEFINE u == [j \in 0 .. 0 |-> <<>>]
  <2>1. JoinedUpTo(u, 0, from, d)
    BY DEF JoinedUpTo
  <2> QED
    BY <2>1
<1>2. ASSUME NEW m \in Nat, m \in S PROVE m + 1 \in S
  <2>1. PICK u : JoinedUpTo(u, m, from, d)
    BY <1>2
  <2> DEFINE last == IF m + 1 < from THEN u[m] ELSE u[m] \o d[m + 1]
             w == [j \in 0 .. m + 1 |-> IF j = m + 1 THEN last ELSE u[j]]
  <2>2. \A j \in 0 .. m + 1 : w[j] = IF j = m + 1 THEN last ELSE u[j]
    OBVIOUS
  <2>3. \A j \in 0 .. m : u[j] = IF j = 0 THEN <<>>
                                 ELSE IF j < from THEN u[j - 1] ELSE u[j - 1] \o d[j]
    BY <2>1 DEF JoinedUpTo
  <2>4. w = [j \in 0 .. m + 1 |-> w[j]]
    OBVIOUS
  <2> HIDE DEF w
  <2>5. \A j \in 0 .. m : w[j] = u[j]
    BY <2>2
  <2>6. ASSUME NEW j \in 0 .. m + 1
        PROVE  w[j] = IF j = 0 THEN <<>>
                      ELSE IF j < from THEN w[j - 1] ELSE w[j - 1] \o d[j]
    <3>1. CASE j \in 0 .. m
      <4>1. j # 0 => j - 1 \in 0 .. m
        BY <3>1
      <4> QED
        BY <2>3, <2>5, <3>1, <4>1
    <3>2. CASE j = m + 1
      <4>1. w[j] = last /\ w[j - 1] = u[m] /\ j # 0
        BY <2>2, <2>5, <3>2
      <4> QED
        BY <3>2, <4>1
    <3> QED
      BY <3>1, <3>2
  <2>7. JoinedUpTo(w, m + 1, from, d)
    BY <2>4, <2>6, Zenon DEF JoinedUpTo
  <2> QED
    BY <2>7
<1> HIDE DEF S
<1>3. Nat \subseteq S
  BY <1>1, <1>2, Numbers!Induction
<1> QED
  BY <1>3 DEF S

\* A program on a Device.
LEMMA DeviceProgramIs ==
  ASSUME NEW p, IsSeq(p.ops), \A k \in DOMAIN p.ops : Formed(p.ops[k])
  PROVE  Sound(DeviceProgram(p), {})
<1> DEFINE n == Len(p.ops)
           w == CHOOSE w : w = [k \in 0 .. n |->
                                  IF k = 0 THEN <<>> ELSE w[k - 1] \o DeviceOp(p.ops[k], k)]
           d == [k \in 1 .. n |-> DeviceOp(p.ops[k], k)]
           body == w[n]
           end == Step("free", Context, 1)
           rest == body \o end
           K == {"init", "card"}
<1>1. n \in Nat /\ DOMAIN p.ops = 1 .. n
  BY SeqIs
<1>2. DeviceProgram(p) = (Open \o body) \o end
  BY DEF DeviceProgram, Stepped
<1> HIDE DEF n
<1>3. PICK u : JoinedUpTo(u, n, 1, d)
  BY <1>1, JoinedExists
<1>4. u = [k \in 0 .. n |-> IF k = 0 THEN <<>> ELSE u[k - 1] \o DeviceOp(p.ops[k], k)]
  BY <1>1, <1>3 DEF JoinedUpTo
<1>5. w = [k \in 0 .. n |-> IF k = 0 THEN <<>> ELSE w[k - 1] \o DeviceOp(p.ops[k], k)]
  BY <1>4
<1> HIDE DEF w, d
<1> DEFINE S == {k \in Nat : k <= n => Sound(w[k], {})}
<1>6. 0 \in S
  BY <1>1, <1>5, NothingIs
<1>7. ASSUME NEW k \in Nat, k \in S PROVE k + 1 \in S
  <2> SUFFICES ASSUME k + 1 <= n PROVE Sound(w[k + 1], {})
    OBVIOUS
  <2>1. w[k + 1] = w[k] \o DeviceOp(p.ops[k + 1], k + 1) /\ Sound(w[k], {})
    <3>1. k + 1 \in 0 .. n /\ k + 1 # 0 /\ (k + 1) - 1 = k /\ k <= n
      BY <1>1
    <3>2. w[k + 1] = IF k + 1 = 0 THEN <<>> ELSE w[(k + 1) - 1] \o DeviceOp(p.ops[k + 1], k + 1)
      BY <1>5, <3>1, Zenon
    <3> QED
      BY <1>7, <3>1, <3>2
  <2>2. Formed(p.ops[k + 1])
    BY <1>1
  <2>3. Sound(DeviceOp(p.ops[k + 1], k + 1), {})
    BY <2>2, DeviceOpIs
  <2> QED
    BY <2>1, <2>3, JoinSound
<1> HIDE DEF S
<1>8. Nat \subseteq S
  BY <1>6, <1>7, Numbers!Induction
<1>9. Sound(body, {})
  BY <1>1, <1>8 DEF S
<1>10. IsStep(end, "free", Context, 1)
  BY StepIs
<1> HIDE DEF body, end
<1>11. Sound(end, {})
  BY <1>10 DEF IsStep, Sound, GivesBack, Waits, Supplied, Acquires, Queues
<1>12. Sound(rest, {})
  BY <1>9, <1>11, JoinSound
<1>13. \A kind \in K : FreedIn(rest, 0, kind, 1)
  <2> TAKE kind \in K
  <2>1. Frees(end[1], kind, 1) /\ 1 \in (0 + 1) .. Len(end)
    BY <1>10 DEF IsStep, Frees, Context
  <2>2. FreedIn(end, 0, kind, 1)
    BY <2>1 DEF FreedIn
  <2>3. FreedIn(rest, Len(body) + 0, kind, 1)
    BY <1>9, <1>11, <2>2, FreedRight DEF Sound
  <2>4. Len(body) + 0 \in Nat /\ 0 \in 0 .. (Len(body) + 0)
    BY <1>9, SeqIs DEF Sound
  <2> HIDE DEF rest
  <2> QED
    BY <1>12, <2>3, <2>4, FreedEarlier DEF Sound
<1>14. Preparing(Open, K, 1)
  <2>1. Preparing(Step("make", "init", 1), K, 1) /\ Preparing(Step("card", "", 1), K, 1)
    BY PreparingStep
  <2> QED
    BY <2>1, JoinPreparing DEF Open
<1> HIDE DEF K
<1>15. Sound(Open \o rest, {})
  <2> HIDE DEF rest
  <2> QED
    BY <1>12, <1>13, <1>14, Prepared
<1>16. (Open \o body) \o end = Open \o rest
  BY <1>9, <1>11, <1>14, Associates, SMTT(40) DEF Sound, Preparing
<1> QED
  BY <1>2, <1>15, <1>16

\* While running nothing is given back, so an earlier step waits as well.
LEMMA RunningWaits ==
  ASSUME NEW s, NEW has, NEW D, Running(s, has, D), NEW i \in Nat, Waited(s, i)
  PROVE  Waited(s, 0)
<1>1. DOMAIN s = 1 .. Len(s) /\ Len(s) \in Nat
  BY SeqIs DEF Running
<1>2. PICK j \in (i + 1) .. Len(s) : s[j].do = "sync"
  BY DEF Waited
<1>3. j \in (0 + 1) .. Len(s) /\ \A f \in (0 + 1) .. j : f \in DOMAIN s
  BY <1>1, <1>2
<1> QED
  BY <1>2, <1>3 DEF Waited, Keeps, Running

\* A handle's operations share their buffers.
SharesBuffers(p) ==
  /\ IsSeq(p.ops) /\ p.ops # <<>>
  /\ \A k \in DOMAIN p.ops : Formed(p.ops[k]) /\ SameBuffers(p.ops[k], p.ops[1])

LEMMA MatmulCallIs ==
  ASSUME NEW p, SharesBuffers(p), NEW k \in DOMAIN p.ops
  PROVE  /\ Running(MatmulCall(p, k), Stock(p.ops[1]), DOMAIN p.ops)
         /\ Waited(MatmulCall(p, k), 0)
<1> DEFINE D == DOMAIN p.ops
           op == p.ops[1]
           run == p.ops[k]
           fill == Step("fill", "", k)
           rest == Execute(run, k)
<1>1. Formed(op) /\ Formed(run) /\ SameBuffers(run, op) /\ k \in D
  <2>1. 1 \in DOMAIN p.ops
    BY SeqIs DEF SharesBuffers
  <2> QED
    BY <2>1 DEF SharesBuffers
<1>2. MatmulCall(p, k) = IF p.calls[k] = "launch" THEN Launch(k) ELSE fill \o rest
  BY DEF MatmulCall
<1> HIDE DEF D, op, run, fill
<1>3. Running(Launch(k), Stock(op), D) /\ Waited(Launch(k), 0)
  BY <1>1, LaunchIs
<1>4. Running(rest, Stock(op), D) /\ Waited(rest, 0)
  BY <1>1, ExecuteIs
<1>5. Running(fill, Stock(op), D)
  BY <1>1, RunningStep DEF fill
<1> HIDE DEF rest
<1>6. Running(fill \o rest, Stock(op), D)
  BY <1>4, <1>5, JoinRunning
<1>7. Waited(fill \o rest, Len(fill) + 0) /\ Len(fill) + 0 \in Nat
  BY <1>4, <1>5, WaitedRight, SeqIs DEF Running
<1>8. Waited(fill \o rest, 0)
  BY <1>6, <1>7, RunningWaits
<1> QED
  BY <1>2, <1>3, <1>4, <1>5, <1>6, <1>8 DEF op, D

\* The runs and launches of a handle from the k-th one on, then its drop.
LeftOfHandle(p, s) ==
  /\ Sound(s, Stock(p.ops[1])) /\ Waited(s, 0)
  /\ \A kind \in MatmulKinds : FreedIn(s, 0, kind, 1)
  /\ \A i \in DOMAIN s : /\ s[i].k \in DOMAIN p.ops /\ ~Acquires(s[i])
                         /\ s[i].do = "free" => i = Len(s)

LEMMA MatmulFromIs ==
  ASSUME NEW p, SharesBuffers(p), NEW k \in DOMAIN p.ops
  PROVE  LeftOfHandle(p, MatmulFrom(p, k))
<1> DEFINE n == Len(p.ops)
           D == DOMAIN p.ops
           has == Stock(p.ops[1])
           w == CHOOSE w : w = [j \in 0 .. n |->
                                  IF j = 0 THEN <<>>
                                  ELSE IF j < k THEN w[j - 1] ELSE w[j - 1] \o MatmulCall(p, j)]
           d == [j \in 1 .. n |-> MatmulCall(p, j)]
           body == w[n]
           x == [do |-> "free", arg |-> Buffers \cup Context \cup {"graph"}, k |-> 1]
           s == body \o <<x>>
<1>1. n \in Nat /\ D = 1 .. n /\ k \in 1 .. n /\ 1 \in D
  BY SeqIs DEF SharesBuffers
<1>2. MatmulFrom(p, k) = s
  BY DEF MatmulFrom, Stepped, MatmulDrop, Step
<1> HIDE DEF n
<1>3. PICK u : JoinedUpTo(u, n, k, d)
  BY <1>1, JoinedExists
<1>4. u = [j \in 0 .. n |-> IF j = 0 THEN <<>>
                            ELSE IF j < k THEN u[j - 1] ELSE u[j - 1] \o MatmulCall(p, j)]
  <2>1. \A j \in 0 .. n : j # 0 => d[j] = MatmulCall(p, j)
    BY <1>1
  <2> HIDE DEF d
  <2> QED
    BY <1>3, <2>1, Zenon DEF JoinedUpTo
<1>5. w = [j \in 0 .. n |-> IF j = 0 THEN <<>>
                            ELSE IF j < k THEN w[j - 1] ELSE w[j - 1] \o MatmulCall(p, j)]
  BY <1>4
<1> HIDE DEF w, d
<1> DEFINE S == {j \in Nat : j <= n => Running(w[j], has, D) /\ (k <= j => Waited(w[j], 0))}
<1>6. 0 \in S
  <2>1. Running(<<>>, has, D)
    BY NoneIs DEF Running, Waits
  <2>2. w[0] = <<>>
    BY <1>1, <1>5
  <2> QED
    BY <1>1, <2>1, <2>2
<1>7. ASSUME NEW j \in Nat, j \in S PROVE j + 1 \in S
  <2> SUFFICES ASSUME j + 1 <= n
               PROVE  Running(w[j + 1], has, D) /\ (k <= j + 1 => Waited(w[j + 1], 0))
    OBVIOUS
  <2>1. j + 1 \in 0 .. n /\ j + 1 # 0 /\ (j + 1) - 1 = j /\ j <= n /\ j + 1 \in D
    BY <1>1
  <2>2. w[j + 1] = IF j + 1 = 0 THEN <<>>
                   ELSE IF j + 1 < k THEN w[(j + 1) - 1] ELSE w[(j + 1) - 1] \o MatmulCall(p, j + 1)
    BY <1>5, <2>1, Zenon
  <2>3. Running(w[j], has, D) /\ (k <= j => Waited(w[j], 0))
    BY <1>7, <2>1
  <2>4. CASE j + 1 < k
    BY <1>1, <2>1, <2>2, <2>3, <2>4
  <2>5. CASE ~(j + 1 < k)
    <3> DEFINE t == MatmulCall(p, j + 1)
    <3>1. Running(t, has, D) /\ Waited(t, 0)
      BY <2>1, MatmulCallIs
    <3>2. w[j + 1] = w[j] \o t
      BY <2>1, <2>2, <2>5
    <3> HIDE DEF t
    <3>3. Running(w[j + 1], has, D)
      BY <2>3, <3>1, <3>2, JoinRunning
    <3>4. Waited(w[j + 1], Len(w[j]) + 0) /\ Len(w[j]) + 0 \in Nat
      BY <2>3, <3>1, <3>2, WaitedRight, SeqIs DEF Running
    <3> QED
      BY <3>3, <3>4, RunningWaits
  <2> QED
    BY <2>4, <2>5
<1> HIDE DEF S
<1>8. Nat \subseteq S
  BY <1>6, <1>7, Numbers!Induction
<1>9. Running(body, has, D) /\ Waited(body, 0)
  BY <1>1, <1>8 DEF S
<1>10. x.do = "free" /\ x.k = 1 /\ \A kind \in MatmulKinds : kind = "recipe" \/ Frees(x, kind, 1)
  BY DEF MatmulKinds, Frees
<1> HIDE DEF body, x, has
<1>11. Sound(s, has) /\ \A kind, q : Frees(x, kind, q) => FreedIn(s, 0, kind, q)
  BY <1>9, <1>10, Ended
<1>12. \A kind \in MatmulKinds : FreedIn(s, 0, kind, 1)
  BY <1>10, <1>11 DEF FreedIn
<1>13. Waited(s, 0)
  BY <1>9, OneIs, WaitedLeft DEF Running
<1>14. \A i \in DOMAIN s : /\ s[i].k \in D /\ ~Acquires(s[i])
                           /\ s[i].do = "free" => i = Len(s)
  <2> DEFINE t == <<x>>
             q == Len(body)
  <2>1. Joins(body, t, s) /\ Len(t) = 1 /\ t[1] = x
    BY <1>9, OneIs, Joined DEF Running
  <2> HIDE DEF s, t
  <2>2. /\ \A i \in 1 .. q : s[i] = body[i]
        /\ s[q + 1] = x
        /\ DOMAIN body = 1 .. q /\ DOMAIN s = 1 .. (q + 1) /\ q \in Nat /\ Len(s) = q + 1
    BY <2>1 DEF Joins
  <2> HIDE DEF q
  <2>3. ~Acquires(x)
    BY <1>10 DEF Acquires
  <2>4. ASSUME NEW i \in 1 .. q PROVE s[i].k \in D /\ ~Acquires(s[i]) /\ s[i].do # "free"
    BY <1>9, <2>2, <2>4 DEF Running
  <2>5. \A i \in 1 .. (q + 1) : i \in 1 .. q \/ i = q + 1
    BY <2>2
  <2> QED
    BY <1>1, <1>10, <2>2, <2>3, <2>4, <2>5
<1> QED
  BY <1>2, <1>11, <1>12, <1>13, <1>14 DEF LeftOfHandle, has

\* A handle's program: its buffers come before its runs, the stream last.
StockedScript(p, t) ==
  /\ \A i \in DOMAIN t :
       /\ t[i].k \in DOMAIN p.ops
       /\ Acquires(t[i]) => KindOf(t[i]) \in MatmulKinds /\ t[i].k = 1
       /\ t[i].do = "free" => i = Len(t)
       /\ t[i].do = "make" /\ t[i].arg = "stream" => \A j \in (i + 1) .. Len(t) : ~Acquires(t[j])
  /\ \A u \in Stock(p.ops[1]) : Supplies(t, u)

LEMMA StockedScriptIs ==
  ASSUME NEW p, SharesBuffers(p),
         NEW s, Preparing(s, MatmulKinds \ {"stream"}, 1),
         \A u \in Stock(p.ops[1]) : Supplies(s \o Step("make", "stream", 1), u),
         NEW left, LeftOfHandle(p, left)
  PROVE  StockedScript(p, s \o Step("make", "stream", 1) \o left)
<1> DEFINE one == Step("make", "stream", 1)
           pre == s \o one
           t == pre \o left
           n == Len(s)
           m == Len(left)
           has == Stock(p.ops[1])
           K == MatmulKinds \ {"stream"}
<1>1. IsStep(one, "make", "stream", 1)
  BY StepIs
<1>2. IsSeq(s) /\ IsSeq(left) /\ \A u \in has : Supplies(pre, u)
  BY DEF Preparing, LeftOfHandle, Sound
<1> HIDE DEF one
<1>3. IsSeq(one) /\ Len(one) = 1 /\ one[1].do = "make" /\ one[1].arg = "stream" /\ one[1].k = 1
  BY <1>1 DEF IsStep
<1>4. /\ \A i \in 1 .. n : pre[i] = s[i]
      /\ pre[n + 1] = one[1]
      /\ n \in Nat /\ IsSeq(pre) /\ Len(pre) = n + 1 /\ DOMAIN s = 1 .. n
  <2>1. Joins(s, one, pre)
    BY <1>2, <1>3, Joined
  <2> HIDE DEF pre
  <2> QED
    BY <1>3, <2>1 DEF Joins
<1>5. /\ \A i \in 1 .. (n + 1) : t[i] = pre[i]
      /\ \A i \in 1 .. m : t[n + 1 + i] = left[i]
      /\ m \in Nat /\ IsSeq(t) /\ Len(t) = n + 1 + m /\ DOMAIN left = 1 .. m
      /\ DOMAIN t = 1 .. (n + 1 + m)
  <2>1. Joins(pre, left, t)
    BY <1>2, <1>4, Joined
  <2> HIDE DEF t, pre
  <2> QED
    BY <1>4, <2>1 DEF Joins
<1>6. 1 \in DOMAIN p.ops
  BY SeqIs DEF SharesBuffers
<1>7. \A u \in has : Supplies(t, u)
  BY <1>2, <1>4, JoinSupplies
<1> HIDE DEF t, pre, n, m
<1>8. ASSUME NEW i \in 1 .. n
      PROVE  /\ t[i].k = 1 /\ t[i].do # "free"
             /\ Acquires(t[i]) => KindOf(t[i]) \in MatmulKinds /\ KindOf(t[i]) # "stream"
  <2>1. t[i] = s[i] /\ i \in DOMAIN s
    BY <1>4, <1>5
  <2>2. t[i].k = 1 /\ t[i].do # "free" /\ (Acquires(t[i]) => KindOf(t[i]) \in K)
    BY <2>1 DEF Preparing
  <2> QED
    BY <2>2
<1>9. ASSUME NEW i \in 1 .. n
      PROVE  ~(t[i].do = "make" /\ t[i].arg = "stream")
  BY <1>8 DEF Acquires, KindOf
<1>10. t[n + 1].do = "make" /\ t[n + 1].arg = "stream" /\ t[n + 1].k = 1
  BY <1>3, <1>4, <1>5
<1>11. KindOf(t[n + 1]) \in MatmulKinds /\ t[n + 1].do # "free"
  BY <1>10 DEF KindOf, MatmulKinds, Buffers
<1>12. ASSUME NEW i \in 1 .. (n + 1 + m), i > n + 1
       PROVE  /\ t[i].k \in DOMAIN p.ops /\ ~Acquires(t[i])
              /\ t[i].do = "free" => i = n + 1 + m
  <2> DEFINE l == i - (n + 1)
  <2>1. l \in 1 .. m /\ i = n + 1 + l
    BY <1>4, <1>5, <1>12
  <2>2. Len(left) = m
    BY DEF m
  <2> HIDE DEF l
  <2>3. t[i] = left[l] /\ l \in DOMAIN left
    BY <1>5, <2>1
  <2>4. /\ left[l].k \in DOMAIN p.ops /\ ~Acquires(left[l])
        /\ left[l].do = "free" => l = m
    BY <2>2, <2>3 DEF LeftOfHandle
  <2> QED
    BY <2>1, <2>3, <2>4
<1>13. \A i \in DOMAIN t : i \in 1 .. n \/ i = n + 1 \/ i > n + 1
  BY <1>4, <1>5
<1>14. \A i \in DOMAIN t :
         /\ t[i].k \in DOMAIN p.ops
         /\ Acquires(t[i]) => KindOf(t[i]) \in MatmulKinds /\ t[i].k = 1
         /\ t[i].do = "free" => i = Len(t)
  BY <1>5, <1>6, <1>8, <1>10, <1>11, <1>12, <1>13
<1>15. ASSUME NEW i \in DOMAIN t, t[i].do = "make", t[i].arg = "stream", NEW j \in (i + 1) .. Len(t)
       PROVE  ~Acquires(t[j])
  <2>1. i >= n + 1
    BY <1>4, <1>5, <1>9, <1>13, <1>15
  <2>2. j \in 1 .. (n + 1 + m) /\ j > n + 1
    BY <1>4, <1>5, <1>15, <2>1
  <2> QED
    BY <1>12, <2>2
<1> HIDE DEF has
<1>16. StockedScript(p, t)
  BY <1>7, <1>14, <1>15 DEF StockedScript, has
<1> QED
  BY <1>16 DEF t, pre, one

LEMMA MatmulIs ==
  ASSUME NEW p, SharesBuffers(p)
  PROVE  /\ Sound(MatmulNew(p.ops[1]) \o MatmulFrom(p, 1), {})
         /\ StockedScript(p, MatmulNew(p.ops[1]) \o MatmulFrom(p, 1))
<1> DEFINE op == p.ops[1]
           K == MatmulKinds
           L == MatmulKinds \ {"stream"}
           i == Step("make", "init", 1)
           c == Step("card", "", 1)
           first == i \o Build(1) \o c
           s == first \o Allocate(op, 1)
           left == MatmulFrom(p, 1)
           pre == s \o Step("make", "stream", 1)
<1>1. 1 \in DOMAIN p.ops /\ Formed(op)
  <2>1. 1 \in DOMAIN p.ops
    BY SeqIs DEF SharesBuffers
  <2> QED
    BY <2>1 DEF SharesBuffers
<1>2. {"init", "card", "graph", "recipe", "dev", "ws", "host"} \subseteq L /\ "stream" \in K
  BY DEF MatmulKinds, Buffers, Context
<1>3. MatmulNew(op) = pre
  BY DEF MatmulNew
<1>4. LeftOfHandle(p, left)
  BY <1>1, MatmulFromIs
<1> HIDE DEF op, K, L
<1>5. Preparing(i, L, 1) /\ Preparing(c, L, 1) /\ Preparing(Build(1), L, 1)
  BY <1>2, PreparingStep, BuildIs
<1> HIDE DEF i, c
<1>6. Preparing(first, L, 1)
  BY <1>5, JoinPreparing
<1> HIDE DEF first
<1>7. Ready(op, s, L, 1)
  BY <1>1, <1>2, <1>6, ReadyAllocated
<1> HIDE DEF s, left
<1>8. Ready(op, s, K, 1)
  BY <1>7 DEF Ready, Preparing, K, L
<1>9. Preparing(pre, K, 1) /\ \A u \in Stock(op) : Supplies(pre, u)
  BY <1>2, <1>8, ReadyStream
<1>10. StockedScript(p, pre \o left)
  BY <1>4, <1>7, <1>9, StockedScriptIs DEF op, L, Ready
<1>11. Sound(left, Stock(op)) /\ \A kind \in K : FreedIn(left, 0, kind, 1)
  BY <1>4 DEF LeftOfHandle, op, K
<1> HIDE DEF pre
<1>12. \A u \in Stock(op) : \E j \in DOMAIN pre : Provides(pre[j], u)
  BY <1>9 DEF Supplies
<1>13. Sound(pre \o left, {})
  BY <1>9, <1>11, <1>12, Prepared
<1> QED
  BY <1>3, <1>10, <1>13 DEF op, left

\* Every script is in order.
LEMMA ScriptIs ==
  ASSUME NEW j \in DOMAIN Programs
  PROVE  /\ Sound(Script(Programs[j]), {})
         /\ Programs[j].kind = "matmul" =>
              SharesBuffers(Programs[j]) /\ StockedScript(Programs[j], Script(Programs[j]))
<1> DEFINE p == Programs[j]
<1>1. /\ IsSeq(p.ops) /\ p.ops # <<>>
      /\ \A k \in DOMAIN p.ops :
           /\ Formed(p.ops[k])
           /\ p.kind = "matmul" => SameBuffers(p.ops[k], p.ops[1])
  BY ProgramsAssumption DEF Formed
<1> HIDE DEF p
<1>2. Formed(p.ops[1])
  BY <1>1, SeqIs
<1>3. CASE p.kind = "device"
  BY <1>1, <1>3, DeviceProgramIs DEF Script, p
<1>4. CASE p.kind = "matmul"
  <2>1. SharesBuffers(p)
    BY <1>1, <1>4 DEF SharesBuffers
  <2>2. Script(p) = MatmulNew(p.ops[1]) \o MatmulFrom(p, 1)
    BY <1>4 DEF Script
  <2> QED
    BY <2>1, <2>2, MatmulIs DEF p
<1>5. CASE p.kind # "device" /\ p.kind # "matmul"
  BY <1>2, <1>5, OneShotIs DEF Script, p
<1> QED
  BY <1>3, <1>4, <1>5

-----------------------------------------------------------------------------
(* What a step leaves of a script.                                         *)

\* t is s without its first step x, index by index.
Leaves(s, x, t) ==
  /\ IsSeq(t) /\ Len(t) \in Nat /\ Len(s) = Len(t) + 1 /\ s[1] = x
  /\ DOMAIN t = 1 .. Len(t) /\ DOMAIN s = 1 .. (Len(t) + 1)
  /\ \A i \in 1 .. Len(t) : t[i] = s[i + 1]

LEMMA LeavesTail ==
  ASSUME NEW s, IsSeq(s), s # <<>>
  PROVE  Leaves(s, Head(s), Tail(s))
<1> DEFINE t == Tail(s)
           x == Head(s)
<1>1. /\ IsSeq(t) /\ Len(t) = Len(s) - 1 /\ Len(s) \in Nat \ {0}
      /\ DOMAIN t = 1 .. (Len(s) - 1)
      /\ \A i \in 1 .. (Len(s) - 1) : t[i] = s[i + 1]
      /\ x = s[1]
  BY TailIs
<1>2. DOMAIN s = 1 .. Len(s)
  BY SeqIs
<1> HIDE DEF t, x
<1>3. Len(t) \in Nat /\ Len(s) = Len(t) + 1 /\ Len(s) - 1 = Len(t)
  BY <1>1
<1>4. Leaves(s, x, t)
  BY <1>1, <1>2, <1>3 DEF Leaves
<1> QED
  BY <1>4 DEF t, x

LEMMA LeftWaits ==
  ASSUME NEW s, NEW x, NEW t, Leaves(s, x, t)
  PROVE  /\ Waited(s, 0) /\ x.do # "sync" => x.do # "free" /\ Waited(t, 0)
         /\ Waits(s) => Waits(t) /\ (Queues(x) => Waited(t, 0))
<1> DEFINE n == Len(t)
<1>1. /\ n \in Nat /\ Len(s) = n + 1 /\ s[1] = x
      /\ DOMAIN t = 1 .. n /\ DOMAIN s = 1 .. (n + 1)
      /\ \A i \in 1 .. n : t[i] = s[i + 1]
  BY DEF Leaves
<1>2. ASSUME NEW i \in 0 .. n, Waited(s, i + 1)
      PROVE  Waited(t, i)
  <2>1. PICK j \in (i + 1 + 1) .. (n + 1) :
               s[j].do = "sync" /\ \A f \in (i + 1 + 1) .. j : s[f].do # "free"
    BY <1>1, <1>2 DEF Waited, Keeps
  <2>2. j - 1 \in (i + 1) .. n /\ j - 1 \in 1 .. n /\ (j - 1) + 1 = j
    BY <1>1, <2>1
  <2>3. t[j - 1].do = "sync"
    BY <1>1, <2>1, <2>2
  <2>4. ASSUME NEW f \in (i + 1) .. (j - 1) PROVE t[f].do # "free"
    <3>1. f \in 1 .. n /\ f + 1 \in (i + 1 + 1) .. j
      BY <1>1, <2>1, <2>2
    <3> QED
      BY <1>1, <2>1, <3>1
  <2> QED
    BY <2>2, <2>3, <2>4 DEF Waited, Keeps
<1>3. ASSUME Waited(s, 0), x.do # "sync"
      PROVE  x.do # "free" /\ Waited(t, 0)
  <2>1. PICK j \in 1 .. (n + 1) : s[j].do = "sync" /\ \A f \in 1 .. j : s[f].do # "free"
    BY <1>1, <1>3 DEF Waited, Keeps
  <2>2. j # 1
    BY <1>1, <1>3, <2>1
  <2>3. x.do # "free"
    BY <1>1, <2>1
  <2>4. j \in (0 + 1 + 1) .. (n + 1) /\ \A f \in (0 + 1 + 1) .. j : s[f].do # "free"
    BY <1>1, <2>1, <2>2
  <2>5. Waited(s, 0 + 1)
    BY <1>1, <2>1, <2>4 DEF Waited, Keeps
  <2> QED
    BY <1>1, <1>2, <2>3, <2>5
<1>4. ASSUME Waits(s), NEW i \in DOMAIN t, Queues(t[i])
      PROVE  Waited(t, i)
  <2>1. i + 1 \in DOMAIN s /\ Queues(s[i + 1]) /\ i \in 0 .. n
    BY <1>1, <1>4
  <2> QED
    BY <1>2, <1>4, <2>1 DEF Waits
<1>5. ASSUME Waits(s), Queues(x)
      PROVE  Waited(t, 0)
  <2>1. Waited(s, 0 + 1)
    BY <1>1, <1>5 DEF Waits
  <2> QED
    BY <1>1, <1>2, <2>1
<1> QED
  BY <1>3, <1>4, <1>5 DEF Waits

LEMMA LeftGivesBack ==
  ASSUME NEW s, NEW x, NEW t, Leaves(s, x, t)
  PROVE  /\ \A kind, k : FreedIn(s, 0, kind, k) => Frees(x, kind, k) \/ FreedIn(t, 0, kind, k)
         /\ GivesBack(s) => GivesBack(t) /\ (Acquires(x) => FreedIn(t, 0, KindOf(x), x.k))
<1> DEFINE n == Len(t)
<1>1. /\ n \in Nat /\ Len(s) = n + 1 /\ s[1] = x
      /\ DOMAIN t = 1 .. n /\ DOMAIN s = 1 .. (n + 1)
      /\ \A i \in 1 .. n : t[i] = s[i + 1]
  BY DEF Leaves
<1>2. ASSUME NEW i \in 0 .. n, NEW kind, NEW k, FreedIn(s, i + 1, kind, k)
      PROVE  FreedIn(t, i, kind, k)
  <2>1. CASE kind = "recipe"
    BY <2>1 DEF FreedIn
  <2>2. CASE kind # "recipe"
    <3>1. PICK j \in (i + 1 + 1) .. (n + 1) : Frees(s[j], kind, k)
      BY <1>1, <1>2, <2>2 DEF FreedIn
    <3>2. j - 1 \in (i + 1) .. n /\ j - 1 \in 1 .. n /\ (j - 1) + 1 = j
      BY <1>1, <3>1
    <3>3. Frees(t[j - 1], kind, k)
      BY <1>1, <3>1, <3>2
    <3> QED
      BY <3>2, <3>3 DEF FreedIn
  <2> QED
    BY <2>1, <2>2
<1>3. ASSUME NEW kind, NEW k, FreedIn(s, 0, kind, k)
      PROVE  Frees(x, kind, k) \/ FreedIn(t, 0, kind, k)
  <2>1. CASE kind = "recipe"
    BY <2>1 DEF FreedIn
  <2>2. CASE kind # "recipe"
    <3>1. PICK j \in 1 .. (n + 1) : Frees(s[j], kind, k)
      BY <1>1, <1>3, <2>2 DEF FreedIn
    <3>2. CASE j = 1
      BY <1>1, <3>1, <3>2
    <3>3. CASE j # 1
      <4>1. j \in (0 + 1 + 1) .. (n + 1)
        BY <1>1, <3>1, <3>3
      <4>2. FreedIn(s, 0 + 1, kind, k)
        BY <1>1, <3>1, <4>1 DEF FreedIn
      <4> QED
        BY <1>1, <1>2, <4>2
    <3> QED
      BY <3>2, <3>3
  <2> QED
    BY <2>1, <2>2
<1>4. ASSUME GivesBack(s), NEW i \in DOMAIN t, Acquires(t[i])
      PROVE  FreedIn(t, i, KindOf(t[i]), t[i].k)
  <2>1. i + 1 \in DOMAIN s /\ s[i + 1] = t[i] /\ i \in 0 .. n
    BY <1>1, <1>4
  <2>2. FreedIn(s, i + 1, KindOf(t[i]), t[i].k)
    BY <1>4, <2>1 DEF GivesBack
  <2> QED
    BY <1>2, <2>1, <2>2
<1>5. ASSUME GivesBack(s), Acquires(x)
      PROVE  FreedIn(t, 0, KindOf(x), x.k)
  <2>1. FreedIn(s, 0 + 1, KindOf(x), x.k)
    BY <1>1, <1>5 DEF GivesBack
  <2> QED
    BY <1>1, <1>2, <2>1
<1> QED
  BY <1>3, <1>4, <1>5 DEF GivesBack

LEMMA LeftSupplied ==
  ASSUME NEW s, NEW x, NEW t, Leaves(s, x, t), NEW has, Supplied(s, has), NEW more,
         x.do # "free" => \A u : u \in has \/ Provides(x, u) => u \in more
  PROVE  /\ Supplied(t, more)
         /\ Queues(x) => Uses(x.do, x.arg) \subseteq has
<1> DEFINE n == Len(t)
<1>1. /\ n \in Nat /\ Len(s) = n + 1 /\ s[1] = x
      /\ DOMAIN t = 1 .. n /\ DOMAIN s = 1 .. (n + 1)
      /\ \A i \in 1 .. n : t[i] = s[i + 1]
  BY DEF Leaves
<1>2. ASSUME NEW i \in 1 .. n, NEW j \in 0 .. i, Keeps(s, j + 1, i + 1), NEW f \in j .. i, f # 0
      PROVE  t[f].do # "free"
  <2>1. f + 1 \in (j + 1) .. (i + 1) /\ f \in 1 .. n
    BY <1>1, <1>2
  <2> QED
    BY <1>1, <1>2, <2>1 DEF Keeps
<1>3. ASSUME NEW i \in DOMAIN t, Queues(t[i]), NEW u \in Uses(t[i].do, t[i].arg)
      PROVE  \/ u \in more /\ Keeps(t, 1, i)
             \/ \E j \in 1 .. (i - 1) : Provides(t[j], u) /\ Keeps(t, j, i)
  <2>1. i + 1 \in DOMAIN s /\ s[i + 1] = t[i]
    BY <1>1
  <2>2. \/ u \in has /\ Keeps(s, 1, i + 1)
        \/ \E j \in 1 .. ((i + 1) - 1) : Provides(s[j], u) /\ Keeps(s, j, i + 1)
    BY <1>3, <2>1 DEF Supplied
  <2>3. ASSUME Keeps(s, 1, i + 1)
        PROVE  x.do # "free" /\ Keeps(t, 1, i)
    <3>1. 1 \in 1 .. (i + 1) /\ 0 \in 0 .. i /\ 0 + 1 = 1
      BY <1>1, <1>3
    <3>2. x.do # "free"
      BY <1>1, <2>3, <3>1 DEF Keeps
    <3>3. \A f \in 1 .. i : f \in 0 .. i /\ f # 0
      BY <1>1, <1>3
    <3> QED
      BY <1>1, <1>2, <1>3, <2>3, <3>1, <3>2, <3>3 DEF Keeps
  <2>4. CASE u \in has /\ Keeps(s, 1, i + 1)
    BY <2>3, <2>4
  <2>5. ASSUME NEW j \in 1 .. ((i + 1) - 1), Provides(s[j], u), Keeps(s, j, i + 1)
        PROVE  \/ u \in more /\ Keeps(t, 1, i)
               \/ \E l \in 1 .. (i - 1) : Provides(t[l], u) /\ Keeps(t, l, i)
    <3>1. CASE j = 1
      BY <1>1, <2>3, <2>5, <3>1
    <3>2. CASE j # 1
      <4>1. j - 1 \in 1 .. (i - 1) /\ j - 1 \in 0 .. i /\ (j - 1) + 1 = j /\ j - 1 \in 1 .. n
        BY <1>1, <1>3, <2>5, <3>2
      <4>2. Provides(t[j - 1], u)
        BY <1>1, <2>5, <4>1
      <4>3. ASSUME NEW f \in (j - 1) .. i PROVE f # 0
        BY <4>1
      <4>4. Keeps(s, (j - 1) + 1, i + 1)
        BY <2>5, <4>1
      <4>5. \A f \in (j - 1) .. i : t[f].do # "free"
        BY <1>1, <1>2, <1>3, <4>1, <4>3, <4>4
      <4> QED
        BY <4>1, <4>2, <4>5 DEF Keeps
    <3> QED
      BY <3>1, <3>2
  <2> QED
    BY <2>2, <2>4, <2>5
<1>4. ASSUME Queues(x), NEW u \in Uses(x.do, x.arg)
      PROVE  u \in has
  <2>1. 1 \in DOMAIN s /\ \A j : j \notin 1 .. (1 - 1)
    BY <1>1
  <2> QED
    BY <1>1, <1>4, <2>1 DEF Supplied
<1> QED
  BY <1>3, <1>4 DEF Supplied

-----------------------------------------------------------------------------
(* The invariant.                                                          *)

\* A step of the program that gives nothing back: it acquires what it is for,
\* queues itself, or neither.
Advances ==
  /\ todo # <<>> /\ Now.do # "free"
  /\ held \subseteq held'
  /\ \A r \in held' : \/ r \in held
                      \/ /\ Acquires(Now) /\ r.call = calls /\ r.k = Now.k
                         /\ r.kind = KindOf(Now)
  /\ \A u : Provides(Now, u) => \E r \in held' : r.call = calls /\ u = <<r.kind, r.name>>
  /\ \/ UNCHANGED queue
     \/ Queues(Now) /\ queue' = Append(queue, Queued)
  /\ Now.do = "sync" => \A j \in DOMAIN queue : queue[j].call # calls
  /\ todo' = Tail(todo)
  /\ UNCHANGED <<calls, prog, failed>>

\* What a queue holds.
LEMMA AppendIs ==
  ASSUME NEW s, IsSeq(s), NEW x
  PROVE  /\ IsSeq(Append(s, x))
         /\ \A j \in DOMAIN Append(s, x) :
              Append(s, x)[j] = x \/ \E i \in DOMAIN s : Append(s, x)[j] = s[i]
<1> DEFINE t == <<x>>
           st == s \o t
           n == Len(s)
<1>1. IsSeq(t) /\ Len(t) = 1 /\ t[1] = x
  BY OneIs
<1>2. Append(s, x) = st
  BY DEF IsSeq
<1> HIDE DEF t
<1>3. Joins(s, t, st)
  BY <1>1, Joined
<1> HIDE DEF st
<1>4. /\ IsSeq(st) /\ DOMAIN s = 1 .. n /\ DOMAIN st = 1 .. (n + 1) /\ n \in Nat
      /\ \A i \in 1 .. n : st[i] = s[i]
      /\ st[n + 1] = x
  BY <1>1, <1>3 DEF Joins
<1> HIDE DEF n
<1>5. \A j \in 1 .. (n + 1) : j \in 1 .. n \/ j = n + 1
  BY <1>4
<1>6. \A j \in DOMAIN st : st[j] = x \/ \E i \in DOMAIN s : st[j] = s[i]
  BY <1>4, <1>5
<1> QED
  BY <1>2, <1>4, <1>6

\* The next state in terms of its script.
LEMMA InOrderNext ==
  ASSUME calls' \notin failed' =>
           /\ GivesBack(todo') /\ Waits(todo') /\ Supplied(todo', InHand')
           /\ \A r \in held' : r.call = calls' => FreedIn(todo', 0, r.kind, r.k)
           /\ \A j \in DOMAIN queue' : queue'[j].call = calls' =>
                 Uses(queue'[j].do, queue'[j].name) \subseteq InHand' /\ Waited(todo', 0)
  PROVE  InOrder'
BY DEF InOrder, Ours, OfNow, GivesBack, Waits, Supplied, FreedIn, Frees, Waited, Keeps,
       Acquires, Queues, KindOf, Provides, Uses

\* Where the order of a program's steps agrees with what it holds and queued.
LEMMA AdvancesInOrder ==
  ASSUME TypeOK, InOrder, Advances
  PROVE  InOrder'
<1> SUFFICES ASSUME calls \notin failed
             PROVE  /\ GivesBack(todo') /\ Waits(todo') /\ Supplied(todo', InHand')
                    /\ \A r \in held' : r.call = calls => FreedIn(todo', 0, r.kind, r.k)
                    /\ \A j \in DOMAIN queue' : queue'[j].call = calls =>
                          /\ Uses(queue'[j].do, queue'[j].name) \subseteq InHand'
                          /\ Waited(todo', 0)
  BY InOrderNext DEF Advances
<1> DEFINE T == todo'
           Q == queue'
           H == held'
           I == InHand'
<1>1. IsSeq(todo) /\ IsSeq(queue)
  BY DEF TypeOK
<1>2. Leaves(todo, Now, T)
  BY <1>1, LeavesTail DEF Advances, Now
<1>3. /\ GivesBack(todo) /\ Waits(todo) /\ Supplied(todo, InHand)
      /\ \A r \in held : r.call = calls => FreedIn(todo, 0, r.kind, r.k)
      /\ \A j \in DOMAIN queue : queue[j].call = calls =>
            Uses(queue[j].do, queue[j].name) \subseteq InHand /\ Waited(todo, 0)
  BY DEF InOrder, Ours, OfNow
<1>4. I = {<<r.kind, r.name>> : r \in {h \in H : h.call = calls}}
  BY DEF InHand, Ours, Advances
<1>5. \A u : u \in InHand \/ Provides(Now, u) => u \in I
  BY <1>4 DEF InHand, Ours, Advances
<1>6. Now.do # "free" /\ \A kind, k : ~Frees(Now, kind, k)
  BY DEF Advances, Frees
<1>7. /\ \A r \in H : r \in held \/ (Acquires(Now) /\ r.k = Now.k /\ r.kind = KindOf(Now))
      /\ Q = queue \/ (Queues(Now) /\ Q = Append(queue, Queued))
      /\ Now.do = "sync" => \A j \in DOMAIN queue : queue[j].call # calls
  BY DEF Advances
<1> HIDE DEF T, Q, H, I
<1>8. GivesBack(T) /\ (Acquires(Now) => FreedIn(T, 0, KindOf(Now), Now.k))
  BY <1>2, <1>3, LeftGivesBack
<1>9. Waits(T) /\ (Queues(Now) => Waited(T, 0))
  BY <1>2, <1>3, LeftWaits
<1>10. Supplied(T, I) /\ (Queues(Now) => Uses(Now.do, Now.arg) \subseteq InHand)
  BY <1>2, <1>3, <1>5, LeftSupplied
<1>11. ASSUME NEW r \in H, r.call = calls PROVE FreedIn(T, 0, r.kind, r.k)
  <2>1. CASE r \in held
    <3>1. FreedIn(todo, 0, r.kind, r.k)
      BY <1>3, <1>11, <2>1
    <3> QED
      BY <1>2, <1>6, <3>1, LeftGivesBack
  <2>2. CASE Acquires(Now) /\ r.k = Now.k /\ r.kind = KindOf(Now)
    BY <1>8, <2>2
  <2> QED
    BY <1>7, <2>1, <2>2
<1>12. ASSUME NEW i \in DOMAIN queue, queue[i].call = calls
       PROVE  Uses(queue[i].do, queue[i].name) \subseteq I /\ Waited(T, 0)
  <2>1. Uses(queue[i].do, queue[i].name) \subseteq InHand /\ Waited(todo, 0) /\ Now.do # "sync"
    BY <1>3, <1>7, <1>12
  <2> QED
    BY <1>2, <1>5, <2>1, LeftWaits
<1>13. ASSUME NEW j \in DOMAIN Q, Q[j].call = calls
       PROVE  Uses(Q[j].do, Q[j].name) \subseteq I /\ Waited(T, 0)
  <2>1. CASE Q = queue
    BY <1>12, <1>13, <2>1
  <2>2. CASE Queues(Now) /\ Q = Append(queue, Queued)
    <3>1. CASE Q[j] = Queued
      <4>1. Queued.do = Now.do /\ Queued.name = Now.arg
        BY DEF Queued
      <4> QED
        BY <1>5, <1>9, <1>10, <2>2, <3>1, <4>1
    <3>2. ASSUME NEW i \in DOMAIN queue, Q[j] = queue[i]
          PROVE  Uses(Q[j].do, Q[j].name) \subseteq I /\ Waited(T, 0)
      BY <1>12, <1>13, <3>2
    <3>3. Q[j] = Queued \/ \E i \in DOMAIN queue : Q[j] = queue[i]
      BY <1>1, <1>13, <2>2, AppendIs
    <3> QED
      BY <3>1, <3>2, <3>3
  <2> QED
    BY <1>7, <2>1, <2>2
<1> QED
  BY <1>8, <1>9, <1>10, <1>11, <1>13 DEF T, Q, H, I

LEMMA AdvancesEarlier ==
  ASSUME TypeOK, Earlier, Advances
  PROVE  Earlier'
<1>1. calls' = calls /\ failed' = failed
  BY DEF Advances
<1>2. ASSUME NEW r \in held' PROVE Ours(r)' \/ Excused(r)'
  BY <1>1 DEF Advances, Earlier, Ours, Excused
<1>3. ASSUME NEW j \in DOMAIN queue' PROVE OfNow(queue'[j]) \/ queue'[j].call \in failed
  <2>1. CASE queue' = queue
    BY <2>1 DEF Earlier
  <2>2. CASE queue' = Append(queue, Queued)
    <3>1. Queued.call = calls
      BY DEF Queued
    <3>2. queue'[j] = Queued \/ \E i \in DOMAIN queue : queue'[j] = queue[i]
      BY <2>2, AppendIs DEF TypeOK
    <3> QED
      BY <3>1, <3>2 DEF Earlier, OfNow
  <2> QED
    BY <2>1, <2>2 DEF Advances
<1> QED
  BY <1>1, <1>2, <1>3 DEF Earlier, OfNow

LEMMA AdvancesDropsDevice ==
  ASSUME TypeOK, DropsDevice, Advances, InOrder'
  PROVE  DropsDevice'
<1>1. 1 \in DOMAIN todo /\ todo[1] = Now
  <2>1. Leaves(todo, Now, Tail(todo))
    BY LeavesTail DEF TypeOK, Advances, Now
  <2> QED
    BY <2>1 DEF Leaves
<1>2. calls' = calls /\ failed' = failed /\ calls \notin failed
  BY <1>1 DEF Advances, DropsDevice
<1>3. ASSUME Has("card")' PROVE FreedIn(todo, 0, "card", 1)'
  <2>1. PICK r \in held' : r.call = calls /\ r.kind = "card"
    BY <1>2, <1>3 DEF Has, Ours
  <2>2. FreedIn(todo, 0, "card", r.k)'
    BY <1>2, <2>1 DEF InOrder, Ours
  <2>3. "card" \in Context
    BY DEF Context
  <2> QED
    BY <2>2, <2>3 DEF FreedIn, Frees
<1> QED
  BY <1>2, <1>3 DEF DropsDevice

LEMMA AdvancesStocked ==
  ASSUME TypeOK, Stocked, Advances
  PROVE  Stocked'
<1> DEFINE T == todo'
           H == held'
           I == InHand'
           n == Len(T)
<1>1. calls' = calls /\ failed' = failed /\ prog' = prog
  BY DEF Advances
<1> SUFFICES ASSUME prog.kind = "matmul", calls \notin failed
             PROVE  /\ \A r \in H : r.call = calls => r.kind \in MatmulKinds /\ r.k = 1
                    /\ \A i \in DOMAIN T :
                         /\ T[i].k \in DOMAIN prog.ops
                         /\ Acquires(T[i]) => KindOf(T[i]) \in MatmulKinds /\ T[i].k = 1
                         /\ T[i].do = "free" => i = n
                         /\ (\E r \in H : r.call = calls /\ r.kind = "stream") => ~Acquires(T[i])
                         /\ T[i].do = "make" /\ T[i].arg = "stream" =>
                              \A j \in (i + 1) .. n : ~Acquires(T[j])
                    /\ T # <<>> =>
                         \A u \in Stock(prog.ops[1]) : u \in I \/ \E i \in DOMAIN T : Provides(T[i], u)
  BY <1>1 DEF Stocked, Ours, Has, Acquires, KindOf, Provides
<1>2. Leaves(todo, Now, T)
  BY LeavesTail DEF TypeOK, Advances, Now
<1>3. /\ \A r \in held : r.call = calls => r.kind \in MatmulKinds /\ r.k = 1
      /\ \A i \in DOMAIN todo :
           /\ todo[i].k \in DOMAIN prog.ops
           /\ Acquires(todo[i]) => KindOf(todo[i]) \in MatmulKinds /\ todo[i].k = 1
           /\ todo[i].do = "free" => i = Len(todo)
           /\ (\E r \in held : r.call = calls /\ r.kind = "stream") => ~Acquires(todo[i])
           /\ todo[i].do = "make" /\ todo[i].arg = "stream" =>
                \A j \in (i + 1) .. Len(todo) : ~Acquires(todo[j])
      /\ \A u \in Stock(prog.ops[1]) : u \in InHand \/ \E i \in DOMAIN todo : Provides(todo[i], u)
  BY DEF Stocked, Ours, Has, Advances
<1>4. I = {<<r.kind, r.name>> : r \in {h \in H : h.call = calls}}
  BY DEF InHand, Ours, Advances
<1>5. \A u : u \in InHand \/ Provides(Now, u) => u \in I
  BY <1>4 DEF InHand, Ours, Advances
<1>6. \A r \in H : r \in held \/ (Acquires(Now) /\ r.k = Now.k /\ r.kind = KindOf(Now))
  BY DEF Advances
<1> HIDE DEF T, H, I, n
<1>7. /\ n \in Nat /\ Len(todo) = n + 1 /\ todo[1] = Now
      /\ DOMAIN T = 1 .. n /\ DOMAIN todo = 1 .. (n + 1)
      /\ \A i \in 1 .. n : T[i] = todo[i + 1]
  BY <1>2 DEF Leaves, n
<1>8. 1 \in DOMAIN todo /\ \A i \in 1 .. n : i + 1 \in DOMAIN todo
  BY <1>7
<1>9. ASSUME NEW r \in H, r.call = calls PROVE r.kind \in MatmulKinds /\ r.k = 1
  BY <1>3, <1>6, <1>7, <1>8, <1>9
<1>10. ASSUME NEW i \in DOMAIN T
       PROVE  /\ T[i].k \in DOMAIN prog.ops
              /\ Acquires(T[i]) => KindOf(T[i]) \in MatmulKinds /\ T[i].k = 1
              /\ T[i].do = "free" => i = n
  <2>1. i + 1 \in DOMAIN todo /\ T[i] = todo[i + 1] /\ i \in Nat
    BY <1>7
  <2> QED
    BY <1>3, <1>7, <2>1
<1>11. ASSUME NEW i \in DOMAIN T, NEW r \in H, r.call = calls, r.kind = "stream"
       PROVE  ~Acquires(T[i])
  <2>1. i + 1 \in DOMAIN todo /\ T[i] = todo[i + 1] /\ i \in Nat /\ i + 1 \in (1 + 1) .. Len(todo)
    BY <1>7
  <2>2. CASE r \in held
    BY <1>3, <1>11, <2>1, <2>2
  <2>3. CASE Acquires(Now) /\ r.kind = KindOf(Now)
    <3>1. Now.do = "make" /\ Now.arg = "stream"
      BY <1>11, <2>3 DEF Acquires, KindOf
    <3> QED
      BY <1>3, <1>7, <1>8, <2>1, <3>1
  <2> QED
    BY <1>6, <2>2, <2>3
<1>12. ASSUME NEW i \in DOMAIN T, T[i].do = "make", T[i].arg = "stream", NEW j \in (i + 1) .. n
       PROVE  ~Acquires(T[j])
  <2>1. i + 1 \in DOMAIN todo /\ T[i] = todo[i + 1] /\ T[j] = todo[j + 1]
    BY <1>7, <1>12
  <2>2. j + 1 \in (i + 1 + 1) .. Len(todo)
    BY <1>7, <1>12
  <2> QED
    BY <1>3, <1>12, <2>1, <2>2
<1>13. ASSUME NEW u \in Stock(prog.ops[1])
       PROVE  u \in I \/ \E i \in DOMAIN T : Provides(T[i], u)
  <2>1. CASE u \in InHand
    BY <1>5, <2>1
  <2>2. ASSUME NEW i \in DOMAIN todo, Provides(todo[i], u)
        PROVE  u \in I \/ \E l \in DOMAIN T : Provides(T[l], u)
    <3>1. CASE i = 1
      BY <1>5, <1>7, <2>2, <3>1
    <3>2. CASE i # 1
      <4>1. i - 1 \in 1 .. n /\ (i - 1) + 1 = i
        BY <1>7, <2>2, <3>2
      <4>2. Provides(T[i - 1], u)
        BY <1>7, <2>2, <4>1
      <4> QED
        BY <1>7, <4>1, <4>2
    <3> QED
      BY <3>1, <3>2
  <2> QED
    BY <1>3, <2>1, <2>2
<1> QED
  BY <1>9, <1>10, <1>11, <1>12, <1>13

LEMMA AdvancesTodo ==
  ASSUME TypeOK, Advances
  PROVE  IsSeq(todo') /\ IsSeq(queue') /\ \A r \in held' : r.call \in 0 .. calls'
<1>1. IsSeq(Tail(todo))
  BY TailIs DEF TypeOK, Advances
<1>2. \A r \in held' : r.call \in 0 .. calls'
  BY DEF TypeOK, Advances
<1>3. IsSeq(Append(queue, Queued))
  BY AppendIs DEF TypeOK
<1> QED
  BY <1>1, <1>2, <1>3 DEF TypeOK, Advances

\* The steps that give nothing back.
Quiet == Make \/ AcquireCard \/ Malloc \/ Workspace \/ Fill \/ Enqueue \/ Synchronize \/ ReadBack

LEMMA AcquireAdvances ==
  ASSUME todo # <<>>, Acquires(Now), NEW name,
         held' = held \cup {Held(KindOf(Now), name)},
         \A u : Provides(Now, u) => u = <<KindOf(Now), name>>,
         todo' = Tail(todo), UNCHANGED <<calls, prog, queue, failed>>
  PROVE  Advances
<1> DEFINE r == Held(KindOf(Now), name)
<1>1. r.call = calls /\ r.k = Now.k /\ r.kind = KindOf(Now) /\ r.name = name /\ r \in held'
  BY DEF Held
<1>2. Now.do # "free" /\ Now.do # "sync"
  BY DEF Acquires
<1>3. \A h \in held' : h \in held \/ h = r
  OBVIOUS
<1>4. held \subseteq held'
  OBVIOUS
<1> HIDE DEF r
<1>5. \A u : Provides(Now, u) => \E h \in held' : h.call = calls /\ u = <<h.kind, h.name>>
  BY <1>1
<1> QED
  BY <1>1, <1>2, <1>3, <1>4, <1>5 DEF Advances

LEMMA QuietAdvances ==
  ASSUME Quiet
  PROVE  Advances
<1>1. CASE Make
  <2>1. Acquires(Now) /\ KindOf(Now) = Now.arg /\ \A u : Provides(Now, u) => u = <<Now.arg, Gl("")>>
    BY <1>1 DEF Make, Does, Acquires, KindOf, Provides
  <2> QED
    BY <1>1, <2>1, AcquireAdvances DEF Make, Does
<1>2. CASE AcquireCard
  <2>1. Acquires(Now) /\ KindOf(Now) = "card" /\ \A u : ~Provides(Now, u)
    BY <1>2 DEF AcquireCard, Does, Acquires, KindOf, Provides
  <2>2. PICK c : held' = held \cup {Held("card", Nm("card", c))}
    BY <1>2 DEF AcquireCard
  <2> QED
    BY <1>2, <2>1, <2>2, AcquireAdvances DEF AcquireCard, Does
<1>3. CASE Malloc
  <2>1. Acquires(Now) /\ KindOf(Now) = Now.do /\ \A u : Provides(Now, u) => u = <<Now.do, Now.arg>>
    BY <1>3 DEF Malloc, Does, Acquires, KindOf, Provides
  <2> QED
    BY <1>3, <2>1, AcquireAdvances DEF Malloc, Does
<1>4. CASE Workspace
  <2>1. Acquires(Now) /\ KindOf(Now) = "ws" /\ \A u : ~Provides(Now, u)
    BY <1>4 DEF Workspace, Does, Acquires, KindOf, Provides
  <2>2. CASE held' = held \cup {Held("ws", Gl(""))}
    BY <1>4, <2>1, <2>2, AcquireAdvances DEF Workspace, Does
  <2>3. CASE held' = held
    BY <1>4, <2>1, <2>3 DEF Workspace, Advances, Does
  <2> QED
    BY <1>4, <2>2, <2>3 DEF Workspace
<1>5. CASE Fill
  BY <1>5 DEF Fill, Advances, Does, Provides
<1>6. CASE Enqueue
  BY <1>6 DEF Enqueue, Advances, Does, Queues, Provides
<1>7. CASE Synchronize
  BY <1>7 DEF Synchronize, Advances, Does, Provides
<1>8. CASE ReadBack
  BY <1>8 DEF ReadBack, Advances, Does, Provides
<1> QED
  BY <1>1, <1>2, <1>3, <1>4, <1>5, <1>6, <1>7, <1>8 DEF Quiet

\* Only AcquireCard among them takes a card, and it holds it.
LEMMA QuietCards ==
  ASSUME TypeOK, TakenAreHeld, Quiet
  PROVE  cards' \in [1 .. Cards -> {"free", "taken", "settling"}] /\ TakenAreHeld'
<1>1. held \subseteq held'
  BY QuietAdvances DEF Advances
<1>2. CASE UNCHANGED cards
  BY <1>1, <1>2 DEF TypeOK, TakenAreHeld
<1>3. CASE AcquireCard
  <2>1. PICK c : /\ cards' = [cards EXCEPT ![c] = "taken"]
                 /\ held' = held \cup {Held("card", Nm("card", c))}
    BY <1>3 DEF AcquireCard
  <2> DEFINE r == Held("card", Nm("card", c))
  <2>2. r.kind = "card" /\ r.name = Nm("card", c) /\ r \in held'
    BY <2>1 DEF Held
  <2> HIDE DEF r
  <2>3. cards' \in [1 .. Cards -> {"free", "taken", "settling"}]
    BY <2>1 DEF TypeOK
  <2>4. ASSUME NEW o \in 1 .. Cards, cards'[o] = "taken"
        PROVE  \E h \in held' : h.kind = "card" /\ h.name = Nm("card", o)
    <3>1. CASE o = c
      BY <2>2, <3>1
    <3>2. CASE o # c
      <4>1. cards[o] = "taken"
        BY <2>1, <2>4, <3>2 DEF TypeOK
      <4> QED
        BY <1>1, <4>1 DEF TakenAreHeld
    <3> QED
      BY <3>1, <3>2
  <2> QED
    BY <2>3, <2>4 DEF TakenAreHeld
<1> QED
  BY <1>2, <1>3 DEF Quiet, Make, Malloc, Workspace, Fill, Enqueue, Synchronize, ReadBack

LEMMA QuietKeeps ==
  ASSUME IInv, Quiet
  PROVE  IInv'
<1>1. Advances
  BY QuietAdvances
<1>2. InOrder' /\ Earlier' /\ Stocked'
  BY <1>1, AdvancesInOrder, AdvancesEarlier, AdvancesStocked DEF IInv
<1>3. DropsDevice'
  BY <1>1, <1>2, AdvancesDropsDevice DEF IInv
<1>4. cards' \in [1 .. Cards -> {"free", "taken", "settling"}] /\ TakenAreHeld'
  BY QuietCards DEF IInv
<1>5. TypeOK'
  BY <1>1, <1>4, AdvancesTodo DEF IInv, TypeOK, Advances
<1> QED
  BY <1>2, <1>3, <1>4, <1>5 DEF IInv

LEMMA FreeKeeps ==
  ASSUME IInv, Free
  PROVE  IInv'
<1> DEFINE back == GivenBack(Now.arg, Now.k)
           T == todo'
           n == Len(T)
<1>1. /\ todo # <<>> /\ Now.do = "free"
      /\ held' = held \ back
      /\ cards' = [c \in 1 .. Cards |->
                     IF \E r \in back : r.kind = "card" /\ r.name = Nm("card", c) THEN "settling"
                     ELSE cards[c]]
      /\ T = Tail(todo)
      /\ calls' = calls /\ prog' = prog /\ queue' = queue /\ failed' = failed
  BY DEF Free, Does
<1>2. Leaves(todo, Now, T) /\ IsSeq(T)
  <2>1. Leaves(todo, Now, Tail(todo))
    BY <1>1, LeavesTail DEF IInv, TypeOK, Now
  <2> QED
    BY <1>1, <2>1 DEF Leaves
<1>3. /\ n \in Nat /\ Len(todo) = n + 1 /\ todo[1] = Now
      /\ DOMAIN T = 1 .. n /\ DOMAIN todo = 1 .. (n + 1)
      /\ \A i \in 1 .. n : T[i] = todo[i + 1]
  BY <1>2 DEF Leaves
<1>4. \A r \in held : r.call = calls /\ Frees(Now, r.kind, r.k) => r \notin held'
  BY <1>1 DEF GivenBack, Frees, Ours
<1>5. TypeOK'
  <2>1. cards' \in [1 .. Cards -> {"free", "taken", "settling"}]
    BY <1>1 DEF IInv, TypeOK
  <2> QED
    BY <1>1, <1>2, <2>1 DEF IInv, TypeOK
<1>6. Earlier'
  BY <1>1 DEF IInv, Earlier, Ours, Excused, OfNow
<1>7. TakenAreHeld'
  <2> SUFFICES ASSUME NEW c \in 1 .. Cards, cards'[c] = "taken"
               PROVE  \E r \in held' : r.kind = "card" /\ r.name = Nm("card", c)
    BY DEF TakenAreHeld
  <2>1. cards[c] = "taken" /\ ~ \E r \in back : r.kind = "card" /\ r.name = Nm("card", c)
    BY <1>1
  <2> QED
    BY <1>1, <2>1 DEF IInv, TakenAreHeld
<1>8. DropsDevice'
  <2>1. ASSUME prog.kind = "device", Has("card")' PROVE FreedIn(T, 0, "card", 1)
    <3>1. PICK r \in held' : r.call = calls /\ r.kind = "card"
      BY <1>1, <2>1 DEF Has, Ours
    <3>2. r \in held /\ Has("card")
      BY <1>1, <3>1 DEF Has, Ours
    <3>3. FreedIn(todo, 0, "card", 1)
      BY <2>1, <3>2 DEF IInv, DropsDevice
    <3>4. ~Frees(Now, "card", 1)
      BY <1>4, <3>1, <3>2 DEF Frees, Context
    <3> HIDE DEF T
    <3> QED
      BY <1>2, <3>3, <3>4, LeftGivesBack
  <2>2. ASSUME calls \in failed, NEW i \in DOMAIN T PROVE T[i].do = "free"
    <3>1. i + 1 \in DOMAIN todo /\ T[i] = todo[i + 1]
      BY <1>3
    <3> QED
      BY <2>2, <3>1 DEF IInv, DropsDevice
  <2> QED
    BY <1>1, <2>1, <2>2 DEF DropsDevice, FreedIn, Frees
<1>9. InOrder'
  <2> SUFFICES ASSUME calls \notin failed
               PROVE  /\ GivesBack(T) /\ Waits(T) /\ Supplied(T, InHand')
                      /\ \A r \in held' : r.call = calls => FreedIn(T, 0, r.kind, r.k)
                      /\ \A j \in DOMAIN queue : queue[j].call # calls
    BY <1>1, InOrderNext
  <2>1. /\ GivesBack(todo) /\ Waits(todo) /\ Supplied(todo, InHand)
        /\ \A r \in held : r.call = calls => FreedIn(todo, 0, r.kind, r.k)
        /\ \A j \in DOMAIN queue : queue[j].call = calls => Waited(todo, 0)
    BY DEF IInv, InOrder, Ours, OfNow
  <2> HIDE DEF T
  <2>2. GivesBack(T) /\ Waits(T)
    BY <1>2, <2>1, LeftGivesBack, LeftWaits
  <2>3. Supplied(T, InHand')
    BY <1>1, <1>2, <2>1, LeftSupplied
  <2>4. ASSUME NEW r \in held', r.call = calls PROVE FreedIn(T, 0, r.kind, r.k)
    <3>1. r \in held /\ ~Frees(Now, r.kind, r.k)
      BY <1>1, <1>4, <2>4
    <3>2. FreedIn(todo, 0, r.kind, r.k)
      BY <2>1, <2>4, <3>1
    <3> QED
      BY <1>2, <3>1, <3>2, LeftGivesBack
  <2>5. ~Waited(todo, 0)
    BY <1>1, <1>2, LeftWaits
  <2> QED
    BY <2>1, <2>2, <2>3, <2>4, <2>5
<1>10. Stocked'
  <2> SUFFICES ASSUME prog.kind = "matmul", calls \notin failed
               PROVE  /\ \A r \in held' : r.call = calls => r.kind \in MatmulKinds /\ r.k = 1
                      /\ T = <<>> /\ DOMAIN T = {}
    BY <1>1 DEF Stocked, Ours
  <2>1. Len(todo) = 1
    BY <1>1, <1>3 DEF IInv, Stocked
  <2>2. n = 0
    BY <1>3, <2>1, SMTT(30)
  <2>3. T = <<>> /\ DOMAIN T = {}
    BY <1>2, <2>2, SeqIs
  <2> QED
    BY <1>1, <2>3 DEF IInv, Stocked, Ours
<1> QED
  BY <1>5, <1>6, <1>7, <1>8, <1>9, <1>10 DEF IInv

LEMMA MoreSupplies ==
  ASSUME NEW s, NEW has, Supplied(s, has), NEW more, has \subseteq more
  PROVE  Supplied(s, more)
BY DEF Supplied

LEMMA BeginKeeps ==
  ASSUME IInv, Begin
  PROVE  IInv'
<1>1. PICK j \in DOMAIN Programs : prog' = Programs[j] /\ todo' = Script(prog')
  BY DeviceAssumption DEF Begin
<1> DEFINE p == Programs[j]
           T == Script(p)
<1>2. /\ Sound(T, {})
      /\ p.kind = "matmul" => SharesBuffers(p) /\ StockedScript(p, T)
  BY ScriptIs
<1>3. /\ todo' = T /\ prog' = p /\ todo = <<>> /\ calls' = calls + 1
      /\ held' = held /\ queue' = queue /\ cards' = cards /\ failed' = failed
  BY <1>1 DEF Begin
<1> HIDE DEF p, T
<1>4. calls \in Nat /\ failed \subseteq 0 .. calls /\ calls + 1 \notin failed
  BY DEF IInv, TypeOK
<1>5. ASSUME NEW kind, NEW k, FreedIn(todo, 0, kind, k) PROVE kind = "recipe"
  BY <1>3, <1>5, NoneIs DEF FreedIn
<1>6. ~Waited(todo, 0)
  BY <1>3, NoneIs DEF Waited
<1>7. ASSUME NEW r \in held PROVE r.call \in 0 .. calls /\ Excused(r)
  <2>1. r.call \in 0 .. calls
    BY DEF IInv, TypeOK
  <2>2. CASE r.call = calls /\ calls \notin failed
    <3>1. FreedIn(todo, 0, r.kind, r.k)
      BY <2>2 DEF IInv, InOrder, Ours
    <3> QED
      BY <1>5, <2>1, <3>1 DEF Excused
  <2>3. CASE ~(r.call = calls /\ calls \notin failed)
    BY <2>1, <2>3 DEF IInv, Earlier, Ours, Excused
  <2> QED
    BY <2>2, <2>3
<1>8. ASSUME NEW i \in DOMAIN queue PROVE queue[i].call \in failed
  BY <1>6 DEF IInv, Earlier, InOrder, OfNow
<1>9. \A r \in held : r.call # calls + 1
  BY <1>4, <1>7
<1>10. \A i \in DOMAIN queue : queue[i].call # calls + 1
  BY <1>4, <1>8
<1>11. TypeOK'
  <2>1. IsSeq(T)
    BY <1>2 DEF Sound
  <2>2. \E i \in DOMAIN Programs : p = Programs[i]
    BY DEF p
  <2>3. calls + 1 \in Nat /\ failed \subseteq 0 .. (calls + 1) /\ \A r \in held : r.call \in 0 .. (calls + 1)
    BY <1>4, <1>7
  <2> QED
    BY <1>3, <2>1, <2>2, <2>3 DEF IInv, TypeOK
<1>12. Earlier'
  BY <1>3, <1>7, <1>8 DEF Earlier, Excused
<1>13. TakenAreHeld'
  BY <1>3 DEF IInv, TakenAreHeld
<1>14. DropsDevice'
  BY <1>3, <1>4, <1>9 DEF DropsDevice, Has, Ours
<1>15. InOrder'
  <2>1. GivesBack(T) /\ Waits(T) /\ Supplied(T, InHand')
    BY <1>2, MoreSupplies DEF Sound
  <2> SUFFICES /\ GivesBack(T) /\ Waits(T) /\ Supplied(T, InHand')
               /\ \A r \in held : r.call # calls + 1
               /\ \A i \in DOMAIN queue : queue[i].call # calls + 1
    BY <1>3, InOrderNext
  <2> QED
    BY <1>9, <1>10, <2>1
<1>16. Stocked'
  <2>1. SUFFICES ASSUME p.kind = "matmul"
                 PROVE  /\ \A r \in held : r.call # calls + 1
                        /\ \A i \in DOMAIN T :
                             /\ T[i].k \in DOMAIN p.ops
                             /\ Acquires(T[i]) => KindOf(T[i]) \in MatmulKinds /\ T[i].k = 1
                             /\ T[i].do = "free" => i = Len(T)
                             /\ T[i].do = "make" /\ T[i].arg = "stream" =>
                                  \A l \in (i + 1) .. Len(T) : ~Acquires(T[l])
                        /\ \A u \in Stock(p.ops[1]) : \E i \in DOMAIN T : Provides(T[i], u)
    BY <1>3, <1>9, ZenonT(60) DEF Stocked, Has, Ours, Acquires, KindOf, Provides
  <2> QED
    BY <1>2, <1>9, <2>1 DEF StockedScript, Supplies
<1> QED
  BY <1>11, <1>12, <1>13, <1>14, <1>15, <1>16 DEF IInv

LEMMA CallFailsKeeps ==
  ASSUME IInv, CallFails
  PROVE  IInv'
<1> DEFINE T == todo'
           F == failed'
<1>1. /\ T = Unwound(prog) /\ F = failed \cup {calls}
      /\ calls' = calls /\ prog' = prog /\ held' = held /\ queue' = queue /\ cards' = cards
  BY DEF CallFails
<1> HIDE DEF T, F
<1>2. /\ IsSeq(T) /\ \A i \in DOMAIN T : T[i].do = "free"
      /\ prog.kind = "device" /\ Has("card") => FreedIn(T, 0, "card", 1)
  <2>1. CASE prog.kind = "device" /\ Has("card")
    <3>1. T = Step("free", Context, 1)
      BY <1>1, <2>1 DEF Unwound
    <3>2. IsStep(T, "free", Context, 1)
      BY <3>1, StepIs
    <3>3. Frees(T[1], "card", 1) /\ 1 \in (0 + 1) .. Len(T)
      BY <3>2 DEF IsStep, Frees, Context
    <3> QED
      BY <3>2, <3>3 DEF IsStep, FreedIn
  <2>2. CASE ~(prog.kind = "device" /\ Has("card")) /\ prog.kind = "matmul" /\ Complete
    <3>1. T = MatmulDrop
      BY <1>1, <2>2 DEF Unwound
    <3>2. IsStep(T, "free", Buffers \cup Context \cup {"graph"}, 1)
      BY <3>1, StepIs DEF MatmulDrop
    <3> QED
      BY <2>2, <3>2 DEF IsStep
  <2>3. CASE ~(prog.kind = "device" /\ Has("card")) /\ ~(prog.kind = "matmul" /\ Complete)
    <3>1. T = <<>>
      BY <1>1, <2>3 DEF Unwound
    <3> QED
      BY <2>3, <3>1, NoneIs
  <2> QED
    BY <2>1, <2>2, <2>3
<1>3. calls \in F /\ failed \subseteq F /\ F \subseteq 0 .. calls
  BY <1>1 DEF IInv, TypeOK
<1>4. TypeOK'
  BY <1>1, <1>2, <1>3 DEF IInv, TypeOK, T, F
<1>5. Earlier'
  BY <1>1, <1>3 DEF IInv, Earlier, Ours, OfNow, Excused, F
<1>6. TakenAreHeld'
  BY <1>1 DEF IInv, TakenAreHeld
<1>7. DropsDevice'
  BY <1>1, <1>2 DEF DropsDevice, Has, Ours, FreedIn, Frees, T
<1>8. InOrder' /\ Stocked'
  BY <1>1, <1>3 DEF InOrder, Stocked, F
<1> QED
  BY <1>4, <1>5, <1>6, <1>7, <1>8 DEF IInv

LEMMA RetryKeeps ==
  ASSUME IInv, Retry
  PROVE  IInv'
<1> DEFINE T == todo'
           op == prog.ops[1]
           n == Len(T)
<1>1. /\ todo # <<>> /\ Now.do # "free" /\ prog.kind = "matmul" /\ Has("stream")
      /\ \E k \in Now.k..Len(prog.ops) : T = MatmulFrom(prog, k)
      /\ calls' = calls /\ prog' = prog /\ held' = held /\ queue' = queue /\ cards' = cards
      /\ failed' = failed
  BY DEF Retry, CanFail, Does
<1>2. SharesBuffers(prog)
  BY <1>1, ScriptIs DEF IInv, TypeOK
<1>3. 1 \in DOMAIN todo /\ todo[1] = Now
  <2>1. Leaves(todo, Now, Tail(todo))
    BY <1>1, LeavesTail DEF IInv, TypeOK, Now
  <2> QED
    BY <2>1 DEF Leaves
<1>4. calls \notin failed
  BY <1>1, <1>3 DEF IInv, DropsDevice
<1>5. Now.k \in DOMAIN prog.ops /\ \A u \in Stock(op) : u \in InHand
  <2>1. /\ \A i \in DOMAIN todo : todo[i].k \in DOMAIN prog.ops /\ ~Acquires(todo[i])
        /\ \A u \in Stock(op) : u \in InHand \/ \E i \in DOMAIN todo : Provides(todo[i], u)
    BY <1>1, <1>4 DEF IInv, Stocked
  <2>2. \A x, u : Provides(x, u) => Acquires(x)
    BY DEF Provides, Acquires
  <2> QED
    BY <1>3, <2>1, <2>2
<1>6. LeftOfHandle(prog, T)
  <2>1. PICK k \in Now.k..Len(prog.ops) : T = MatmulFrom(prog, k)
    BY <1>1
  <2>2. DOMAIN prog.ops = 1..Len(prog.ops) /\ Len(prog.ops) \in Nat
    BY <1>2, SeqIs DEF SharesBuffers
  <2>3. k \in DOMAIN prog.ops
    BY <1>5, <2>2
  <2> QED
    BY <1>2, <2>1, <2>3, MatmulFromIs
<1> HIDE DEF T, op, n
<1>7. /\ IsSeq(T) /\ GivesBack(T) /\ Waits(T) /\ Supplied(T, Stock(op)) /\ Waited(T, 0)
      /\ \A kind \in MatmulKinds : FreedIn(T, 0, kind, 1)
      /\ \A i \in DOMAIN T : /\ T[i].k \in DOMAIN prog.ops /\ ~Acquires(T[i])
                             /\ T[i].do = "free" => i = n
  BY <1>6 DEF LeftOfHandle, Sound, op, n
<1>8. \A r \in held : r.call = calls => FreedIn(T, 0, r.kind, r.k)
  BY <1>1, <1>4, <1>7 DEF IInv, Stocked, Ours
<1>9. \A u : u \in InHand <=> u \in InHand'
  BY <1>1 DEF InHand, Ours
<1>10. Supplied(T, InHand')
  BY <1>5, <1>7, <1>9, MoreSupplies
<1>11. TypeOK'
  BY <1>1, <1>7 DEF IInv, TypeOK, T
<1>12. Earlier' /\ TakenAreHeld'
  BY <1>1 DEF IInv, Earlier, Ours, OfNow, Excused, TakenAreHeld
<1>13. DropsDevice'
  BY <1>1, <1>4 DEF DropsDevice
<1>14. InOrder'
  <2>1. ASSUME NEW j \in DOMAIN queue, queue[j].call = calls
        PROVE  Uses(queue[j].do, queue[j].name) \subseteq InHand'
    BY <1>4, <1>9, <2>1 DEF IInv, InOrder, OfNow
  <2> SUFFICES /\ GivesBack(T) /\ Waits(T) /\ Supplied(T, InHand')
               /\ \A r \in held : r.call = calls => FreedIn(T, 0, r.kind, r.k)
               /\ \A j \in DOMAIN queue : queue[j].call = calls =>
                     Uses(queue[j].do, queue[j].name) \subseteq InHand' /\ Waited(T, 0)
    BY <1>1, InOrderNext DEF T
  <2> QED
    BY <1>7, <1>8, <1>10, <2>1
<1>15. Stocked'
  <2> SUFFICES /\ \A r \in held : r.call = calls => r.kind \in MatmulKinds /\ r.k = 1
               /\ \A i \in DOMAIN T : /\ T[i].k \in DOMAIN prog.ops /\ ~Acquires(T[i])
                                      /\ T[i].do = "free" => i = n
                                      /\ ~(T[i].do = "make" /\ T[i].arg = "stream")
               /\ \A u \in Stock(op) : u \in InHand'
    BY <1>1 DEF Stocked, Ours, Acquires, T, op, n
  <2>1. \A x : x.do = "make" => Acquires(x)
    BY DEF Acquires
  <2> QED
    BY <1>1, <1>4, <1>5, <1>7, <1>9, <2>1 DEF IInv, Stocked, Ours
<1> QED
  BY <1>11, <1>12, <1>13, <1>14, <1>15 DEF IInv

\* The queue without its j-th.
LEMMA RestIs ==
  ASSUME IsSeq(queue), NEW j \in DOMAIN queue
  PROVE  /\ IsSeq(Rest(j))
         /\ \A i \in DOMAIN Rest(j) : \E l \in DOMAIN queue : Rest(j)[i] = queue[l]
<1> DEFINE X == {queue[l] : l \in DOMAIN queue}
           a == SubSeq(queue, 1, j - 1)
           b == SubSeq(queue, j + 1, Len(queue))
           c == a \o b
<1>1. queue \in Seq(X) /\ j \in 1 .. Len(queue) /\ Len(queue) \in Nat
  BY SeqIs DEF IsSeq
<1> HIDE DEF X
<1>2. a \in Seq(X) /\ b \in Seq(X)
  BY <1>1
<1> HIDE DEF a, b
<1>3. c \in Seq(X)
  BY <1>2
<1> HIDE DEF c
<1>4. IsSeq(c)
  BY <1>3, InSeq, Zenon
<1>5. \A i \in DOMAIN c : c[i] \in X
  BY <1>3
<1> QED
  BY <1>4, <1>5 DEF Rest, X, a, b, c

\* What only depends on the program and what it holds.
LEMMA StayThatWay ==
  ASSUME DropsDevice, Stocked, UNCHANGED <<calls, prog, todo, held, failed>>
  PROVE  DropsDevice' /\ Stocked'
<1>1. Has("card")' = Has("card") /\ Has("stream")' = Has("stream") /\ InHand' = InHand
  BY DEF Has, InHand, Ours
<1>2. DropsDevice'
  BY <1>1 DEF DropsDevice, FreedIn, Frees
<1>3. Stocked'
  BY <1>1, ZenonT(60) DEF Stocked, Ours, Acquires, KindOf, Provides
<1> QED
  BY <1>2, <1>3

LEMMA DeviceWorksKeeps ==
  ASSUME IInv, DeviceWorks
  PROVE  IInv'
<1> DEFINE Q == queue'
<1>1. PICK j \in DOMAIN queue : Q = Rest(j)
  BY DEF DeviceWorks
<1>2. /\ calls' = calls /\ prog' = prog /\ todo' = todo /\ held' = held /\ cards' = cards
      /\ failed' = failed
  BY DEF DeviceWorks
<1>3. IsSeq(Q) /\ \A i \in DOMAIN Q : \E l \in DOMAIN queue : Q[i] = queue[l]
  BY <1>1, RestIs DEF IInv, TypeOK
<1> HIDE DEF Q
<1>4. TypeOK' /\ TakenAreHeld' /\ DropsDevice' /\ Stocked'
  BY <1>2, <1>3, StayThatWay DEF IInv, TypeOK, TakenAreHeld, Q
<1>5. Earlier'
  <2>1. \A i \in DOMAIN Q : Q[i].call = calls \/ Q[i].call \in failed
    BY <1>3 DEF IInv, Earlier, OfNow
  <2> QED
    BY <1>2, <2>1 DEF IInv, Earlier, Ours, Excused, OfNow, Q
<1>6. InOrder'
  <2>1. ASSUME calls \notin failed, NEW i \in DOMAIN Q, Q[i].call = calls
        PROVE  Uses(Q[i].do, Q[i].name) \subseteq InHand /\ Waited(todo, 0)
    <3>1. PICK l \in DOMAIN queue : Q[i] = queue[l]
      BY <1>3
    <3> QED
      BY <2>1, <3>1 DEF IInv, InOrder, OfNow
  <2>2. InHand' = InHand
    BY <1>2 DEF InHand, Ours
  <2>3. calls \notin failed =>
          /\ GivesBack(todo) /\ Waits(todo) /\ Supplied(todo, InHand)
          /\ \A r \in held : r.call = calls => FreedIn(todo, 0, r.kind, r.k)
    BY DEF IInv, InOrder, Ours
  <2> QED
    BY <1>2, <2>1, <2>2, <2>3, InOrderNext DEF Q
<1> QED
  BY <1>4, <1>5, <1>6 DEF IInv

\* Nothing a program does.
LEMMA IdleKeeps ==
  ASSUME IInv, Settle \/ UNCHANGED vars
  PROVE  IInv'
<1>1. /\ calls' = calls /\ prog' = prog /\ todo' = todo /\ held' = held /\ queue' = queue
      /\ failed' = failed
  BY DEF Settle, vars
<1>2. /\ cards' \in [1 .. Cards -> {"free", "taken", "settling"}]
      /\ \A c \in 1 .. Cards : cards'[c] = "taken" => cards[c] = "taken"
  BY DEF Settle, vars, IInv, TypeOK
<1>3. TypeOK' /\ Earlier' /\ TakenAreHeld'
  BY <1>1, <1>2 DEF IInv, TypeOK, Earlier, Ours, OfNow, Excused, TakenAreHeld
<1>4. DropsDevice' /\ Stocked'
  BY <1>1, StayThatWay DEF IInv
<1>5. InHand' = InHand
  BY <1>1 DEF InHand, Ours
<1>6. InOrder'
  <2>1. calls \notin failed =>
          /\ GivesBack(todo) /\ Waits(todo) /\ Supplied(todo, InHand)
          /\ \A r \in held : r.call = calls => FreedIn(todo, 0, r.kind, r.k)
          /\ \A j \in DOMAIN queue : queue[j].call = calls =>
                Uses(queue[j].do, queue[j].name) \subseteq InHand /\ Waited(todo, 0)
    BY DEF IInv, InOrder, Ours, OfNow
  <2> QED
    BY <1>1, <1>5, <2>1, InOrderNext
<1> QED
  BY <1>3, <1>4, <1>6 DEF IInv

LEMMA InitKeeps ==
  ASSUME Init
  PROVE  IInv
<1>1. TypeOK
  <2>1. 1 \in DOMAIN Programs
    BY ProgramsAssumption, SeqIs
  <2> QED
    BY <2>1, NoneIs DEF Init, TypeOK
<1>2. Earlier /\ TakenAreHeld /\ DropsDevice
  BY NoneIs DEF Init, Earlier, TakenAreHeld, DropsDevice, Has
<1>3. InOrder /\ Stocked
  BY NoneIs DEF Init, InOrder, GivesBack, Waits, Supplied, Stocked
<1> QED
  BY <1>1, <1>2, <1>3 DEF IInv

-----------------------------------------------------------------------------
(* The theorems.                                                           *)

\* What is left of every script is in order and agrees with what the process
\* holds and its streams have queued, whatever failed and was run again.
THEOREM Invariant == Spec => []IInv
<1>1. ASSUME IInv, [Next]_vars PROVE IInv'
  <2>1. CASE Quiet
    BY <1>1, <2>1, QuietKeeps
  <2>2. CASE Begin
    BY <1>1, <2>2, BeginKeeps
  <2>3. CASE Free
    BY <1>1, <2>3, FreeKeeps
  <2>4. CASE CallFails
    BY <1>1, <2>4, CallFailsKeeps
  <2>5. CASE Retry
    BY <1>1, <2>5, RetryKeeps
  <2>6. CASE DeviceWorks
    BY <1>1, <2>6, DeviceWorksKeeps
  <2>7. CASE Settle \/ UNCHANGED vars
    BY <1>1, <2>7, IdleKeeps
  <2> QED
    BY <1>1, <2>1, <2>2, <2>3, <2>4, <2>5, <2>6, <2>7 DEF Next, Quiet, Finished
<1> QED
  BY <1>1, InitKeeps, PTL DEF Spec

\* When a program has returned, only failed ones have left anything behind but
\* the recipes some never destroy, and a Device's card is back.
THEOREM LeaksAreExcused == Spec => []OnlyFailuresLeak
<1>1. ASSUME IInv, todo = <<>> PROVE OnlyFailuresLeak
  <2>1. \A kind, k : FreedIn(todo, 0, kind, k) => kind = "recipe"
    BY <1>1, NoneIs DEF FreedIn
  <2>2. ASSUME NEW r \in held PROVE Excused(r)
    BY <1>1, <2>1 DEF IInv, Earlier, InOrder, Ours, Excused
  <2>3. ~(prog.kind = "device" /\ Has("card"))
    BY <1>1, <2>1 DEF IInv, DropsDevice
  <2> QED
    BY <1>1, <2>2, <2>3 DEF OnlyFailuresLeak, IInv, TakenAreHeld
<1>2. IInv => OnlyFailuresLeak
  BY <1>1 DEF OnlyFailuresLeak
<1> QED
  BY <1>2, Invariant, PTL

\* A program that has not failed still holds its stream and the buffers on both
\* sides of whatever its stream has queued.
THEOREM QueuedIsHeld == Spec => []NothingFreedInFlight
<1>1. ASSUME IInv, NEW j \in DOMAIN queue, queue[j].call \notin failed
      PROVE  /\ \E r \in held : r.call = queue[j].call /\ r.kind = "stream"
             /\ queue[j].do # "launch" =>
                  \A side \in {"host", "dev"} :
                      \E r \in held : /\ r.call = queue[j].call /\ r.kind = side
                                      /\ r.name = queue[j].name
  <2>1. queue[j].call = calls
    BY <1>1 DEF IInv, Earlier, OfNow
  <2>2. Uses(queue[j].do, queue[j].name) \subseteq InHand
    BY <1>1, <2>1 DEF IInv, InOrder, OfNow
  <2>3. \A kind, name : <<kind, name>> \in InHand =>
          \E r \in held : r.call = calls /\ r.kind = kind /\ r.name = name
    BY DEF InHand, Ours
  <2>4. <<"stream", Gl("")>> \in InHand
    BY <2>2 DEF Uses
  <2>5. queue[j].do # "launch" =>
          <<"host", queue[j].name>> \in InHand /\ <<"dev", queue[j].name>> \in InHand
    BY <2>2 DEF Uses
  <2>6. \E r \in held : r.call = calls /\ r.kind = "stream"
    BY <2>3, <2>4
  <2>7. ASSUME queue[j].do # "launch", NEW side \in {"host", "dev"}
        PROVE  \E r \in held : r.call = calls /\ r.kind = side /\ r.name = queue[j].name
    BY <2>3, <2>5, <2>7
  <2> QED
    BY <2>1, <2>6, <2>7
<1>2. IInv => NothingFreedInFlight
  BY <1>1 DEF NothingFreedInFlight
<1> QED
  BY <1>2, Invariant, PTL

-----------------------------------------------------------------------------
(* Where the reads of a script stand.                                      *)

\* A script of p whose reads each end a run of their own.
Whole(p, s) == IsSeq(s) /\ Planned(p, s) /\ \A i \in DOMAIN s : s[i].do = "read" => Ahead(p, s, i)

\* Steps that neither queue nor read.
Plain(s) == IsSeq(s) /\ \A i \in DOMAIN s : ~Queues(s[i]) /\ s[i].do # "read"

LEMMA PlainIsWhole ==
  ASSUME NEW p, NEW s, Plain(s)
  PROVE  Whole(p, s)
BY DEF Whole, Planned, Plain, Queues

LEMMA PlainStep ==
  ASSUME NEW p, NEW do, NEW arg, NEW k, do \notin {"read", "upload", "launch", "download"}
  PROVE  Whole(p, Step(do, arg, k))
<1> DEFINE s == Step(do, arg, k)
<1>1. IsStep(s, do, arg, k)
  BY StepIs
<1> HIDE DEF s
<1>2. Plain(s)
  BY <1>1 DEF IsStep, Plain, Queues
<1> QED
  BY <1>2, PlainIsWhole DEF s

LEMMA PlainEach ==
  ASSUME NEW p, NEW do \in {"dev", "host"}, NEW bufs, IsSeq(bufs), NEW k
  PROVE  Whole(p, Each(do, bufs, k))
<1> DEFINE s == Each(do, bufs, k)
<1>1. IsSeq(s) /\ DOMAIN s = DOMAIN bufs /\ \A j \in DOMAIN bufs : s[j].do = do
  BY EachIs
<1> HIDE DEF s
<1>2. Plain(s)
  BY <1>1 DEF Plain, Queues
<1> QED
  BY <1>2, PlainIsWhole DEF s

\* The elements of s o t, by where they come from.
LEMMA JoinWhole ==
  ASSUME NEW p, NEW s, Whole(p, s), NEW t, Whole(p, t), \A k \in DOMAIN p.ops : IsSeq(RunOf(p, k))
  PROVE  Whole(p, s \o t)
<1> DEFINE st == s \o t
           n == Len(s)
           m == Len(t)
<1>1. Joins(s, t, st) /\ IsSeq(st)
  BY Joined DEF Whole, Joins
<1> HIDE DEF st
<1>2. /\ n \in Nat /\ m \in Nat
      /\ DOMAIN s = 1 .. n /\ DOMAIN t = 1 .. m /\ DOMAIN st = 1 .. (n + m)
      /\ \A i \in 1 .. n : st[i] = s[i]
      /\ \A i \in 1 .. m : st[n + i] = t[i]
      /\ \A i \in 1 .. (n + m) : i \in 1 .. n \/ \E j \in 1 .. m : i = n + j
  BY <1>1 DEF Joins
<1> HIDE DEF n, m
<1>3. ASSUME NEW i \in 1 .. n
      PROVE  /\ Queues(st[i]) \/ st[i].do = "read" => st[i].k \in DOMAIN p.ops
             /\ st[i].do = "download" => st[i].arg = p.ops[st[i].k].outs[1].name
             /\ st[i].do = "read" => EndsWith(st, i, RunOf(p, st[i].k)) /\ Ahead(p, st, i)
  <2>1. st[i] = s[i] /\ i \in DOMAIN s
    BY <1>2
  <2>2. ASSUME st[i].do = "read"
        PROVE  EndsWith(st, i, RunOf(p, st[i].k)) /\ Ahead(p, st, i)
    <3> DEFINE r == RunOf(p, s[i].k)
    <3>1. EndsWith(s, i, r) /\ Ahead(p, s, i) /\ s[i].k \in DOMAIN p.ops
      BY <2>1, <2>2 DEF Whole, Planned
    <3>2. Len(r) \in Nat /\ Len(r) <= i
      BY <3>1, SeqIs DEF Ahead
    <3>3. \A d \in 0 .. (Len(r) - 1) : d < i => s[i - d] = r[Len(r) - d]
      BY <3>1 DEF EndsWith
    <3> HIDE DEF r
    <3>4. ASSUME NEW d \in 0 .. (Len(r) - 1), d < i PROVE st[i - d] = r[Len(r) - d]
      <4>1. i - d \in 1 .. n
        BY <1>2, <3>4, <3>2
      <4> QED
        BY <1>2, <3>3, <3>4, <4>1
    <3> QED
      BY <2>1, <3>2, <3>4 DEF EndsWith, Ahead, r
  <2>3. /\ Queues(s[i]) \/ s[i].do = "read" => s[i].k \in DOMAIN p.ops
        /\ s[i].do = "download" => s[i].arg = p.ops[s[i].k].outs[1].name
    BY <2>1 DEF Whole, Planned
  <2> QED
    BY <2>1, <2>2, <2>3
<1>4. ASSUME NEW i \in 1 .. (n + m), NEW j \in 1 .. m, i = n + j
      PROVE  /\ Queues(st[i]) \/ st[i].do = "read" => st[i].k \in DOMAIN p.ops
             /\ st[i].do = "download" => st[i].arg = p.ops[st[i].k].outs[1].name
             /\ st[i].do = "read" => EndsWith(st, i, RunOf(p, st[i].k)) /\ Ahead(p, st, i)
  <2>1. st[i] = t[j] /\ j \in DOMAIN t
    BY <1>2, <1>4
  <2>2. ASSUME st[i].do = "read"
        PROVE  EndsWith(st, i, RunOf(p, st[i].k)) /\ Ahead(p, st, i)
    <3> DEFINE r == RunOf(p, t[j].k)
    <3>1. EndsWith(t, j, r) /\ Ahead(p, t, j) /\ t[j].k \in DOMAIN p.ops
      BY <2>1, <2>2 DEF Whole, Planned
    <3>2. Len(r) \in Nat /\ Len(r) <= j
      BY <3>1, SeqIs DEF Ahead
    <3>3. \A d \in 0 .. (Len(r) - 1) : d < j => t[j - d] = r[Len(r) - d]
      BY <3>1 DEF EndsWith
    <3> HIDE DEF r
    <3>4. ASSUME NEW d \in 0 .. (Len(r) - 1), d < i PROVE st[i - d] = r[Len(r) - d]
      <4>1. j - d \in 1 .. m /\ i - d = n + (j - d) /\ d < j
        BY <1>2, <1>4, <3>4, <3>2
      <4> QED
        BY <1>2, <3>3, <3>4, <4>1
    <3>5. Len(r) <= i
      BY <1>2, <1>4, <3>2
    <3> QED
      BY <2>1, <3>4, <3>5 DEF EndsWith, Ahead, r
  <2>3. /\ Queues(t[j]) \/ t[j].do = "read" => t[j].k \in DOMAIN p.ops
        /\ t[j].do = "download" => t[j].arg = p.ops[t[j].k].outs[1].name
    BY <2>1 DEF Whole, Planned
  <2> QED
    BY <2>1, <2>2, <2>3
<1>5. ASSUME NEW i \in DOMAIN st
      PROVE  /\ Queues(st[i]) \/ st[i].do = "read" => st[i].k \in DOMAIN p.ops
             /\ st[i].do = "download" => st[i].arg = p.ops[st[i].k].outs[1].name
             /\ st[i].do = "read" => EndsWith(st, i, RunOf(p, st[i].k)) /\ Ahead(p, st, i)
  <2>1. i \in 1 .. (n + m)
    BY <1>2
  <2>2. i \in 1 .. n \/ \E j \in 1 .. m : i = n + j
    BY <1>2, <2>1
  <2> QED
    BY <1>3, <1>4, <2>1, <2>2
<1>6. Whole(p, st)
  BY <1>1, <1>5 DEF Whole, Planned
<1> QED
  BY <1>6 DEF st

\* The steps of a run, counted from its read.
IsRun(p, k, r) ==
  LET op == p.ops[k]
      m == Len(op.ins)
      N == Len(r)
      at(d) == r[N - d]
  IN  /\ IsSeq(r) /\ m \in Nat /\ DOMAIN op.ins = 1 .. m
      /\ N = m + (IF p.kind = "matmul" THEN 7 ELSE 8)
      /\ at(0).do = "read" /\ at(0).arg = op.outs[1].name
      /\ at(1).do = "sync"
      /\ at(2).do = "download" /\ at(2).arg = op.outs[1].name
      /\ at(3).do = "sync" /\ at(4).do = "launch" /\ at(5).do = "sync"
      /\ \A j \in 1 .. m : at(m + 6 - j).do = "upload" /\ at(m + 6 - j).arg = op.ins[j].name
      /\ p.kind # "matmul" => at(m + 6).do = "make" /\ at(m + 6).arg = "stream"
      /\ at(N - 1).do = "fill"
      /\ \A d \in 0 .. (N - 1) : at(d).k = k

LEMMA SameSeq ==
  ASSUME NEW X, NEW s \in Seq(X), NEW t \in Seq(X), Len(s) = Len(t),
         \A i \in 1 .. Len(s) : s[i] = t[i]
  PROVE  s = t
OBVIOUS

LEMMA Two == ASSUME NEW a, NEW b PROVE <<a>> \o <<b>> = <<a, b>>
<1> DEFINE X == {a, b}
           s == <<a>> \o <<b>>
           t == <<a, b>>
<1>1. <<a>> \in Seq(X) /\ <<b>> \in Seq(X) /\ t \in Seq(X) /\ Len(t) = 2 /\ t[1] = a /\ t[2] = b
  OBVIOUS
<1>2. s \in Seq(X) /\ Len(s) = 2 /\ s[1] = a /\ s[2] = b
  BY <1>1
<1> HIDE DEF s, t, X
<1>3. \A i \in 1 .. 2 : s[i] = t[i]
  <2> TAKE i \in 1 .. 2
  <2>1. i \in {1, 2}
    OBVIOUS
  <2> QED
    BY <1>1, <1>2, <2>1
<1> QED
  BY <1>1, <1>2, <1>3, SameSeq DEF s, t

LEMMA Three == ASSUME NEW a, NEW b, NEW c PROVE <<a>> \o <<b, c>> = <<a, b, c>>
<1> DEFINE X == {a, b, c}
           s == <<a>> \o <<b, c>>
           t == <<a, b, c>>
<1>1. /\ <<a>> \in Seq(X) /\ <<b, c>> \in Seq(X) /\ t \in Seq(X)
      /\ Len(t) = 3 /\ t[1] = a /\ t[2] = b /\ t[3] = c
  OBVIOUS
<1>2. s \in Seq(X) /\ Len(s) = 3 /\ s[1] = a /\ s[2] = b /\ s[3] = c
  BY <1>1
<1> HIDE DEF s, t, X
<1>3. \A i \in 1 .. 3 : s[i] = t[i]
  <2> TAKE i \in 1 .. 3
  <2>1. i \in {1, 2, 3}
    OBVIOUS
  <2> QED
    BY <1>1, <1>2, <2>1
<1> QED
  BY <1>1, <1>2, <1>3, SameSeq DEF s, t

LEMMA Six ==
  ASSUME NEW a, NEW b, NEW c, NEW d, NEW e, NEW f
  PROVE  <<a, b, c>> \o <<d, e, f>> = <<a, b, c, d, e, f>>
<1> DEFINE X == {a, b, c, d, e, f}
           s == <<a, b, c>> \o <<d, e, f>>
           t == <<a, b, c, d, e, f>>
<1>1. /\ <<a, b, c>> \in Seq(X) /\ <<d, e, f>> \in Seq(X) /\ t \in Seq(X) /\ Len(t) = 6
      /\ t[1] = a /\ t[2] = b /\ t[3] = c /\ t[4] = d /\ t[5] = e /\ t[6] = f
  OBVIOUS
<1>2. /\ s \in Seq(X) /\ Len(s) = 6
      /\ s[1] = a /\ s[2] = b /\ s[3] = c /\ s[4] = d /\ s[5] = e /\ s[6] = f
  BY <1>1
<1> HIDE DEF s, t, X
<1>3. \A i \in 1 .. 6 : s[i] = t[i]
  <2> TAKE i \in 1 .. 6
  <2>1. i \in {1, 2, 3, 4, 5, 6}
    OBVIOUS
  <2> QED
    BY <1>1, <1>2, <2>1
<1> QED
  BY <1>1, <1>2, <1>3, SameSeq DEF s, t

\* The steps of a run one by one.
LEMMA RunSteps ==
  ASSUME NEW y, NEW l, NEW d, NEW rd, NEW up, IsSeq(up)
  PROVE  ((up \o <<y>>) \o (<<l>> \o <<y>>)) \o (<<d>> \o <<y>> \o <<rd>>) = up \o <<y, l, y, d, y, rd>>
<1>1. <<l>> \o <<y>> = <<l, y>> /\ <<y>> \o <<l, y>> = <<y, l, y>>
  BY Two, Three
<1>2. IsSeq(<<d>>) /\ IsSeq(<<y>>) /\ IsSeq(<<rd>>) /\ IsSeq(<<l, y>>) /\ IsSeq(<<y, l, y>>)
      /\ IsSeq(<<d, y, rd>>)
  BY DEF IsSeq
<1>3. <<d>> \o <<y>> \o <<rd>> = <<d, y, rd>>
  <2>1. (<<d>> \o <<y>>) \o <<rd>> = <<d>> \o (<<y>> \o <<rd>>)
    BY <1>2, Associates, SMTT(40)
  <2>2. <<y>> \o <<rd>> = <<y, rd>> /\ <<d>> \o <<y, rd>> = <<d, y, rd>>
    BY Two, Three
  <2> QED
    BY <2>1, <2>2
<1>4. <<y, l, y>> \o <<d, y, rd>> = <<y, l, y, d, y, rd>>
  BY Six
<1>5. (up \o <<y>>) \o <<l, y>> = up \o (<<y>> \o <<l, y>>)
  BY <1>2, Associates, SMTT(40)
<1>6. (up \o <<y, l, y>>) \o <<d, y, rd>> = up \o (<<y, l, y>> \o <<d, y, rd>>)
  <2> DEFINE h == <<y, l, y>>
             t == <<d, y, rd>>
  <2>1. IsSeq(h) /\ IsSeq(t)
    BY <1>2
  <2> HIDE DEF h, t
  <2>2. (up \o h) \o t = up \o (h \o t)
    BY <2>1, Associates, SMTT(40)
  <2> QED
    BY <2>2 DEF h, t
<1> QED
  BY <1>1, <1>3, <1>4, <1>5, <1>6, Zenon

LEMMA RunIs ==
  ASSUME NEW p, NEW k, Formed(p.ops[k])
  PROVE  IsRun(p, k, RunOf(p, k))
<1> DEFINE op == p.ops[k]
           m == Len(op.ins)
           out == op.outs[1].name
           matmul == p.kind = "matmul"
           f == [do |-> "fill", arg |-> "", k |-> k]
           s == [do |-> "make", arg |-> "stream", k |-> k]
           y == [do |-> "sync", arg |-> "", k |-> k]
           l == [do |-> "launch", arg |-> Gl(""), k |-> k]
           d == [do |-> "download", arg |-> out, k |-> k]
           rd == [do |-> "read", arg |-> out, k |-> k]
           pre == IF matmul THEN <<f>> ELSE <<f, s>>
           up == Each("upload", op.ins, k)
           end == <<y, l, y, d, y, rd>>
           ex == up \o end
           r == pre \o ex
           q == IF matmul THEN 1 ELSE 2
           N == q + (m + 6)
<1>1. /\ IsSeq(op.ins) /\ m \in Nat /\ DOMAIN op.ins = 1 .. m
      /\ IsSeq(up) /\ DOMAIN up = 1 .. m
      /\ \A j \in 1 .. m : up[j].do = "upload" /\ up[j].arg = op.ins[j].name /\ up[j].k = k
  <2>1. IsSeq(op.ins) /\ m \in Nat /\ DOMAIN op.ins = 1 .. m
    BY SeqIs DEF Formed
  <2>2. /\ IsSeq(up) /\ DOMAIN up = DOMAIN op.ins
        /\ \A j \in DOMAIN op.ins : up[j].do = "upload" /\ up[j].arg = op.ins[j].name /\ up[j].k = k
    BY <2>1, EachIs
  <2> HIDE DEF up, m
  <2> QED
    BY <2>1, <2>2
<1>2. Execute(op, k) = ex
  <2>1. Each("download", <<op.outs[1]>>, k) = <<d>>
    <3> DEFINE one == <<op.outs[1]>>
    <3>1. DOMAIN one = 1 .. 1 /\ one[1] = op.outs[1]
      OBVIOUS
    <3> HIDE DEF one
    <3>2. Each("download", one, k) = [j \in 1 .. 1 |-> d]
      BY <3>1 DEF Each
    <3> HIDE DEF d
    <3>3. [j \in 1 .. 1 |-> d] = <<d>>
      OBVIOUS
    <3> QED
      BY <3>2, <3>3 DEF one
  <2>2. Execute(op, k) = ((up \o <<y>>) \o (<<l>> \o <<y>>)) \o (<<d>> \o <<y>> \o <<rd>>)
    BY <2>1 DEF Execute, Feed, Launch, Fetch, Step
  <2> HIDE DEF y, l, d, rd, up
  <2> QED
    BY <1>1, <2>2, RunSteps
<1>3. RunOf(p, k) = r
  <2>1. RunOf(p, k) = (<<f>> \o (IF matmul THEN <<>> ELSE <<s>>)) \o ex
    BY <1>2 DEF RunOf, Step
  <2> HIDE DEF f, s, ex, matmul
  <2>2. <<f>> \o <<s>> = <<f, s>>
    BY Two
  <2>3. <<f>> \o <<>> = <<f>>
    <3>1. <<f>> \in Seq({f})
      OBVIOUS
    <3> QED
      BY <3>1
  <2> QED
    BY <2>1, <2>2, <2>3
<1>4. /\ f.do = "fill" /\ f.k = k /\ s.do = "make" /\ s.arg = "stream" /\ s.k = k
      /\ y.do = "sync" /\ y.k = k /\ l.do = "launch" /\ l.k = k
      /\ d.do = "download" /\ d.arg = out /\ d.k = k
      /\ rd.do = "read" /\ rd.arg = out /\ rd.k = k
  OBVIOUS
<1> HIDE DEF f, s, y, l, d, rd
<1>5. /\ IsSeq(end) /\ Len(end) = 6
      /\ end[1] = y /\ end[2] = l /\ end[3] = y /\ end[4] = d /\ end[5] = y /\ end[6] = rd
  BY DEF IsSeq
<1>6. IsSeq(pre) /\ Len(pre) = q /\ pre[1] = f /\ (~matmul => pre[2] = s)
  <2> HIDE DEF matmul
  <2>1. /\ IsSeq(<<f>>) /\ Len(<<f>>) = 1 /\ <<f>>[1] = f
        /\ IsSeq(<<f, s>>) /\ Len(<<f, s>>) = 2 /\ <<f, s>>[1] = f /\ <<f, s>>[2] = s
    BY DEF IsSeq
  <2> QED
    BY <2>1
<1>7. Len(up) = m
  BY <1>1, SeqIs
<1> HIDE DEF up, end, pre, m, out
<1>8. Joins(up, end, ex)
  BY <1>1, <1>5, Joined
<1>9. Joins(pre, ex, r)
  BY <1>6, <1>8, Joined DEF Joins
<1> HIDE DEF ex, r
<1>10. /\ Len(ex) = m + 6 /\ (\A j \in 1 .. m : ex[j] = up[j])
       /\ \A i \in 1 .. 6 : ex[m + i] = end[i]
  BY <1>5, <1>7, <1>8 DEF Joins
<1>11. q \in 1 .. 2 /\ (~matmul => q = 2)
  OBVIOUS
<1> HIDE DEF q, matmul
<1>12. /\ Len(r) = N /\ IsSeq(r) /\ r[1] = pre[1] /\ (~matmul => r[2] = pre[2])
       /\ \A i \in 1 .. (m + 6) : r[q + i] = ex[i]
  <2>1. 1 \in 1 .. q /\ (~matmul => 2 \in 1 .. q)
    BY <1>11
  <2>2. /\ Len(r) = q + (m + 6) /\ IsSeq(r)
        /\ \A i \in 1 .. q : r[i] = pre[i]
        /\ \A i \in 1 .. (m + 6) : r[q + i] = ex[i]
    BY <1>6, <1>9, <1>10 DEF Joins
  <2> QED
    BY <2>1, <2>2
<1>13. ASSUME NEW e \in 0 .. 5 PROVE r[N - e] = end[6 - e]
  <2>1. N - e = q + (m + (6 - e)) /\ m + (6 - e) \in 1 .. (m + 6) /\ 6 - e \in 1 .. 6
    BY <1>1, <1>11, <1>13
  <2>2. r[q + (m + (6 - e))] = ex[m + (6 - e)] /\ ex[m + (6 - e)] = end[6 - e]
    BY <1>10, <1>12, <2>1
  <2> QED
    BY <2>1, <2>2
<1>14. ASSUME NEW j \in 1 .. m PROVE r[N - (m + 6 - j)] = up[j]
  <2>1. N - (m + 6 - j) = q + j /\ j \in 1 .. (m + 6)
    BY <1>1, <1>11, <1>14
  <2>2. r[q + j] = ex[j] /\ ex[j] = up[j]
    BY <1>10, <1>12, <1>14, <2>1
  <2> QED
    BY <2>1, <2>2
<1>15. /\ r[N - 0] = end[6] /\ r[N - 1] = end[5] /\ r[N - 2] = end[4]
       /\ r[N - 3] = end[3] /\ r[N - 4] = end[2] /\ r[N - 5] = end[1]
  <2>1. /\ r[N - 0] = end[6 - 0] /\ r[N - 1] = end[6 - 1] /\ r[N - 2] = end[6 - 2]
        /\ r[N - 3] = end[6 - 3] /\ r[N - 4] = end[6 - 4] /\ r[N - 5] = end[6 - 5]
    BY <1>13
  <2> QED
    BY <2>1
<1>16. r[N - (N - 1)] = pre[1] /\ (~matmul => r[N - (m + 6)] = pre[2])
  <2>1. N - (N - 1) = 1 /\ (~matmul => N - (m + 6) = 2)
    BY <1>1, <1>11
  <2> QED
    BY <1>12, <2>1
<1>17. ASSUME NEW e \in 0 .. (N - 1) PROVE r[N - e].k = k
  <2>1. CASE e \in 0 .. 5
    <3>1. e = 0 \/ e = 1 \/ e = 2 \/ e = 3 \/ e = 4 \/ e = 5
      BY <2>1
    <3> QED
      BY <1>4, <1>5, <1>15, <3>1
  <2>2. CASE e \in 6 .. (m + 5)
    <3>1. m + 6 - e \in 1 .. m /\ m + 6 - (m + 6 - e) = e
      BY <1>1, <2>2
    <3> QED
      BY <1>1, <1>14, <3>1
  <2>3. CASE e = m + 6 /\ ~matmul
    BY <1>4, <1>6, <1>16, <2>3
  <2>4. CASE e = N - 1
    BY <1>4, <1>6, <1>16, <2>4
  <2>5. e \in 0 .. 5 \/ e \in 6 .. (m + 5) \/ (e = m + 6 /\ ~matmul) \/ e = N - 1
    BY <1>1, <1>11 DEF q
  <2> QED
    BY <2>1, <2>2, <2>3, <2>4, <2>5
<1>18. N = m + (IF matmul THEN 7 ELSE 8)
  BY <1>1 DEF q
<1>19. /\ r[N - 0].do = "read" /\ r[N - 0].arg = out /\ r[N - 1].do = "sync"
       /\ r[N - 2].do = "download" /\ r[N - 2].arg = out
       /\ r[N - 3].do = "sync" /\ r[N - 4].do = "launch" /\ r[N - 5].do = "sync"
       /\ r[N - (N - 1)].do = "fill"
       /\ ~matmul => r[N - (m + 6)].do = "make" /\ r[N - (m + 6)].arg = "stream"
  BY <1>4, <1>5, <1>6, <1>15, <1>16
<1>20. \A j \in 1 .. m : r[N - (m + 6 - j)].do = "upload" /\ r[N - (m + 6 - j)].arg = op.ins[j].name
  BY <1>1, <1>14
<1>21. Len(r) = N
  BY <1>12
<1> HIDE DEF N
<1> DEFINE L == Len(r)
<1>22. L = m + (IF p.kind = "matmul" THEN 7 ELSE 8)
  BY <1>18, <1>21 DEF matmul
<1>23. /\ r[L - 0].do = "read" /\ r[L - 0].arg = out /\ r[L - 1].do = "sync"
       /\ r[L - 2].do = "download" /\ r[L - 2].arg = out
       /\ r[L - 3].do = "sync" /\ r[L - 4].do = "launch" /\ r[L - 5].do = "sync"
       /\ r[L - (L - 1)].do = "fill"
       /\ p.kind # "matmul" => r[L - (m + 6)].do = "make" /\ r[L - (m + 6)].arg = "stream"
  BY <1>19, <1>21, Zenon DEF matmul
<1>24. \A j \in 1 .. m : r[L - (m + 6 - j)].do = "upload" /\ r[L - (m + 6 - j)].arg = op.ins[j].name
  BY <1>20, <1>21, Zenon
<1>25. \A e \in 0 .. (L - 1) : r[L - e].k = k
  BY <1>17, <1>21, Zenon
<1> HIDE DEF L
<1>26. IsRun(p, k, r)
  BY <1>1, <1>12, <1>22, <1>23, <1>24, <1>25, Zenon DEF IsRun, m, out, L
<1> QED
  BY <1>3, <1>26

\* A run by itself: its one read is its last step.
LEMMA RunIsWhole ==
  ASSUME NEW p, NEW k \in DOMAIN p.ops, Formed(p.ops[k])
  PROVE  Whole(p, RunOf(p, k))
<1> DEFINE r == RunOf(p, k)
           op == p.ops[k]
           m == Len(op.ins)
           N == Len(r)
<1>1. IsRun(p, k, r)
  BY RunIs
<1> HIDE DEF r
<1>2. /\ IsSeq(r) /\ m \in Nat /\ DOMAIN op.ins = 1 .. m
      /\ N = m + (IF p.kind = "matmul" THEN 7 ELSE 8)
      /\ \A e \in 0 .. (N - 1) : r[N - e].k = k
      /\ \A j \in 1 .. m : r[N - (m + 6 - j)].do = "upload"
      /\ p.kind # "matmul" => r[N - (m + 6)].do = "make"
      /\ r[N - (N - 1)].do = "fill"
      /\ r[N - 2].arg = op.outs[1].name
      /\ r[N - 0].do = "read" /\ r[N - 1].do = "sync" /\ r[N - 2].do = "download"
      /\ r[N - 3].do = "sync" /\ r[N - 4].do = "launch" /\ r[N - 5].do = "sync"
  BY <1>1, Zenon DEF IsRun
<1> HIDE DEF m, N
<1>3. N \in Nat /\ DOMAIN r = 1 .. N
  BY <1>2, SeqIs DEF N
<1>4. ASSUME NEW e \in 0 .. (N - 1)
      PROVE  (r[N - e].do = "download" => e = 2) /\ (r[N - e].do = "read" => e = 0)
  <2>1. CASE e \in 0 .. 5
    <3>1. e = 0 \/ e = 1 \/ e = 2 \/ e = 3 \/ e = 4 \/ e = 5
      BY <2>1
    <3> QED
      BY <1>2, <3>1
  <2>2. CASE e \in 6 .. (m + 5)
    <3>1. m + 6 - e \in 1 .. m /\ m + 6 - (m + 6 - e) = e
      BY <1>2, <2>2
    <3>2. r[N - e].do = "upload"
      BY <1>2, <3>1
    <3> QED
      BY <3>2
  <2>3. CASE e = m + 6 /\ p.kind # "matmul"
    BY <1>2, <2>3
  <2>4. CASE e = N - 1
    BY <1>2, <2>4
  <2>5. e \in 0 .. 5 \/ e \in 6 .. (m + 5) \/ (e = m + 6 /\ p.kind # "matmul") \/ e = N - 1
    BY <1>2
  <2> QED
    BY <2>1, <2>2, <2>3, <2>4, <2>5
<1>5. ASSUME NEW i \in 1 .. N
      PROVE  /\ r[i].k = k
             /\ r[i].do = "download" => r[i].arg = op.outs[1].name
             /\ r[i].do = "read" => i = N
  <2>1. N - i \in 0 .. (N - 1) /\ N - (N - i) = i /\ (N - i = 0 => i = N)
    BY <1>3
  <2>2. /\ r[i].k = k /\ (r[i].do = "download" => N - i = 2) /\ (r[i].do = "read" => N - i = 0)
    <3> DEFINE e == N - i
    <3>1. e \in 0 .. (N - 1) /\ N - e = i
      BY <2>1
    <3> HIDE DEF e
    <3>2. r[N - e].k = k /\ (r[N - e].do = "download" => e = 2) /\ (r[N - e].do = "read" => e = 0)
      BY <1>2, <1>4, <3>1
    <3>3. r[i].k = k /\ (r[i].do = "download" => e = 2) /\ (r[i].do = "read" => e = 0)
      BY <3>1, <3>2
    <3> QED
      BY <3>3 DEF e
  <2> QED
    BY <1>2, <2>1, <2>2
<1>6. ASSUME NEW i \in 1 .. N, r[i].do = "read"
      PROVE  EndsWith(r, i, RunOf(p, r[i].k)) /\ Ahead(p, r, i)
  <2>1. i = N /\ RunOf(p, r[i].k) = r
    BY <1>5, <1>6 DEF r
  <2> QED
    BY <1>3, <2>1 DEF EndsWith, Ahead, N
<1>7. Whole(p, r)
  BY <1>2, <1>3, <1>5, <1>6 DEF Whole, Planned
<1> QED
  BY <1>7 DEF r

\* What every program's operations are like.
Operated(p) == IsSeq(p.ops) /\ \A k \in DOMAIN p.ops : Formed(p.ops[k])

LEMMA RunsAreSeqs ==
  ASSUME NEW p, Operated(p)
  PROVE  \A k \in DOMAIN p.ops : IsSeq(RunOf(p, k))
BY RunIsWhole DEF Whole, Operated

LEMMA JoinTwo ==
  ASSUME NEW p, Operated(p), NEW s, Whole(p, s), NEW t, Whole(p, t)
  PROVE  Whole(p, s \o t)
BY JoinWhole, RunsAreSeqs

LEMMA NothingIsWhole == ASSUME NEW p PROVE Whole(p, <<>>)
BY NoneIs DEF Whole, Planned

\* The parts before a run.
LEMMA PartsAreWhole ==
  ASSUME NEW p, Operated(p), NEW op, Formed(op), NEW k
  PROVE  Whole(p, Build(k)) /\ Whole(p, Allocate(op, k)) /\ Whole(p, Build(k) \o Allocate(op, k))
<1> DEFINE all == op.ins \o op.outs
           h == Host(op)
<1>1. IsSeq(all) /\ IsSeq(h)
  BY HostIs DEF Hosts
<1>2. Whole(p, Step("make", "graph", k)) /\ Whole(p, Step("make", "recipe", k))
      /\ Whole(p, Step("ws", "", k))
  BY PlainStep
<1> HIDE DEF all, h
<1>3. Whole(p, Each("dev", all, k)) /\ Whole(p, Each("host", h, k))
  BY <1>1, PlainEach
<1>4. Whole(p, Build(k))
  BY <1>2, JoinTwo DEF Build
<1>5. Whole(p, (Each("dev", all, k) \o Step("ws", "", k)) \o Each("host", h, k))
  BY <1>2, <1>3, JoinTwo
<1>6. Whole(p, Allocate(op, k))
  BY <1>5 DEF Allocate, all, h
<1> QED
  BY <1>4, <1>6, JoinTwo

\* A run after what prepares it.
LEMMA ThenRun ==
  ASSUME NEW p, Operated(p), p.kind # "matmul", NEW k \in DOMAIN p.ops, NEW s, Whole(p, s)
  PROVE  Whole(p, s \o Step("fill", "", k) \o Step("make", "stream", k) \o Execute(p.ops[k], k))
<1> DEFINE f == Step("fill", "", k)
           t == Step("make", "stream", k)
           x == Execute(p.ops[k], k)
<1>1. Formed(p.ops[k])
  BY DEF Operated
<1>2. RunOf(p, k) = (f \o t) \o x
  BY DEF RunOf
<1>3. Whole(p, (f \o t) \o x)
  BY <1>1, <1>2, RunIsWhole
<1>4. Whole(p, f) /\ Whole(p, t)
  BY PlainStep
<1>5. IsSeq(x)
  <2>1. SameBuffers(p.ops[k], p.ops[k])
    BY DEF SameBuffers
  <2> QED
    BY <1>1, <2>1, ExecuteIs DEF Running
<1> HIDE DEF f, t, x
<1>6. Whole(p, f \o t)
  BY <1>4, JoinTwo
<1>7. IsSeq(s) /\ IsSeq(f) /\ IsSeq(t) /\ IsSeq(f \o t)
  BY <1>4, <1>6 DEF Whole
<1>8. ((s \o f) \o t) \o x = s \o ((f \o t) \o x)
  <2>1. (s \o f) \o t = s \o (f \o t)
    BY <1>7, Associates, SMTT(40)
  <2>2. (s \o (f \o t)) \o x = s \o ((f \o t) \o x)
    <3> DEFINE ft == f \o t
    <3>1. IsSeq(ft)
      BY <1>7
    <3> HIDE DEF ft
    <3>2. (s \o ft) \o x = s \o (ft \o x)
      BY <1>5, <1>7, <3>1, Associates, SMTT(40)
    <3> QED
      BY <3>2 DEF ft
  <2> QED
    BY <2>1, <2>2
<1>9. Whole(p, ((s \o f) \o t) \o x)
  BY <1>3, <1>8, JoinTwo
<1> QED
  BY <1>9 DEF f, t, x

LEMMA DeviceOpIsWhole ==
  ASSUME NEW p, Operated(p), p.kind # "matmul", NEW k \in DOMAIN p.ops
  PROVE  Whole(p, DeviceOp(p.ops[k], k))
<1> DEFINE op == p.ops[k]
           s == Build(k) \o Allocate(op, k)
           run == s \o Step("fill", "", k) \o Step("make", "stream", k) \o Execute(op, k)
           end == Step("free", Buffers \cup {"recipe", "graph"}, k)
<1>1. Whole(p, s)
  BY PartsAreWhole DEF Operated
<1>2. Whole(p, run)
  <2> HIDE DEF s
  <2> QED
    BY <1>1, ThenRun
<1>3. Whole(p, end)
  BY PlainStep
<1>4. DeviceOp(op, k) = run \o end
  BY DEF DeviceOp
<1> HIDE DEF run, end
<1> QED
  BY <1>2, <1>3, <1>4, JoinTwo

LEMMA OneShotIsWhole ==
  ASSUME NEW p, Operated(p), p.kind # "matmul", p.ops # <<>>
  PROVE  Whole(p, OneShotProgram(p))
<1> DEFINE op == p.ops[1]
           i == Step("make", "init", 1)
           b == Build(1)
           c == Step("card", "", 1)
           a == Allocate(op, 1)
           s == ((i \o b) \o c) \o a
           run == s \o Step("fill", "", 1) \o Step("make", "stream", 1) \o Execute(op, 1)
           end == Step("free", Buffers \cup Context \cup {"graph"}
                                 \cup (IF KeepsRecipe(p) THEN {} ELSE {"recipe"}), 1)
<1>1. 1 \in DOMAIN p.ops /\ Formed(op)
  BY SeqIs DEF Operated
<1>2. Whole(p, i) /\ Whole(p, c) /\ Whole(p, end)
  BY PlainStep
<1>3. Whole(p, b) /\ Whole(p, a)
  BY <1>1, PartsAreWhole
<1>4. OneShotProgram(p) = IF Refuses(p) THEN <<>> ELSE run \o end
  BY DEF OneShotProgram
<1> HIDE DEF i, b, c, a, end
<1>5. Whole(p, s)
  BY <1>2, <1>3, JoinTwo
<1>6. Whole(p, run)
  <2> HIDE DEF s
  <2> QED
    BY <1>1, <1>5, ThenRun
<1> HIDE DEF run
<1>7. Whole(p, run \o end)
  BY <1>2, <1>6, JoinTwo
<1> QED
  BY <1>4, <1>7, NothingIsWhole

\* Parts of a script one after the other.
LEMMA JoinedIsWhole ==
  ASSUME NEW p, Operated(p), NEW n \in Nat, NEW from, NEW d, NEW w, JoinedUpTo(w, n, from, d),
         \A j \in 1 .. n : Whole(p, d[j])
  PROVE  Whole(p, w[n])
<1> DEFINE S == {j \in Nat : j <= n => Whole(p, w[j])}
<1>1. \A j \in 0 .. n : w[j] = IF j = 0 THEN <<>>
                               ELSE IF j < from THEN w[j - 1] ELSE w[j - 1] \o d[j]
  BY DEF JoinedUpTo
<1>2. 0 \in S
  BY <1>1, NothingIsWhole
<1>3. ASSUME NEW j \in Nat, j \in S PROVE j + 1 \in S
  <2> SUFFICES ASSUME j + 1 <= n PROVE Whole(p, w[j + 1])
    OBVIOUS
  <2>1. j + 1 \in 0 .. n /\ j + 1 # 0 /\ (j + 1) - 1 = j /\ j <= n /\ j + 1 \in 1 .. n
    OBVIOUS
  <2>2. Whole(p, w[j]) /\ Whole(p, d[j + 1])
    BY <1>3, <2>1
  <2>3. Whole(p, w[j] \o d[j + 1])
    BY <2>2, JoinTwo
  <2>4. w[j + 1] = w[j] \/ w[j + 1] = w[j] \o d[j + 1]
    BY <1>1, <2>1
  <2> QED
    BY <2>2, <2>3, <2>4
<1> HIDE DEF S
<1>4. Nat \subseteq S
  BY <1>2, <1>3, Numbers!Induction
<1> QED
  BY <1>4 DEF S

LEMMA DeviceProgramIsWhole ==
  ASSUME NEW p, Operated(p), p.kind # "matmul"
  PROVE  Whole(p, DeviceProgram(p))
<1> DEFINE n == Len(p.ops)
           w == CHOOSE w : w = [k \in 0 .. n |->
                                  IF k = 0 THEN <<>> ELSE w[k - 1] \o DeviceOp(p.ops[k], k)]
           d == [k \in 1 .. n |-> DeviceOp(p.ops[k], k)]
           body == w[n]
           i == Step("make", "init", 1)
           c == Step("card", "", 1)
           end == Step("free", Context, 1)
<1>1. n \in Nat /\ DOMAIN p.ops = 1 .. n
  BY SeqIs DEF Operated
<1>2. DeviceProgram(p) = ((i \o c) \o body) \o end
  BY DEF DeviceProgram, Stepped, Open
<1> HIDE DEF n
<1>3. PICK u : JoinedUpTo(u, n, 1, d)
  BY <1>1, JoinedExists
<1>4. u = [k \in 0 .. n |-> IF k = 0 THEN <<>> ELSE u[k - 1] \o DeviceOp(p.ops[k], k)]
  BY <1>1, <1>3 DEF JoinedUpTo
<1>5. w = [k \in 0 .. n |-> IF k = 0 THEN <<>> ELSE w[k - 1] \o DeviceOp(p.ops[k], k)]
  BY <1>4
<1>6. \A k \in 1 .. n : Whole(p, d[k])
  BY <1>1, DeviceOpIsWhole
<1>7. JoinedUpTo(w, n, 1, d)
  <2>1. \A k \in 0 .. n : k # 0 => d[k] = DeviceOp(p.ops[k], k) /\ ~(k < 1)
    BY <1>1
  <2> HIDE DEF w, d
  <2> QED
    BY <1>5, <2>1, Zenon DEF JoinedUpTo
<1> HIDE DEF w, d
<1>8. Whole(p, body)
  BY <1>1, <1>6, <1>7, JoinedIsWhole
<1>9. Whole(p, i) /\ Whole(p, c) /\ Whole(p, end)
  BY PlainStep
<1> HIDE DEF body, i, c, end
<1>10. Whole(p, ((i \o c) \o body) \o end)
  BY <1>8, <1>9, JoinTwo
<1> QED
  BY <1>2, <1>10

\* The runs and launches of a handle, from any of them on.
LEMMA MatmulCallIsWhole ==
  ASSUME NEW p, Operated(p), p.kind = "matmul", NEW k \in DOMAIN p.ops
  PROVE  Whole(p, MatmulCall(p, k))
<1> DEFINE l == Step("launch", Gl(""), k)
           y == Step("sync", "", k)
           f == Step("fill", "", k)
           x == Execute(p.ops[k], k)
<1>1. Whole(p, l \o y)
  <2>1. IsStep(l, "launch", Gl(""), k)
    BY StepIs
  <2>2. Whole(p, y)
    BY PlainStep
  <2> HIDE DEF l, y
  <2>3. Whole(p, l)
    BY <2>1 DEF IsStep, Whole, Planned, Queues
  <2> QED
    BY <2>2, <2>3, JoinTwo
<1>2. Whole(p, f \o x)
  <2>1. RunOf(p, k) = (f \o <<>>) \o x
    BY DEF RunOf
  <2>2. IsSeq(f)
    BY StepIs DEF IsStep
  <2> HIDE DEF f, x
  <2>3. f \o <<>> = f
    <3> DEFINE X == {f[j] : j \in DOMAIN f}
    <3>1. f \in Seq(X)
      BY <2>2 DEF IsSeq
    <3> HIDE DEF X
    <3> QED
      BY <3>1
  <2>4. Whole(p, RunOf(p, k))
    BY RunIsWhole DEF Operated
  <2> QED
    BY <2>1, <2>3, <2>4
<1>3. MatmulCall(p, k) = IF p.calls[k] = "launch" THEN l \o y ELSE f \o x
  BY DEF MatmulCall, Launch
<1> QED
  BY <1>1, <1>2, <1>3

LEMMA MatmulFromIsWhole ==
  ASSUME NEW p, Operated(p), p.kind = "matmul", NEW k
  PROVE  Whole(p, MatmulFrom(p, k))
<1> DEFINE n == Len(p.ops)
           w == CHOOSE w : w = [j \in 0 .. n |->
                                  IF j = 0 THEN <<>>
                                  ELSE IF j < k THEN w[j - 1] ELSE w[j - 1] \o MatmulCall(p, j)]
           d == [j \in 1 .. n |-> MatmulCall(p, j)]
           body == w[n]
           end == Step("free", Buffers \cup Context \cup {"graph"}, 1)
<1>1. n \in Nat /\ DOMAIN p.ops = 1 .. n
  BY SeqIs DEF Operated
<1>2. MatmulFrom(p, k) = body \o end
  BY DEF MatmulFrom, Stepped, MatmulDrop
<1> HIDE DEF n
<1>3. PICK u : JoinedUpTo(u, n, k, d)
  BY <1>1, JoinedExists
<1>4. \A j \in 0 .. n : j # 0 => d[j] = MatmulCall(p, j)
  BY <1>1
<1>5. \A j \in 1 .. n : Whole(p, d[j])
  BY <1>1, MatmulCallIsWhole
<1>6. u = [j \in 0 .. n |-> IF j = 0 THEN <<>>
                            ELSE IF j < k THEN u[j - 1] ELSE u[j - 1] \o MatmulCall(p, j)]
  <2> HIDE DEF d
  <2> QED
    BY <1>3, <1>4, Zenon DEF JoinedUpTo
<1>7. w = [j \in 0 .. n |-> IF j = 0 THEN <<>>
                            ELSE IF j < k THEN w[j - 1] ELSE w[j - 1] \o MatmulCall(p, j)]
  BY <1>6
<1> HIDE DEF w, d
<1>8. JoinedUpTo(w, n, k, d)
  BY <1>4, <1>7, Zenon DEF JoinedUpTo
<1>9. Whole(p, body)
  BY <1>1, <1>5, <1>8, JoinedIsWhole
<1>10. Whole(p, end)
  BY PlainStep
<1> HIDE DEF body, end
<1> QED
  BY <1>2, <1>9, <1>10, JoinTwo

LEMMA MatmulNewIsWhole ==
  ASSUME NEW p, Operated(p), NEW op, Formed(op)
  PROVE  Whole(p, MatmulNew(op))
<1> DEFINE i == Step("make", "init", 1)
           b == Build(1)
           c == Step("card", "", 1)
           a == Allocate(op, 1)
           t == Step("make", "stream", 1)
<1>1. Whole(p, i) /\ Whole(p, c) /\ Whole(p, t)
  BY PlainStep
<1>2. Whole(p, b) /\ Whole(p, a)
  BY PartsAreWhole
<1>3. MatmulNew(op) = (((i \o b) \o c) \o a) \o t
  BY DEF MatmulNew
<1> HIDE DEF i, b, c, a, t
<1> QED
  BY <1>1, <1>2, <1>3, JoinTwo

LEMMA ProgramsOperate ==
  ASSUME NEW j \in DOMAIN Programs
  PROVE  Operated(Programs[j]) /\ Programs[j].ops # <<>>
BY ProgramsAssumption DEF Operated, Formed

\* Every script is made of whole runs.
LEMMA ScriptIsWhole ==
  ASSUME NEW j \in DOMAIN Programs
  PROVE  Whole(Programs[j], Script(Programs[j]))
<1> DEFINE p == Programs[j]
<1>1. Operated(p) /\ p.ops # <<>>
  BY ProgramsOperate
<1> HIDE DEF p
<1>2. Formed(p.ops[1])
  BY <1>1, SeqIs DEF Operated
<1>3. CASE p.kind = "device"
  BY <1>1, <1>3, DeviceProgramIsWhole DEF Script, p
<1>4. CASE p.kind = "matmul"
  <2>1. Script(p) = MatmulNew(p.ops[1]) \o MatmulFrom(p, 1)
    BY <1>4 DEF Script
  <2>2. Whole(p, MatmulNew(p.ops[1])) /\ Whole(p, MatmulFrom(p, 1))
    BY <1>1, <1>2, <1>4, MatmulNewIsWhole, MatmulFromIsWhole
  <2>3. Whole(p, Script(p))
    BY <1>1, <2>1, <2>2, JoinTwo
  <2> QED
    BY <2>3 DEF p
<1>5. CASE p.kind # "device" /\ p.kind # "matmul"
  BY <1>1, <1>5, OneShotIsWhole DEF Script, p
<1> QED
  BY <1>3, <1>4, <1>5

-----------------------------------------------------------------------------
(* A run on its way.                                                       *)

LEMMA TailIsPlanned ==
  ASSUME NEW p, NEW s, IsSeq(s), s # <<>>, Planned(p, s), \A k \in DOMAIN p.ops : IsSeq(RunOf(p, k))
  PROVE  Planned(p, Tail(s))
<1> DEFINE t == Tail(s)
           n == Len(t)
<1>1. Leaves(s, Head(s), t)
  BY LeavesTail
<1> HIDE DEF t
<1>2. /\ n \in Nat /\ DOMAIN t = 1 .. n /\ DOMAIN s = 1 .. (n + 1)
      /\ \A i \in 1 .. n : t[i] = s[i + 1]
  BY <1>1 DEF Leaves
<1> HIDE DEF n
<1>3. ASSUME NEW i \in 1 .. n, t[i].do = "read"
      PROVE  EndsWith(t, i, RunOf(p, t[i].k))
  <2> DEFINE r == RunOf(p, s[i + 1].k)
  <2>1. i + 1 \in DOMAIN s /\ t[i] = s[i + 1] /\ s[i + 1].k \in DOMAIN p.ops /\ EndsWith(s, i + 1, r)
    BY <1>2, <1>3 DEF Planned
  <2>2. Len(r) \in Nat
    BY <2>1, SeqIs
  <2>3. \A d \in 0 .. (Len(r) - 1) : d < i + 1 => s[(i + 1) - d] = r[Len(r) - d]
    BY <2>1 DEF EndsWith
  <2> HIDE DEF r
  <2>4. ASSUME NEW d \in 0 .. (Len(r) - 1), d < i PROVE t[i - d] = r[Len(r) - d]
    <3>1. i - d \in 1 .. n /\ (i - d) + 1 = (i + 1) - d /\ d < i + 1
      BY <1>2, <2>2, <2>4
    <3> QED
      BY <1>2, <2>3, <2>4, <3>1
  <2> QED
    BY <2>1, <2>4 DEF EndsWith, r
<1>4. ASSUME NEW i \in 1 .. n
      PROVE  /\ Queues(t[i]) \/ t[i].do = "read" => t[i].k \in DOMAIN p.ops
             /\ t[i].do = "download" => t[i].arg = p.ops[t[i].k].outs[1].name
  <2>1. t[i] = s[i + 1] /\ i + 1 \in DOMAIN s
    BY <1>2
  <2> QED
    BY <2>1 DEF Planned
<1>5. Planned(p, t)
  BY <1>2, <1>3, <1>4 DEF Planned
<1> QED
  BY <1>5 DEF t

\* x is the step i steps before the end of a run of operation k of p.
Stands(p, x, k, i) ==
  LET op == p.ops[k]
      m == Len(op.ins)
  IN  /\ m \in Nat /\ DOMAIN op.ins = 1 .. m
      /\ i \in 1 .. (m + 8) /\ (p.kind = "matmul" => i <= m + 7)
      /\ x.k = k
      /\ i = 1 => x.do = "read" /\ x.arg = op.outs[1].name
      /\ i \in {2, 4, 6} => x.do = "sync"
      /\ i = 3 => x.do = "download" /\ x.arg = op.outs[1].name
      /\ i = 5 => x.do = "launch"
      /\ i \in 7 .. (m + 6) => x.do = "upload" /\ x.arg = op.ins[m + 7 - i].name
      /\ i = m + 7 /\ p.kind # "matmul" => x.do = "make" /\ x.arg = "stream"
      /\ i = m + 8 \/ (i = m + 7 /\ p.kind = "matmul") => x.do = "fill"

\* All of a run but its first step is still to come.
Begun(p, s, i) == s[i].do = "read" /\ i <= Len(RunOf(p, s[i].k))

LEMMA StandsNow ==
  ASSUME NEW p, Operated(p), NEW s, IsSeq(s), Planned(p, s), NEW i \in DOMAIN s, Begun(p, s, i)
  PROVE  /\ s[i].k \in DOMAIN p.ops /\ s # <<>> /\ Stands(p, Head(s), s[i].k, i)
         /\ Len(RunOf(p, s[i].k)) = Len(p.ops[s[i].k].ins) + (IF p.kind = "matmul" THEN 7 ELSE 8)
<1> DEFINE k == s[i].k
           r == RunOf(p, k)
           op == p.ops[k]
           m == Len(op.ins)
           N == Len(r)
<1>1. k \in DOMAIN p.ops /\ EndsWith(s, i, r) /\ i <= N /\ s[i].do = "read"
  BY DEF Planned, Begun
<1>2. IsRun(p, k, r)
  BY <1>1, RunIs DEF Operated
<1>3. DOMAIN s = 1 .. Len(s) /\ Len(s) \in Nat
  BY SeqIs
<1>4. s # <<>> /\ Head(s) = s[1]
  <2>1. s # <<>>
    BY <1>3, SeqIs
  <2> QED
    BY <2>1, TailIs
<1>5. /\ m \in Nat /\ DOMAIN op.ins = 1 .. m
      /\ N = m + (IF p.kind = "matmul" THEN 7 ELSE 8)
      /\ \A e \in 0 .. (N - 1) : r[N - e].k = k
      /\ \A j \in 1 .. m : r[N - (m + 6 - j)].do = "upload" /\ r[N - (m + 6 - j)].arg = op.ins[j].name
      /\ p.kind # "matmul" => r[N - (m + 6)].do = "make" /\ r[N - (m + 6)].arg = "stream"
      /\ r[N - (N - 1)].do = "fill"
      /\ r[N - 2].arg = op.outs[1].name /\ r[N - 0].arg = op.outs[1].name
      /\ r[N - 0].do = "read" /\ r[N - 1].do = "sync" /\ r[N - 2].do = "download"
      /\ r[N - 3].do = "sync" /\ r[N - 4].do = "launch" /\ r[N - 5].do = "sync"
  BY <1>2, Zenon DEF IsRun
<1>6. \A d \in 0 .. (N - 1) : d < i => s[i - d] = r[N - d]
  BY <1>1 DEF EndsWith
<1> HIDE DEF m, N, r
<1> DEFINE x == s[1]
           e == i - 1
<1>7. i \in 1 .. N /\ e \in 0 .. (N - 1) /\ e < i /\ i - e = 1 /\ N \in Nat
  BY <1>1, <1>3, <1>5
<1>8. x = r[N - e]
  BY <1>6, <1>7
<1>9. x.k = k
  BY <1>5, <1>7, <1>8
<1>10. ASSUME i \in 7 .. (m + 6) PROVE x.do = "upload" /\ x.arg = op.ins[m + 7 - i].name
  <2>1. m \in Nat /\ i \in Nat
    BY <1>5, <1>7
  <2>2. m + 7 - i \in 1 .. m /\ m + 6 - (m + 7 - i) = e
    BY <1>10, <2>1
  <2>3. /\ r[N - (m + 6 - (m + 7 - i))].do = "upload"
        /\ r[N - (m + 6 - (m + 7 - i))].arg = op.ins[m + 7 - i].name
    BY <1>5, <2>2
  <2> QED
    BY <1>8, <2>2, <2>3
<1>11. i = m + 7 /\ p.kind # "matmul" => x.do = "make" /\ x.arg = "stream"
  <2>1. i = m + 7 => e = m + 6
    BY <1>5
  <2> QED
    BY <1>5, <1>8, <2>1, SMTT(30)
<1>12. i = m + 8 \/ (i = m + 7 /\ p.kind = "matmul") => x.do = "fill"
  <2>1. i = m + 8 \/ (i = m + 7 /\ p.kind = "matmul") => e = N - 1
    BY <1>5, <1>7
  <2> QED
    BY <1>5, <1>8, <2>1
<1>13. /\ i = 1 => x.do = "read" /\ x.arg = op.outs[1].name
       /\ i \in {2, 4, 6} => x.do = "sync"
       /\ i = 3 => x.do = "download" /\ x.arg = op.outs[1].name
       /\ i = 5 => x.do = "launch"
  <2>1. /\ i = 1 => e = 0
        /\ i = 2 => e = 1
        /\ i = 3 => e = 2
        /\ i = 4 => e = 3
        /\ i = 5 => e = 4
        /\ i = 6 => e = 5
    OBVIOUS
  <2> HIDE DEF e
  <2> QED
    <3>1. i = 1 => x.do = "read" /\ x.arg = op.outs[1].name
      BY <1>5, <1>8, <2>1
    <3>2. i = 2 => x.do = "sync"
      BY <1>5, <1>8, <2>1
    <3>3. i = 3 => x.do = "download" /\ x.arg = op.outs[1].name
      BY <1>5, <1>8, <2>1
    <3>4. i = 4 => x.do = "sync"
      BY <1>5, <1>8, <2>1
    <3>5. i = 5 => x.do = "launch"
      BY <1>5, <1>8, <2>1
    <3>6. i = 6 => x.do = "sync"
      BY <1>5, <1>8, <2>1
    <3> HIDE DEF x, op
    <3> QED
      BY <3>1, <3>2, <3>3, <3>4, <3>5, <3>6
<1>14. i \in 1 .. (m + 8) /\ (p.kind = "matmul" => i <= m + 7)
  BY <1>5, <1>7
<1> HIDE DEF x
<1>15. Stands(p, x, k, i)
  BY <1>5, <1>9, <1>10, <1>11, <1>12, <1>13, <1>14, Zenon DEF Stands, m
<1>16. N = Len(p.ops[k].ins) + (IF p.kind = "matmul" THEN 7 ELSE 8)
  BY <1>5, Zenon DEF m
<1> QED
  BY <1>1, <1>4, <1>15, <1>16 DEF x, N, r

\* What is known of every run on its way.
Underway ==
  \A i \in DOMAIN todo : todo[i].do = "read" /\ ~Ahead(prog, todo, i) =>
      OnItsWay(prog.ops[todo[i].k], todo[i].k, i)

\* A step of the program, if it leaves every run it belongs to on its way.
LEMMA OneStepOn ==
  ASSUME TypeOK, AnswerInv, todo # <<>>, todo' = Tail(todo), UNCHANGED <<calls, prog>>,
         \A i \in DOMAIN todo : i > 1 /\ Begun(prog, todo, i) =>
             \A op, k, j : op = prog.ops[todo[i].k] /\ k = todo[i].k /\ j = i - 1 =>
                 OnItsWay(op, k, j)'
  PROVE  Planned(prog', todo') /\ (Refuses(prog') => todo' = <<>>) /\ Underway'
<1> DEFINE t == Tail(todo)
           n == Len(t)
<1>1. Operated(prog) /\ \A k \in DOMAIN prog.ops : IsSeq(RunOf(prog, k))
  BY ProgramsOperate, RunsAreSeqs DEF TypeOK
<1>2. IsSeq(todo) /\ Planned(prog, todo)
  BY DEF TypeOK, AnswerInv
<1>3. Planned(prog, t)
  BY <1>1, <1>2, TailIsPlanned
<1>4. Leaves(todo, Head(todo), t)
  BY <1>2, LeavesTail
<1>5. ~Refuses(prog)
  BY DEF AnswerInv
<1> HIDE DEF t
<1>6. /\ n \in Nat /\ DOMAIN t = 1 .. n /\ DOMAIN todo = 1 .. (n + 1)
      /\ \A i \in 1 .. n : t[i] = todo[i + 1]
  BY <1>4 DEF Leaves
<1> HIDE DEF n
<1>7. ASSUME NEW i \in DOMAIN t, t[i].do = "read", ~Ahead(prog, t, i),
             NEW op, op = prog.ops[t[i].k], NEW k, k = t[i].k
      PROVE  OnItsWay(op, k, i)'
  <2>1. i + 1 \in DOMAIN todo /\ i + 1 > 1 /\ (i + 1) - 1 = i /\ t[i] = todo[i + 1] /\ i \in Nat
    BY <1>6
  <2>2. t[i].k \in DOMAIN prog.ops
    BY <1>3, <1>7 DEF Planned
  <2>3. Len(RunOf(prog, t[i].k)) \in Nat
    BY <1>1, <2>2, SeqIs
  <2>4. Begun(prog, todo, i + 1)
    BY <1>7, <2>1, <2>3 DEF Begun, Ahead
  <2> QED
    BY <1>7, <2>1, <2>4
<1>8. Underway'
  <2>1. \A i \in DOMAIN t : t[i].do = "read" /\ ~Ahead(prog, t, i) =>
          \A op, k : op = prog.ops[t[i].k] /\ k = t[i].k => OnItsWay(op, k, i)'
    BY <1>7
  <2>2. todo' = t /\ prog' = prog
    BY DEF t
  <2> HIDE DEF t
  <2> QED
    BY <2>1, <2>2 DEF Underway, Ahead
<1> QED
  BY <1>3, <1>5, <1>8 DEF t

\* Where the program stands in a run that has begun.
LEMMA StandsHere ==
  ASSUME TypeOK, AnswerInv, NEW i \in DOMAIN todo, Begun(prog, todo, i),
         NEW op, op = prog.ops[todo[i].k], NEW k, k = todo[i].k
  PROVE  /\ todo # <<>> /\ k \in DOMAIN prog.ops /\ Formed(op) /\ i \in Nat
         /\ Stands(prog, Now, k, i)
         /\ Now.do # "fill" => OnItsWay(op, k, i)
<1>1. Operated(prog) /\ IsSeq(todo) /\ Planned(prog, todo)
  BY ProgramsOperate DEF TypeOK, AnswerInv
<1>2. /\ k \in DOMAIN prog.ops /\ todo # <<>> /\ Stands(prog, Now, k, i)
      /\ Len(RunOf(prog, k)) = Len(op.ins) + (IF prog.kind = "matmul" THEN 7 ELSE 8)
  BY <1>1, StandsNow DEF Now
<1>3. Formed(op)
  BY <1>1, <1>2 DEF Operated
<1>4. ASSUME Now.do # "fill" PROVE OnItsWay(op, k, i)
  <2> DEFINE m == Len(prog.ops[k].ins)
             N == Len(RunOf(prog, k))
  <2>1. i <= N /\ N = m + (IF prog.kind = "matmul" THEN 7 ELSE 8)
    BY <1>2 DEF Begun
  <2>2. m \in Nat /\ i \in 1 .. (m + 8) /\ i # m + 8 /\ ~(i = m + 7 /\ prog.kind = "matmul")
    BY <1>2, <1>4, Zenon DEF Stands
  <2>3. /\ m \in Nat /\ i \in Nat /\ i <= N
        /\ N = m + (IF prog.kind = "matmul" THEN 7 ELSE 8)
        /\ i # m + 8 /\ ~(i = m + 7 /\ prog.kind = "matmul")
    <3> HIDE DEF m, N
    <3> QED
      BY <2>1, <2>2
  <2>4. i < N /\ N \in Nat
    <3> HIDE DEF m, N
    <3> QED
      BY <2>3
  <2>5. ~Ahead(prog, todo, i)
    <3>1. ~(N <= i)
      <4>1. i \in Nat /\ N \in Nat /\ i < N
        BY <2>3, <2>4
      <4> HIDE DEF m, N
      <4> QED
        BY <4>1
    <3> QED
      BY <3>1 DEF Ahead
  <2> QED
    BY <2>5 DEF AnswerInv, Begun
<1>5. i \in Nat
  BY <1>2 DEF Stands
<1> QED
  BY <1>2, <1>3, <1>4, <1>5

\* What a step that leaves the answer and the stream alone has to show.
LEMMA KeepsAnswer ==
  ASSUME AnswerInv, UNCHANGED <<calls, prog, queue, answer>>
  PROVE  /\ AnswerIsReference'
         /\ \A j \in DOMAIN queue' : queue'[j].call = calls' =>
              /\ queue'[j].k \in DOMAIN prog'.ops
              /\ queue'[j].do = "download" => queue'[j].name = prog'.ops[queue'[j].k].outs[1].name
BY DEF AnswerInv, AnswerIsReference, OfNow

\* The parts of the invariant, after a step.
AnswerNext ==
  /\ Planned(prog', todo') /\ (Refuses(prog') => todo' = <<>>) /\ Underway'
  /\ AnswerIsReference'
  /\ \A j \in DOMAIN queue' : queue'[j].call = calls' =>
       /\ queue'[j].k \in DOMAIN prog'.ops
       /\ queue'[j].do = "download" => queue'[j].name = prog'.ops[queue'[j].k].outs[1].name

LEMMA NextIs ==
  ASSUME AnswerNext
  PROVE  AnswerInv'
BY DEF AnswerNext, AnswerInv, Underway, OfNow

\* A step that is none of a run's.
LEMMA BetweenRuns ==
  ASSUME TypeOK, AnswerInv, Does("card") \/ Does("dev") \/ Does("host") \/ Does("ws") \/ Does("free"),
         todo' = Tail(todo), UNCHANGED <<calls, prog, queue, answer>>
  PROVE  AnswerInv'
<1>1. todo # <<>> /\ Now.do \notin {"read", "sync", "download", "launch", "upload", "make", "fill"}
  BY DEF Does
<1>2. \A i \in DOMAIN todo : ~Begun(prog, todo, i)
  <2> SUFFICES ASSUME NEW i \in DOMAIN todo, Begun(prog, todo, i) PROVE FALSE
    OBVIOUS
  <2> DEFINE k == todo[i].k
             m == Len(prog.ops[k].ins)
  <2>1. Stands(prog, Now, k, i)
    BY StandsHere
  <2> HIDE DEF k
  <2>2. m \in Nat /\ i \in 1 .. (m + 8) /\ (prog.kind = "matmul" => i <= m + 7)
    BY <2>1 DEF Stands
  <2> HIDE DEF m
  <2>3. i \in 1 .. 6 \/ i \in 7 .. (m + 6) \/ (i = m + 7 /\ prog.kind # "matmul")
        \/ i = m + 8 \/ (i = m + 7 /\ prog.kind = "matmul")
    <3>1. i \in 1 .. 6 \/ i \in 7 .. (m + 6) \/ i = m + 7 \/ i = m + 8
      <4> SUFFICES ASSUME NEW a, NEW b, b \in Nat, a \in 1 .. (b + 8)
                   PROVE  a \in 1 .. 6 \/ a \in 7 .. (b + 6) \/ a = b + 7 \/ a = b + 8
        BY <2>2
      <4> QED
        OBVIOUS
    <3> QED
      BY <3>1, Zenon
  <2>4. i \in 1 .. 6 => i = 1 \/ i = 3 \/ i = 5 \/ i \in {2, 4, 6}
    OBVIOUS
  <2> QED
    BY <1>1, <2>1, <2>3, <2>4 DEF Stands, m
<1>3. Planned(prog', todo') /\ (Refuses(prog') => todo' = <<>>) /\ Underway'
  BY <1>1, <1>2, OneStepOn
<1> QED
  BY <1>3, KeepsAnswer, NextIs DEF AnswerNext, OfNow

\* Nothing that a run on its way depends on.
LEMMA SameWay ==
  ASSUME NEW op, NEW k, NEW j, OnItsWay(op, k, j), UNCHANGED <<calls, prog, mem, queue, raced>>
  PROVE  OnItsWay(op, k, j)'
BY DEF OnItsWay, Holds, Upload, OfNow

LEMMA MakeAnswers ==
  ASSUME TypeOK, AnswerInv, Make
  PROVE  AnswerInv'
<1>1. /\ todo # <<>> /\ Now.do = "make" /\ todo' = Tail(todo)
      /\ UNCHANGED <<calls, prog, queue, raced, answer>>
      /\ Now.arg # "graph" => mem' = mem
  BY DEF Make, Does
<1>2. ASSUME NEW i \in DOMAIN todo, i > 1, Begun(prog, todo, i),
             NEW op, op = prog.ops[todo[i].k], NEW k, k = todo[i].k, NEW j, j = i - 1
      PROVE  OnItsWay(op, k, j)'
  <2> DEFINE m == Len(op.ins)
  <2>1. /\ Stands(prog, Now, k, i) /\ OnItsWay(op, k, i) /\ i \in Nat
    BY <1>1, <1>2, StandsHere
  <2>2. /\ m \in Nat /\ i \in 1 .. (m + 8) /\ DOMAIN op.ins = 1 .. m
        /\ i = m + 7 /\ prog.kind # "matmul" => Now.arg = "stream"
    BY <1>2, <2>1 DEF Stands
  <2>3. i = m + 7 /\ prog.kind # "matmul"
    <3>1. i \in 1 .. 6 => i = 1 \/ i = 3 \/ i = 5 \/ i \in {2, 4, 6}
      OBVIOUS
    <3>2. i \notin 1 .. 6 /\ i \notin 7 .. (m + 6) /\ i # m + 8
          /\ ~(i = m + 7 /\ prog.kind = "matmul")
      BY <1>1, <1>2, <2>1, <3>1 DEF Stands
    <3> HIDE DEF m
    <3> QED
      BY <2>2, <3>2
  <2>4. mem' = mem
    BY <1>1, <2>2, <2>3
  <2>5. OnItsWay(op, k, i)'
    BY <1>1, <2>1, <2>4, SameWay
  <2> HIDE DEF m
  <2>6. \A l \in DOMAIN op.ins : ~(j + l < m + 7)
    BY <1>2, <2>2, <2>3
  <2>7. ~(j <= 5)
    BY <1>2, <2>2, <2>3
  <2>8. ~(j <= 4) /\ ~(j <= 2)
    BY <1>2, <2>2, <2>3
  <2>9. \A l \in DOMAIN op.ins : Holds(<<"host", op.ins[l].name>>, Data(op, op.ins[l].name))'
    BY <2>5 DEF OnItsWay
  <2> QED
    BY <2>6, <2>7, <2>8, <2>9 DEF OnItsWay, m
<1>3. Planned(prog', todo') /\ (Refuses(prog') => todo' = <<>>) /\ Underway'
  BY <1>1, <1>2, OneStepOn
<1> QED
  BY <1>1, <1>3, KeepsAnswer, NextIs DEF AnswerNext, OfNow

LEMMA FillAnswers ==
  ASSUME TypeOK, AnswerInv, Fill
  PROVE  AnswerInv'
<1>1. /\ todo # <<>> /\ Now.do = "fill" /\ todo' = Tail(todo)
      /\ UNCHANGED <<calls, prog, queue, raced, answer>>
      /\ mem' = Put([b \in {<<"host", Current.ins[j].name>> : j \in DOMAIN Current.ins} |->
                        Data(Current, b[2])])
  BY DEF Fill, Does
<1>2. ASSUME NEW i \in DOMAIN todo, i > 1, Begun(prog, todo, i),
             NEW op, op = prog.ops[todo[i].k], NEW k, k = todo[i].k, NEW j, j = i - 1
      PROVE  OnItsWay(op, k, j)'
  <2> DEFINE m == Len(op.ins)
  <2>1. Stands(prog, Now, k, i) /\ i \in Nat
    BY <1>2, StandsHere
  <2>2. m \in Nat /\ i \in 1 .. (m + 8) /\ DOMAIN op.ins = 1 .. m /\ Now.k = k
    BY <1>2, <2>1 DEF Stands
  <2>3. i >= m + 7
    <3>1. i \in 1 .. 6 => i = 1 \/ i = 3 \/ i = 5 \/ i \in {2, 4, 6}
      OBVIOUS
    <3>2. i \notin 1 .. 6 /\ i \notin 7 .. (m + 6)
      BY <1>1, <1>2, <2>1, <3>1 DEF Stands
    <3> HIDE DEF m
    <3> QED
      BY <2>2, <3>2
  <2> HIDE DEF m
  <2>4. \A l \in DOMAIN op.ins : ~(j + l < m + 7)
    BY <1>2, <2>2, <2>3
  <2>5. ~(j <= 5) /\ ~(j <= 4) /\ ~(j <= 2)
    BY <1>2, <2>2, <2>3
  <2>6. Current = op
    BY <1>2, <2>2 DEF Current
  <2>7. ASSUME NEW l \in DOMAIN op.ins
        PROVE  Holds(<<"host", op.ins[l].name>>, Data(op, op.ins[l].name))'
    <3> DEFINE S == {<<"host", op.ins[q].name>> : q \in DOMAIN op.ins}
               f == [b \in S |-> Data(op, b[2])]
               b == <<"host", op.ins[l].name>>
    <3>1. b \in S /\ b[2] = op.ins[l].name
      OBVIOUS
    <3>2. mem' = Put(f)
      BY <1>1, <2>6
    <3>3. f[b] = Data(op, op.ins[l].name) /\ DOMAIN f = S
      BY <3>1
    <3> HIDE DEF S, f
    <3> QED
      BY <3>1, <3>2, <3>3 DEF Holds, Put
  <2> QED
    BY <2>4, <2>5, <2>7 DEF OnItsWay, m
<1>3. Planned(prog', todo') /\ (Refuses(prog') => todo' = <<>>) /\ Underway'
  BY <1>1, <1>2, OneStepOn
<1> QED
  BY <1>1, <1>3, KeepsAnswer, NextIs DEF AnswerNext, OfNow

\* Where in a run each kind of step is.
LEMMA WhereIs ==
  ASSUME NEW p, NEW x, NEW k, NEW i, Stands(p, x, k, i), NEW op, op = p.ops[k]
  PROVE  /\ Len(op.ins) \in Nat /\ DOMAIN op.ins = 1 .. Len(op.ins) /\ x.k = k /\ i \in Nat
         /\ x.do = "upload" => /\ i \in 7 .. (Len(op.ins) + 6)
                               /\ x.arg = op.ins[Len(op.ins) + 7 - i].name
         /\ x.do = "sync" => i \in {2, 4, 6}
         /\ x.do = "launch" => i = 5
         /\ x.do = "download" => i = 3 /\ x.arg = op.outs[1].name
         /\ x.do = "read" => i = 1 /\ x.arg = op.outs[1].name
<1> DEFINE m == Len(op.ins)
<1>1. /\ m \in Nat /\ DOMAIN op.ins = 1 .. m /\ x.k = k
      /\ i \in 1 .. (m + 8) /\ (p.kind = "matmul" => i <= m + 7)
  BY DEF Stands
<1>2. /\ i = 1 => x.do = "read" /\ x.arg = op.outs[1].name
      /\ i \in {2, 4, 6} => x.do = "sync"
      /\ i = 3 => x.do = "download" /\ x.arg = op.outs[1].name
      /\ i = 5 => x.do = "launch"
      /\ i \in 7 .. (m + 6) => x.do = "upload" /\ x.arg = op.ins[m + 7 - i].name
      /\ i = m + 7 /\ p.kind # "matmul" => x.do = "make"
      /\ i = m + 8 \/ (i = m + 7 /\ p.kind = "matmul") => x.do = "fill"
  BY DEF Stands
<1> HIDE DEF m
<1>3. \/ i = 1 \/ i \in {2, 4, 6} \/ i = 3 \/ i = 5 \/ i \in 7 .. (m + 6)
      \/ (i = m + 7 /\ p.kind # "matmul") \/ i = m + 8 \/ (i = m + 7 /\ p.kind = "matmul")
  <2>1. i \in 1 .. 6 => i = 1 \/ i = 3 \/ i = 5 \/ i \in {2, 4, 6}
    OBVIOUS
  <2>2. i \in 1 .. 6 \/ i \in 7 .. (m + 6) \/ i = m + 7 \/ i = m + 8
    BY <1>1
  <2> QED
    BY <2>1, <2>2
<1>4. /\ x.do = "upload" => i \in 7 .. (m + 6)
      /\ x.do = "sync" => i \in {2, 4, 6}
      /\ x.do = "launch" => i = 5
      /\ x.do = "download" => i = 3
      /\ x.do = "read" => i = 1
  BY <1>2, <1>3
<1>5. i \in Nat
  BY <1>1
<1> QED
  BY <1>1, <1>2, <1>4, <1>5 DEF m

\* A sequence with one more.
LEMMA AppendGives ==
  ASSUME NEW s, IsSeq(s), NEW x
  PROVE  /\ IsSeq(Append(s, x)) /\ Len(Append(s, x)) = Len(s) + 1
         /\ \A i \in 1 .. Len(s) : Append(s, x)[i] = s[i]
         /\ Append(s, x)[Len(s) + 1] = x
<1> DEFINE t == <<x>>
           st == s \o t
           n == Len(s)
<1>1. IsSeq(t) /\ Len(t) = 1 /\ t[1] = x
  BY OneIs
<1>2. Append(s, x) = st
  BY DEF IsSeq
<1> HIDE DEF t
<1>3. Joins(s, t, st)
  BY <1>1, Joined
<1> HIDE DEF st
<1>4. /\ IsSeq(st) /\ Len(st) = n + 1
      /\ \A i \in 1 .. n : st[i] = s[i]
      /\ st[n + 1] = x
  BY <1>1, <1>3 DEF Joins
<1> HIDE DEF n
<1> QED
  BY <1>2, <1>4 DEF n

LEMMA AppendHas ==
  ASSUME NEW s, IsSeq(s), NEW x
  PROVE  /\ \E j \in DOMAIN Append(s, x) : Append(s, x)[j] = x
         /\ \A i \in DOMAIN s : \E j \in DOMAIN Append(s, x) : Append(s, x)[j] = s[i]
<1> DEFINE n == Len(s)
           t == Append(s, x)
<1>1. IsSeq(t) /\ Len(t) = n + 1 /\ t[n + 1] = x /\ \A i \in 1 .. n : t[i] = s[i]
  BY AppendGives
<1>2. n \in Nat /\ DOMAIN s = 1 .. n
  BY SeqIs
<1> HIDE DEF n, t
<1>3. DOMAIN t = 1 .. (n + 1)
  BY <1>1, SeqIs
<1>4. n + 1 \in 1 .. (n + 1) /\ \A i \in 1 .. n : i \in 1 .. (n + 1)
  BY <1>2
<1> QED
  BY <1>1, <1>2, <1>3, <1>4 DEF t

LEMMA Grown ==
  ASSUME NEW s, IsSeq(s), NEW x, NEW t, t = Append(s, x)
  PROVE  /\ \A j \in DOMAIN t : t[j] = x \/ \E l \in DOMAIN s : t[j] = s[l]
         /\ \E j \in DOMAIN t : t[j] = x
         /\ \A l \in DOMAIN s : \E j \in DOMAIN t : t[j] = s[l]
<1>1. \A j \in DOMAIN Append(s, x) :
          Append(s, x)[j] = x \/ \E i \in DOMAIN s : Append(s, x)[j] = s[i]
  BY AppendIs
<1>2. \E j \in DOMAIN Append(s, x) : Append(s, x)[j] = x
  BY AppendHas
<1>3. \A i \in DOMAIN s : \E j \in DOMAIN Append(s, x) : Append(s, x)[j] = s[i]
  BY AppendHas
<1> QED
  BY <1>1, <1>2, <1>3, Zenon

\* A copy or a launch joins the stream.
LEMMA EnqueueAnswers ==
  ASSUME TypeOK, AnswerInv, Enqueue
  PROVE  AnswerInv'
<1> DEFINE Q == Append(queue, Queued)
           x == Queued
<1>1. /\ todo # <<>> /\ Now.do \in {"upload", "launch", "download"} /\ todo' = Tail(todo)
      /\ UNCHANGED <<calls, prog, mem, raced, answer>> /\ queue' = Q
  BY DEF Enqueue, Does
<1>2. x.do = Now.do /\ x.name = Now.arg /\ x.call = calls /\ x.k = Now.k
  BY DEF Queued
<1>3. /\ \A j \in DOMAIN Q : Q[j] = x \/ \E l \in DOMAIN queue : Q[j] = queue[l]
      /\ \E j \in DOMAIN Q : Q[j] = x
      /\ \A l \in DOMAIN queue : \E j \in DOMAIN Q : Q[j] = queue[l]
  <2>1. IsSeq(queue) /\ Q = Append(queue, x)
    BY DEF TypeOK
  <2> HIDE DEF x, Q
  <2> QED
    BY <2>1, Grown
<1> HIDE DEF x, Q
<1>4. Now.do \notin {"read", "sync", "fill"}
  BY <1>1
<1>5. ASSUME NEW i \in DOMAIN todo, i > 1, Begun(prog, todo, i),
             NEW op, op = prog.ops[todo[i].k], NEW k, k = todo[i].k, NEW j, j = i - 1
      PROVE  OnItsWay(op, k, j)'
  <2> DEFINE m == Len(op.ins)
             out == op.outs[1].name
  <2>1. Stands(prog, Now, k, i) /\ OnItsWay(op, k, i)
    BY <1>1, <1>4, <1>5, StandsHere
  <2>2. op = prog.ops[k]
    BY <1>5
  <2>3. /\ m \in Nat /\ DOMAIN op.ins = 1 .. m /\ Now.k = k /\ i \in Nat
        /\ Now.do = "upload" => i \in 7 .. (m + 6) /\ Now.arg = op.ins[m + 7 - i].name
        /\ Now.do = "launch" => i = 5
        /\ Now.do = "download" => i = 3 /\ Now.arg = out
    BY <2>1, <2>2, WhereIs
  <2>4. /\ \A l \in DOMAIN op.ins : Holds(<<"host", op.ins[l].name>>, Data(op, op.ins[l].name))
        /\ \A l \in DOMAIN op.ins : i + l < m + 7 =>
              \/ Holds(<<"dev", op.ins[l].name>>, Data(op, op.ins[l].name))
              \/ i >= 6 /\ Upload(op.ins[l].name)
        /\ i <= 5 => \A l \in DOMAIN queue : queue[l].call = calls =>
              \/ i = 4 /\ queue[l].do = "launch" /\ queue[l].k = k
              \/ i = 2 /\ queue[l].do = "download" /\ queue[l].name = out
        /\ i <= 4 =>
              \/ Holds(<<"dev", out>>, op.cpu)
              \/ i = 4 /\ \E l \in DOMAIN queue : queue[l].call = calls
    BY <2>1, Zenon DEF OnItsWay, OfNow
  <2> HIDE DEF m, out
  <2>5. \A place, val : Holds(place, val) => Holds(place, val)'
    BY <1>1 DEF Holds
  <2>6. \A name : Upload(name) => Upload(name)'
    BY <1>1, <1>3 DEF Upload, OfNow
  <2>7. \A l \in DOMAIN op.ins : Holds(<<"host", op.ins[l].name>>, Data(op, op.ins[l].name))'
    BY <2>4, <2>5
  <2>8. ASSUME NEW l \in DOMAIN op.ins, j + l < m + 7
        PROVE  \/ Holds(<<"dev", op.ins[l].name>>, Data(op, op.ins[l].name))'
               \/ j >= 6 /\ Upload(op.ins[l].name)'
    <3>1. CASE i + l < m + 7
      <4>1. Now.do = "launch" \/ Now.do = "download" => ~(i >= 6)
        BY <2>3
      <4>2. Now.do = "upload" => j >= 6
        BY <1>5, <2>3
      <4> QED
        BY <1>1, <2>4, <2>5, <2>6, <3>1, <4>1, <4>2
    <3>2. CASE ~(i + l < m + 7)
      <4>1. i = m + 7 - l /\ l \in 1 .. m /\ l = m + 7 - i
        BY <1>5, <2>3, <2>8, <3>2
      <4>2. i >= 7
        BY <2>3, <4>1
      <4>3. Now.do = "upload" /\ j >= 6
        BY <1>1, <1>5, <2>3, <4>2
      <4>4. Now.arg = op.ins[l].name
        BY <2>3, <4>1, <4>3
      <4>5. Upload(op.ins[l].name)'
        BY <1>1, <1>2, <1>3, <4>3, <4>4 DEF Upload, OfNow
      <4> QED
        BY <4>3, <4>5
    <3> QED
      BY <3>1, <3>2
  <2>9. ASSUME j <= 5, NEW l \in DOMAIN Q, Q[l].call = calls
        PROVE  \/ j = 4 /\ Q[l].do = "launch" /\ Q[l].k = k
               \/ j = 2 /\ Q[l].do = "download" /\ Q[l].name = out
    <3>1. Now.do # "upload"
      BY <1>5, <2>3, <2>9
    <3>2. i = 5 \/ i = 3
      BY <1>1, <2>3, <3>1
    <3>3. \A q \in DOMAIN queue : queue[q].call # calls
      BY <2>4, <3>2
    <3>4. Q[l] = x
      BY <1>3, <2>9, <3>3
    <3> QED
      BY <1>1, <1>2, <1>5, <2>3, <3>1, <3>2, <3>4
  <2>10. \E l \in DOMAIN Q : Q[l].call = calls
    BY <1>2, <1>3
  <2>11. ASSUME j <= 4
         PROVE  \/ Holds(<<"dev", out>>, op.cpu)'
                \/ j = 4 /\ \E l \in DOMAIN Q : Q[l].call = calls
    <3>1. i = 5 \/ i = 3
      BY <1>1, <1>5, <2>3, <2>11
    <3>2. i = 5 => j = 4
      BY <1>5
    <3>3. i = 3 => Holds(<<"dev", out>>, op.cpu)'
      BY <2>4, <2>5
    <3> QED
      BY <2>10, <3>1, <3>2, <3>3
  <2>12. ASSUME j <= 2
         PROVE  j = 2 /\ \E l \in DOMAIN Q : Q[l].call = calls
    <3>1. j = 2
      BY <1>1, <1>5, <2>3, <2>12
    <3> QED
      BY <2>10, <3>1
  <2> QED
    BY <1>1, <2>7, <2>8, <2>9, <2>11, <2>12 DEF OnItsWay, OfNow, m, out
<1>6. Planned(prog', todo') /\ (Refuses(prog') => todo' = <<>>) /\ Underway'
  BY <1>1, <1>5, OneStepOn
<1>7. ASSUME NEW j \in DOMAIN Q, Q[j].call = calls
      PROVE  /\ Q[j].k \in DOMAIN prog.ops
             /\ Q[j].do = "download" => Q[j].name = prog.ops[Q[j].k].outs[1].name
  <2>1. Now = todo[1] /\ 1 \in DOMAIN todo
    BY <1>1, TailIs, SeqIs DEF TypeOK, Now
  <2>2. /\ Now.k \in DOMAIN prog.ops
        /\ Now.do = "download" => Now.arg = prog.ops[Now.k].outs[1].name
    BY <1>1, <2>1 DEF AnswerInv, Planned, Queues
  <2>3. CASE Q[j] = x
    BY <1>2, <2>2, <2>3
  <2>4. CASE \E l \in DOMAIN queue : Q[j] = queue[l]
    BY <1>7, <2>4 DEF AnswerInv, OfNow
  <2> QED
    BY <1>3, <2>3, <2>4
<1>8. AnswerIsReference'
  BY <1>1 DEF AnswerInv, AnswerIsReference
<1> QED
  BY <1>1, <1>6, <1>7, <1>8, NextIs DEF AnswerNext

\* A wait finds the stream done with what the program queued.
LEMMA SynchronizeAnswers ==
  ASSUME TypeOK, AnswerInv, Synchronize
  PROVE  AnswerInv'
<1>1. /\ todo # <<>> /\ Now.do = "sync" /\ todo' = Tail(todo)
      /\ UNCHANGED <<calls, prog, mem, queue, raced, answer>>
      /\ \A j \in DOMAIN queue : queue[j].call # calls
  BY DEF Synchronize, Does
<1>2. ASSUME NEW i \in DOMAIN todo, i > 1, Begun(prog, todo, i),
             NEW op, op = prog.ops[todo[i].k], NEW k, k = todo[i].k, NEW j, j = i - 1
      PROVE  OnItsWay(op, k, j)'
  <2> DEFINE m == Len(op.ins)
             out == op.outs[1].name
  <2>1. Stands(prog, Now, k, i) /\ OnItsWay(op, k, i) /\ op = prog.ops[k]
    BY <1>1, <1>2, StandsHere
  <2>2. m \in Nat /\ DOMAIN op.ins = 1 .. m /\ i \in {2, 4, 6}
    BY <1>1, <2>1, WhereIs
  <2>3. \A name : ~Upload(name)
    BY <1>1 DEF Upload, OfNow
  <2>4. /\ \A l \in DOMAIN op.ins : Holds(<<"host", op.ins[l].name>>, Data(op, op.ins[l].name))
        /\ \A l \in DOMAIN op.ins : i + l < m + 7 =>
              Holds(<<"dev", op.ins[l].name>>, Data(op, op.ins[l].name))
        /\ i <= 4 => Holds(<<"dev", out>>, op.cpu)
        /\ i <= 2 /\ ~raced /\ ~prog.small => Holds(<<"host", out>>, op.cpu)
    BY <1>1, <2>1, <2>3, Zenon DEF OnItsWay, OfNow
  <2> HIDE DEF m, out
  <2>5. \A place, val : Holds(place, val) => Holds(place, val)'
    BY <1>1 DEF Holds
  <2>6. \A l \in DOMAIN op.ins : i + l < m + 7
    BY <2>2
  <2>7. j \in {1, 3, 5} /\ (j <= 4 => i <= 4) /\ (j <= 2 => i <= 2)
    BY <1>2, <2>2
  <2> QED
    BY <1>1, <2>4, <2>5, <2>6, <2>7 DEF OnItsWay, OfNow, m, out
<1>3. Planned(prog', todo') /\ (Refuses(prog') => todo' = <<>>) /\ Underway'
  BY <1>1, <1>2, OneStepOn
<1> QED
  BY <1>1, <1>3, KeepsAnswer, NextIs DEF AnswerNext, OfNow

\* The read at the end of a run.
LEMMA ReadBackAnswers ==
  ASSUME TypeOK, AnswerInv, ReadBack
  PROVE  AnswerInv'
<1>1. /\ todo # <<>> /\ Now.do = "read" /\ todo' = Tail(todo)
      /\ UNCHANGED <<calls, prog, mem, queue, raced>>
      /\ answer' = << [val |-> mem[<<"host", Now.arg>>], cpu |-> Current.cpu, raced |-> raced] >>
  BY DEF ReadBack, Does
<1>2. ASSUME NEW i \in DOMAIN todo, i > 1, Begun(prog, todo, i) PROVE FALSE
  <2> DEFINE k == todo[i].k
             op == prog.ops[k]
  <2>1. Stands(prog, Now, k, i)
    BY <1>2, StandsHere
  <2>2. i = 1
    BY <1>1, <2>1, WhereIs
  <2> QED
    BY <1>2, <2>2
<1>3. Planned(prog', todo') /\ (Refuses(prog') => todo' = <<>>) /\ Underway'
  BY <1>1, <1>2, OneStepOn
<1>4. AnswerIsReference'
  <2> DEFINE k == Now.k
             op == prog.ops[k]
  <2>1. Now = todo[1] /\ 1 \in DOMAIN todo
    BY <1>1, TailIs, SeqIs DEF TypeOK, Now
  <2>2. Operated(prog) /\ k \in DOMAIN prog.ops
    BY <1>1, <2>1, ProgramsOperate DEF AnswerInv, Planned, TypeOK
  <2>3. Begun(prog, todo, 1)
    <3>1. IsRun(prog, k, RunOf(prog, k))
      BY <2>2, RunIs DEF Operated
    <3> DEFINE m == Len(prog.ops[k].ins)
               N == Len(RunOf(prog, k))
    <3>2. m \in Nat /\ N = m + (IF prog.kind = "matmul" THEN 7 ELSE 8)
      BY <3>1, Zenon DEF IsRun
    <3>3. 1 <= N
      <4> HIDE DEF m, N
      <4> QED
        BY <3>2
    <3> QED
      BY <1>1, <2>1, <3>3 DEF Begun
  <2>4. OnItsWay(op, k, 1) /\ Stands(prog, Now, k, 1)
    BY <1>1, <2>1, <2>3, StandsHere
  <2>5. Now.arg = op.outs[1].name
    BY <1>1, <2>4, WhereIs
  <2>6. ~raced /\ ~prog.small => mem[<<"host", Now.arg>>] = op.cpu
    BY <2>4, <2>5, SMTT(30) DEF OnItsWay, Holds
  <2>7. prog.small => prog.kind # "attention"
    BY <1>1 DEF AnswerInv, Refuses
  <2>8. Current = op
    BY DEF Current
  <2> HIDE DEF op, k
  <2>9. ~raced /\ (prog.small => prog.kind = "attention") => mem[<<"host", Now.arg>>] = Current.cpu
    BY <2>6, <2>7, <2>8
  <2> DEFINE a == [val |-> mem[<<"host", Now.arg>>], cpu |-> Current.cpu, raced |-> raced]
  <2>10. a.val = mem[<<"host", Now.arg>>] /\ a.cpu = Current.cpu /\ a.raced = raced
    OBVIOUS
  <2>11. answer' = <<a>>
    BY <1>1
  <2> HIDE DEF a
  <2>12. DOMAIN answer' = {1} /\ answer'[1] = a
    BY <2>11, OneIs
  <2> QED
    BY <1>1, <2>9, <2>10, <2>12 DEF AnswerIsReference
<1> QED
  BY <1>1, <1>3, <1>4, NextIs DEF AnswerNext, AnswerInv, OfNow

\* The queue without its j-th still has the others.
LEMMA RestHas ==
  ASSUME IsSeq(queue), NEW j \in DOMAIN queue, NEW l \in DOMAIN queue, l # j
  PROVE  \E i \in DOMAIN Rest(j) : Rest(j)[i] = queue[l]
<1> DEFINE X == {queue[q] : q \in DOMAIN queue}
           n == Len(queue)
           a == SubSeq(queue, 1, j - 1)
           b == SubSeq(queue, j + 1, n)
           c == a \o b
<1>1. queue \in Seq(X) /\ j \in 1 .. n /\ l \in 1 .. n /\ n \in Nat
  BY SeqIs DEF IsSeq
<1> HIDE DEF X
<1>2. /\ a \in Seq(X) /\ Len(a) = j - 1 /\ \A q \in 1 .. (j - 1) : a[q] = queue[q]
      /\ b \in Seq(X) /\ Len(b) = n - j /\ \A q \in 1 .. (n - j) : b[q] = queue[q + j]
  BY <1>1
<1>3. IsSeq(a) /\ IsSeq(b)
  BY <1>2, InSeq
<1> HIDE DEF a, b, n
<1>4. Joins(a, b, c)
  BY <1>3, Joined
<1> HIDE DEF c
<1>5. /\ DOMAIN c = 1 .. ((j - 1) + (n - j))
      /\ \A q \in 1 .. (j - 1) : c[q] = a[q]
      /\ \A q \in 1 .. (n - j) : c[(j - 1) + q] = b[q]
  BY <1>2, <1>4 DEF Joins
<1>6. CASE l < j
  <2>1. l \in 1 .. (j - 1) /\ l \in 1 .. ((j - 1) + (n - j))
    BY <1>1, <1>6
  <2>2. l \in DOMAIN c /\ c[l] = queue[l]
    BY <1>2, <1>5, <2>1
  <2> QED
    BY <2>2 DEF Rest, a, b, c, n
<1>7. CASE l > j
  <2>1. l - j \in 1 .. (n - j) /\ (l - j) + j = l /\ (j - 1) + (l - j) \in 1 .. ((j - 1) + (n - j))
    BY <1>1, <1>7
  <2>2. (j - 1) + (l - j) \in DOMAIN c /\ c[(j - 1) + (l - j)] = queue[l]
    BY <1>2, <1>5, <2>1
  <2> QED
    BY <2>2 DEF Rest, a, b, c, n
<1> QED
  BY <1>1, <1>6, <1>7

\* What is written is there, the rest as before.
LEMMA PutKeeps ==
  ASSUME NEW new, mem' = Put(new), NEW b, NEW v, Holds(b, v), b \notin DOMAIN new
  PROVE  Holds(b, v)'
BY DEF Put, Holds

LEMMA PutSets ==
  ASSUME NEW new, mem' = Put(new), NEW b \in DOMAIN new, NEW v, v = new[b]
  PROVE  Holds(b, v)'
BY DEF Put, Holds

LEMMA Put1Keeps ==
  ASSUME NEW a, NEW x, mem' = Put1(a, x), NEW b, NEW v, Holds(b, v), b # a
  PROVE  Holds(b, v)'
BY PutKeeps DEF Put1

LEMMA Put1Sets ==
  ASSUME NEW a, NEW x, mem' = Put1(a, x)
  PROVE  Holds(a, x)'
<1> DEFINE new == [b \in {a} |-> x]
<1>1. mem' = Put(new) /\ a \in DOMAIN new /\ x = new[a]
  BY DEF Put1
<1> HIDE DEF new
<1> QED
  BY <1>1, PutSets

\* A launch whose operands are in the card leaves the reference's result there.
LEMMA LaunchComputes ==
  ASSUME NEW op, Formed(op), Computes(op),
         \A i \in DOMAIN op.ins : Holds(<<"dev", op.ins[i].name>>, Data(op, op.ins[i].name))
  PROVE  <<"dev", op.outs[1].name>> \in DOMAIN Computed(op)
         /\ Computed(op)[<<"dev", op.outs[1].name>>] = op.cpu
<1> DEFINE out == op.outs[1].name
           b == <<"dev", out>>
           L == Loaded(op.ins)
           N == {op.ins[j].name : j \in DOMAIN op.ins}
           after == Ran(op.nodes, L, <<>>)
<1>1. /\ DOMAIN L = N
      /\ \A n \in N : L[n] = [sz |-> L[n].sz, at |-> L[n].at]
      /\ L = [n \in N |-> L[n]]
  BY DEF Loaded
<1>2. \A n \in N : mem[<<"dev", n>>] = L[n].at /\ L[n].at # Old
  BY DEF Holds, Computes, Data
<1>3. Operands(op) = [n \in N |-> [sz |-> L[n].sz, at |-> mem[<<"dev", n>>]]]
  BY DEF Operands
<1> HIDE DEF L, N
<1>4. Operands(op) = L
  BY <1>1, <1>2, <1>3
<1>5. ~\E n \in DOMAIN Operands(op) : Operands(op)[n].at = Old
  BY <1>1, <1>2, <1>4
<1>6. Computed(op) = [a \in OutPlaces(op) |-> Ran(op.nodes, L, <<>>)[a[2]].at]
  BY <1>4, <1>5 DEF Computed
<1>7. b \in OutPlaces(op) /\ b[2] = out
  <2>1. 1 \in DOMAIN op.outs
    BY SeqIs DEF Formed
  <2> QED
    BY <2>1 DEF OutPlaces
<1>8. Ran(op.nodes, L, <<>>)[out].at = op.cpu
  BY DEF Computes, L
<1> HIDE DEF out, b
<1>9. b \in DOMAIN Computed(op) /\ Computed(op)[b] = op.cpu
  BY <1>6, <1>7, <1>8
<1> QED
  BY <1>9 DEF b, out

LEMMA ComputedAt ==
  ASSUME NEW op
  PROVE  DOMAIN Computed(op) = OutPlaces(op)
BY DEF Computed

\* What is queued after the device has done its j-th.
LEMMA OthersStay ==
  ASSUME IsSeq(queue), NEW j \in DOMAIN queue, queue' = Rest(j), calls' = calls
  PROVE  /\ \A i \in DOMAIN queue' : \E l \in DOMAIN queue : queue'[i] = queue[l]
         /\ \A name : /\ Upload(name)
                      /\ ~(queue[j].do = "upload" /\ OfNow(queue[j]) /\ queue[j].name = name)
                      => Upload(name)'
         /\ queue[j].call # calls /\ (\E l \in DOMAIN queue : queue[l].call = calls) =>
                \E l \in DOMAIN queue' : queue'[l].call = calls
<1> DEFINE Q == queue'
<1>1. \A l \in DOMAIN queue : l # j => \E i \in DOMAIN Q : Q[i] = queue[l]
  BY RestHas
<1>2. \A i \in DOMAIN Q : \E l \in DOMAIN queue : Q[i] = queue[l]
  BY RestIs
<1> HIDE DEF Q
<1>3. ASSUME NEW name, NEW l \in DOMAIN queue, queue[l].call = calls, queue[l].do = "upload",
             queue[l].name = name,
             ~(queue[j].do = "upload" /\ queue[j].call = calls /\ queue[j].name = name)
      PROVE  \E i \in DOMAIN Q : Q[i].call = calls /\ Q[i].do = "upload" /\ Q[i].name = name
  <2>1. l # j
    BY <1>3
  <2>2. PICK i \in DOMAIN Q : Q[i] = queue[l]
    BY <1>1, <2>1
  <2> QED
    BY <1>3, <2>2
<1>4. ASSUME queue[j].call # calls, NEW l \in DOMAIN queue, queue[l].call = calls
      PROVE  \E i \in DOMAIN Q : Q[i].call = calls
  <2>1. PICK i \in DOMAIN Q : Q[i] = queue[l]
    BY <1>1, <1>4
  <2> QED
    BY <1>4, <2>1
<1> QED
  BY <1>2, <1>3, <1>4 DEF Upload, OfNow, Q

Works(c) == Uploaded(c) \/ Launched(c) \/ Downloaded(c) \/ Abandoned(c)

\* The device writes no input, but a copy of it.
LEMMA WorkKeeps ==
  ASSUME KeepsInputs(prog), AnswerInv, NEW j \in DOMAIN queue, NEW c, c = queue[j], Works(c),
         NEW k \in DOMAIN prog.ops, NEW op, op = prog.ops[k], NEW i \in DOMAIN op.ins,
         NEW name, name = op.ins[i].name, \A o \in DOMAIN prog.ops : Formed(prog.ops[o]),
         NEW v
  PROVE  /\ Holds(<<"host", name>>, v) => Holds(<<"host", name>>, v)'
         /\ /\ Holds(<<"dev", name>>, v)
            /\ c.do = "upload" /\ OfNow(c) /\ c.name = name => Holds(<<"host", name>>, v)
            => Holds(<<"dev", name>>, v)'
<1>1. \A o \in DOMAIN prog.ops : \A q \in DOMAIN prog.ops[o].outs : prog.ops[o].outs[q].name # name
  BY DEF KeepsInputs
<1>2. CASE Uploaded(c)
  <2>1. mem' = Put1(<<"dev", c.name>>, mem[<<"host", c.name>>]) /\ c.do = "upload" /\ OfNow(c)
    BY <1>2 DEF Uploaded, Copied
  <2>2. ASSUME c.name = name, Holds(<<"host", name>>, v) PROVE Holds(<<"dev", name>>, v)'
    <3>1. mem[<<"host", c.name>>] = v
      BY <2>2 DEF Holds
    <3> QED
      BY <2>1, <2>2, <3>1, Put1Sets
  <2>3. Holds(<<"host", name>>, v) => Holds(<<"host", name>>, v)'
    BY <2>1, Put1Keeps
  <2>4. Holds(<<"dev", name>>, v) /\ c.name # name => Holds(<<"dev", name>>, v)'
    <3>1. c.name # name => <<"dev", name>> # <<"dev", c.name>>
      OBVIOUS
    <3> QED
      BY <2>1, <3>1, Put1Keeps
  <2> QED
    BY <2>1, <2>2, <2>3, <2>4
<1>3. CASE Launched(c)
  <2>1. /\ mem' = Put(Computed(prog.ops[c.k])) /\ c.do = "launch" /\ OfNow(c)
    BY <1>3 DEF Launched
  <2>2. c.k \in DOMAIN prog.ops
    BY <2>1 DEF AnswerInv
  <2>3. \A q \in DOMAIN prog.ops[c.k].outs : prog.ops[c.k].outs[q].name # name
    BY <1>1, <2>2
  <2>4. <<"host", name>> \notin OutPlaces(prog.ops[c.k])
        /\ <<"dev", name>> \notin OutPlaces(prog.ops[c.k])
    BY <2>3 DEF OutPlaces
  <2>5. <<"host", name>> \notin DOMAIN Computed(prog.ops[c.k])
        /\ <<"dev", name>> \notin DOMAIN Computed(prog.ops[c.k])
    BY <2>4, ComputedAt
  <2> QED
    BY <2>1, <2>5, PutKeeps
<1>4. CASE Downloaded(c)
  <2>1. c.do = "download" /\ OfNow(c)
        /\ (\/ mem' = mem
            \/ \E x : mem' = Put1(<<"host", c.name>>, x))
    BY <1>4 DEF Downloaded, Copied
  <2>2. c.k \in DOMAIN prog.ops /\ c.name = prog.ops[c.k].outs[1].name
    BY <2>1 DEF AnswerInv
  <2>3. 1 \in DOMAIN prog.ops[c.k].outs
    BY <2>2, SeqIs DEF Formed
  <2>4. c.name # name
    BY <1>1, <2>2, <2>3
  <2>5. <<"host", name>> # <<"host", c.name>> /\ <<"dev", name>> # <<"host", c.name>>
    BY <2>4
  <2>6. CASE mem' = mem
    BY <2>6 DEF Holds
  <2>7. CASE \E x : mem' = Put1(<<"host", c.name>>, x)
    BY <2>5, <2>7, Put1Keeps
  <2> QED
    BY <2>1, <2>6, <2>7
<1>5. CASE Abandoned(c)
  BY <1>5 DEF Abandoned, Holds
<1> QED
  BY <1>2, <1>3, <1>4, <1>5 DEF Works

\* The device works for a run on its way.
LEMMA WorksOnItsWay ==
  ASSUME Operated(prog), KeepsInputs(prog), \A k \in DOMAIN prog.ops : Computes(prog.ops[k]),
         IsSeq(queue), AnswerInv, NEW j \in DOMAIN queue, NEW c, c = queue[j],
         Works(c), queue' = Rest(j), UNCHANGED <<calls, prog, raced>>,
         NEW k \in DOMAIN prog.ops, NEW op, op = prog.ops[k], NEW i \in Nat, OnItsWay(op, k, i)
  PROVE  OnItsWay(op, k, i)'
<1> DEFINE m == Len(op.ins)
           out == op.outs[1].name
<1>1. /\ Formed(op) /\ Computes(op) /\ m \in Nat /\ DOMAIN op.ins = 1 .. m
      /\ \A o \in DOMAIN prog.ops : Formed(prog.ops[o])
  BY SeqIs DEF Operated, Formed
<1>2. /\ \A l \in DOMAIN op.ins : Holds(<<"host", op.ins[l].name>>, Data(op, op.ins[l].name))
      /\ \A l \in DOMAIN op.ins : i + l < m + 7 =>
            \/ Holds(<<"dev", op.ins[l].name>>, Data(op, op.ins[l].name))
            \/ i >= 6 /\ Upload(op.ins[l].name)
      /\ i <= 5 => \A l \in DOMAIN queue : queue[l].call = calls =>
            \/ i = 4 /\ queue[l].do = "launch" /\ queue[l].k = k
            \/ i = 2 /\ queue[l].do = "download" /\ queue[l].name = out
      /\ i <= 4 =>
            \/ Holds(<<"dev", out>>, op.cpu)
            \/ i = 4 /\ \E l \in DOMAIN queue : queue[l].call = calls
      /\ i <= 2 /\ ~raced /\ ~prog.small =>
            \/ Holds(<<"host", out>>, op.cpu)
            \/ i = 2 /\ \E l \in DOMAIN queue : queue[l].call = calls
  BY DEF OnItsWay, OfNow
<1>3. /\ \A q \in DOMAIN queue' : \E l \in DOMAIN queue : queue'[q] = queue[l]
      /\ \A name : Upload(name) /\ ~(c.do = "upload" /\ OfNow(c) /\ c.name = name) => Upload(name)'
      /\ c.call # calls /\ (\E l \in DOMAIN queue : queue[l].call = calls) =>
             \E l \in DOMAIN queue' : queue'[l].call = calls
  BY OthersStay
<1>4. \A l \in DOMAIN op.ins : Holds(<<"host", op.ins[l].name>>, Data(op, op.ins[l].name))'
  <2>1. ASSUME NEW l \in DOMAIN op.ins, NEW name, name = op.ins[l].name, NEW v, v = Data(op, name)
        PROVE  Holds(<<"host", name>>, v)'
    <3>1. Holds(<<"host", name>>, v)
      BY <1>2, <2>1
    <3> QED
      BY <1>1, <2>1, <3>1, WorkKeeps
  <2>2. \A l \in DOMAIN op.ins : \A name, v : name = op.ins[l].name /\ v = Data(op, name) =>
            Holds(<<"host", name>>, v)'
    BY <2>1
  <2> QED
    BY <2>2
<1>5. ASSUME NEW l \in DOMAIN op.ins, i + l < m + 7, NEW name, name = op.ins[l].name
      PROVE  \/ Holds(<<"dev", name>>, Data(op, name))'
             \/ i >= 6 /\ Upload(name)'
  <2>1. Holds(<<"host", name>>, Data(op, name))
    BY <1>2, <1>5
  <2>2. \/ Holds(<<"dev", name>>, Data(op, name))
        \/ i >= 6 /\ Upload(name)
    BY <1>2, <1>5
  <2>3. Holds(<<"dev", name>>, Data(op, name)) => Holds(<<"dev", name>>, Data(op, name))'
    BY <1>1, <1>5, <2>1, WorkKeeps
  <2>4. CASE c.do = "upload" /\ OfNow(c) /\ c.name = name
    <3>1. Uploaded(c)
      BY <2>4 DEF Works, Launched, Downloaded, Abandoned
    <3>2. mem' = Put1(<<"dev", name>>, mem[<<"host", name>>]) /\ mem[<<"host", name>>] = Data(op, name)
      BY <2>1, <2>4, <3>1 DEF Uploaded, Copied, Holds
    <3> QED
      BY <3>2, Put1Sets
  <2>5. CASE ~(c.do = "upload" /\ OfNow(c) /\ c.name = name)
    BY <1>3, <2>2, <2>3, <2>5
  <2> QED
    BY <2>4, <2>5
<1>6. ASSUME i <= 5, NEW l \in DOMAIN queue', queue'[l].call = calls
      PROVE  \/ i = 4 /\ queue'[l].do = "launch" /\ queue'[l].k = k
             \/ i = 2 /\ queue'[l].do = "download" /\ queue'[l].name = out
  BY <1>2, <1>3, <1>6
<1>7. ASSUME c.call # calls PROVE \A place, v : Holds(place, v) => Holds(place, v)'
  BY <1>7 DEF Works, Uploaded, Launched, Downloaded, Abandoned, OfNow, Holds
<1>8. ASSUME i <= 5, c.call = calls
      PROVE  \/ i = 4 /\ c.do = "launch" /\ c.k = k
             \/ i = 2 /\ c.do = "download" /\ c.name = out
  BY <1>2, <1>8
<1>9. ASSUME i <= 4
      PROVE  \/ Holds(<<"dev", out>>, op.cpu)'
             \/ i = 4 /\ \E l \in DOMAIN queue' : queue'[l].call = calls
  <2>1. CASE c.call # calls
    BY <1>2, <1>3, <1>7, <1>9, <2>1
  <2>2. CASE c.call = calls /\ i = 4 /\ c.do = "launch" /\ c.k = k
    <3>1. mem' = Put(Computed(op))
      BY <2>2 DEF Works, Uploaded, Launched, Downloaded, Abandoned, OfNow
    <3>2. \A l \in DOMAIN op.ins : i + l < m + 7 /\ ~(i >= 6)
      BY <1>1, <2>2
    <3>3. \A l \in DOMAIN op.ins : Holds(<<"dev", op.ins[l].name>>, Data(op, op.ins[l].name))
      BY <1>2, <3>2
    <3>4. <<"dev", out>> \in DOMAIN Computed(op) /\ Computed(op)[<<"dev", out>>] = op.cpu
      BY <1>1, <3>3, LaunchComputes
    <3> HIDE DEF out
    <3> QED
      BY <3>1, <3>4, PutSets
  <2>3. CASE c.call = calls /\ i = 2 /\ c.do = "download" /\ c.name = out
    <3>1. Holds(<<"dev", out>>, op.cpu)
      BY <1>2, <1>9, <2>3
    <3>2. mem' = mem \/ \E x : mem' = Put1(<<"host", c.name>>, x)
      BY <2>3 DEF Works, Uploaded, Launched, Downloaded, Abandoned, OfNow, Copied
    <3>3. <<"dev", out>> # <<"host", c.name>>
      OBVIOUS
    <3> HIDE DEF out
    <3>4. CASE mem' = mem
      BY <3>1, <3>4 DEF Holds
    <3>5. CASE \E x : mem' = Put1(<<"host", c.name>>, x)
      BY <3>1, <3>3, <3>5, Put1Keeps
    <3> QED
      BY <3>2, <3>4, <3>5
  <2> QED
    BY <1>8, <1>9, <2>1, <2>2, <2>3
<1>10. ASSUME i <= 2, ~raced, ~prog.small
       PROVE  \/ Holds(<<"host", out>>, op.cpu)'
              \/ i = 2 /\ \E l \in DOMAIN queue' : queue'[l].call = calls
  <2>1. CASE c.call # calls
    BY <1>2, <1>3, <1>7, <1>10, <2>1
  <2>2. CASE c.call = calls /\ i = 2 /\ c.do = "download" /\ c.name = out
    <3>1. Holds(<<"dev", out>>, op.cpu)
      BY <1>2, <1>10, <2>2
    <3>2. mem' = Put1(<<"host", out>>, mem[<<"dev", out>>]) /\ mem[<<"dev", out>>] = op.cpu
      BY <1>10, <2>2, <3>1
         DEF Works, Uploaded, Launched, Downloaded, Abandoned, OfNow, Copied, Holds
    <3> HIDE DEF out
    <3> QED
      BY <3>2, Put1Sets
  <2> QED
    BY <1>8, <1>10, <2>1, <2>2
<1> QED
  BY <1>4, <1>5, <1>6, <1>9, <1>10 DEF OnItsWay, OfNow

LEMMA DeviceWorksAnswers ==
  ASSUME OperationsCompute, TypeOK, AnswerInv, DeviceWorks
  PROVE  AnswerInv'
<1>1. PICK j \in DOMAIN queue : queue' = Rest(j) /\ Works(queue[j])
  BY DEF DeviceWorks, Works
<1>2. UNCHANGED <<calls, prog, todo, raced, answer>>
  BY DEF DeviceWorks
<1>3. /\ Operated(prog) /\ KeepsInputs(prog) /\ \A k \in DOMAIN prog.ops : Computes(prog.ops[k])
      /\ IsSeq(queue) /\ IsSeq(todo)
  BY ProgramsOperate DEF TypeOK, OperationsCompute
<1>4. ASSUME NEW i \in DOMAIN todo, todo[i].do = "read", ~Ahead(prog, todo, i),
             NEW op, op = prog.ops[todo[i].k], NEW k, k = todo[i].k
      PROVE  OnItsWay(op, k, i)'
  <2>1. OnItsWay(op, k, i) /\ k \in DOMAIN prog.ops /\ i \in Nat
    BY <1>3, <1>4, SeqIs DEF AnswerInv, Planned
  <2> QED
    BY <1>1, <1>2, <1>3, <1>4, <2>1, WorksOnItsWay
<1>5. Underway'
  <2>1. \A i \in DOMAIN todo : todo[i].do = "read" /\ ~Ahead(prog, todo, i) =>
          \A op, k : op = prog.ops[todo[i].k] /\ k = todo[i].k => OnItsWay(op, k, i)'
    BY <1>4
  <2> QED
    BY <1>2, <2>1 DEF Underway
<1>6. Planned(prog', todo') /\ (Refuses(prog') => todo' = <<>>) /\ AnswerIsReference'
  BY <1>2 DEF AnswerInv, AnswerIsReference
<1>7. ASSUME NEW i \in DOMAIN queue', queue'[i].call = calls
      PROVE  /\ queue'[i].k \in DOMAIN prog.ops
             /\ queue'[i].do = "download" => queue'[i].name = prog.ops[queue'[i].k].outs[1].name
  <2>1. PICK l \in DOMAIN queue : queue'[i] = queue[l]
    BY <1>1, <1>3, RestIs
  <2> QED
    BY <1>7, <2>1 DEF AnswerInv, OfNow
<1> QED
  BY <1>2, <1>5, <1>6, <1>7, NextIs DEF AnswerNext

\* A program that starts has all of its runs ahead, and nothing queued.
LEMMA BeginAnswers ==
  ASSUME IInv, Begin
  PROVE  AnswerInv'
<1>1. PICK p \in DOMAIN Programs : prog' = Programs[p]
  BY DeviceAssumption DEF Begin
<1>2. todo' = Script(prog') /\ calls' = calls + 1 /\ queue' = queue /\ answer' = <<>>
  BY DEF Begin
<1>3. Whole(prog', todo')
  BY <1>1, <1>2, ScriptIsWhole
<1>4. Refuses(prog') => todo' = <<>>
  BY <1>2 DEF Refuses, Script, OneShotProgram
<1>5. \A j \in DOMAIN queue' : queue'[j].call # calls'
  <2>1. ASSUME NEW j \in DOMAIN queue PROVE queue[j].call # calls + 1
    <3>1. queue[j].call = calls \/ queue[j].call \in 0 .. calls
      BY DEF IInv, Earlier, TypeOK, OfNow
    <3>2. calls \in Nat
      BY DEF IInv, TypeOK
    <3> QED
      BY <3>1, <3>2
  <2> QED
    BY <1>2, <2>1
<1>6. Planned(prog', todo') /\ Underway'
  BY <1>3 DEF Whole, Underway, Ahead
<1>7. AnswerIsReference'
  BY <1>2, NoneIs DEF AnswerIsReference
<1> QED
  BY <1>4, <1>5, <1>6, <1>7, NextIs DEF AnswerNext

\* A failed program only gives back.
LEMMA CallFailsAnswers ==
  ASSUME IInv', AnswerInv, CallFails
  PROVE  AnswerInv'
<1>1. UNCHANGED <<calls, prog, queue, answer>> /\ failed' = failed \cup {calls} /\ todo # <<>>
  BY DEF CallFails, CanFail, Does
<1>2. \A i \in DOMAIN todo' : todo'[i].do = "free"
  BY <1>1 DEF IInv, DropsDevice
<1>3. Planned(prog', todo') /\ Underway'
  BY <1>2 DEF Planned, Queues, Underway
<1>4. ~Refuses(prog')
  BY <1>1 DEF AnswerInv
<1> QED
  BY <1>1, <1>3, <1>4, KeepsAnswer, NextIs DEF AnswerNext

\* A handle that is run again has all of its runs ahead, whatever is queued.
LEMMA RetryAnswers ==
  ASSUME TypeOK, AnswerInv, Retry
  PROVE  AnswerInv'
<1>1. /\ UNCHANGED <<calls, prog, queue, answer>> /\ prog.kind = "matmul"
      /\ \E k : todo' = MatmulFrom(prog, k)
  BY DEF Retry
<1>2. Whole(prog, todo')
  BY <1>1, ProgramsOperate, MatmulFromIsWhole DEF TypeOK
<1>3. Planned(prog', todo') /\ Underway' /\ ~Refuses(prog')
  BY <1>1, <1>2 DEF Whole, Underway, Ahead, Refuses
<1> QED
  BY <1>1, <1>3, KeepsAnswer, NextIs DEF AnswerNext

LEMMA InitAnswers ==
  ASSUME Init
  PROVE  AnswerInv
BY NoneIs DEF Init, AnswerInv, Planned, AnswerIsReference

\* Nothing of a run.
LEMMA IdleAnswers ==
  ASSUME AnswerInv, UNCHANGED <<calls, prog, todo, mem, queue, raced, answer>>
  PROVE  AnswerInv'
<1>1. ASSUME NEW i \in DOMAIN todo, todo[i].do = "read", ~Ahead(prog, todo, i),
             NEW op, op = prog.ops[todo[i].k], NEW k, k = todo[i].k
      PROVE  OnItsWay(op, k, i)'
  <2>1. OnItsWay(op, k, i)
    BY <1>1 DEF AnswerInv
  <2> QED
    BY <2>1, SameWay
<1>2. Underway'
  <2>1. \A i \in DOMAIN todo : todo[i].do = "read" /\ ~Ahead(prog, todo, i) =>
          \A op, k : op = prog.ops[todo[i].k] /\ k = todo[i].k => OnItsWay(op, k, i)'
    BY <1>1
  <2> QED
    BY <2>1 DEF Underway
<1>3. Planned(prog', todo') /\ (Refuses(prog') => todo' = <<>>)
  BY DEF AnswerInv
<1> QED
  BY <1>2, <1>3, KeepsAnswer, NextIs DEF AnswerNext

\* Every read ends a run whose data is staged, in the card or queued for it,
\* and then computed and on its way back: what is read is the reference's,
\* whatever failed before and was run again, for any programs whose graphs
\* compute their references.
THEOREM AnswersAreReference ==
  ASSUME OperationsCompute
  PROVE  Spec => []AnswerIsReference
<1>1. ASSUME IInv, IInv', AnswerInv, [Next]_vars PROVE AnswerInv'
  <2> USE <1>1 DEF IInv
  <2>1. CASE Begin
    BY <2>1, BeginAnswers
  <2>2. CASE Make
    BY <2>2, MakeAnswers
  <2>3. CASE AcquireCard
    BY <2>3, BetweenRuns DEF AcquireCard
  <2>4. CASE Malloc
    BY <2>4, BetweenRuns DEF Malloc
  <2>5. CASE Workspace
    BY <2>5, BetweenRuns DEF Workspace
  <2>6. CASE Fill
    BY <2>6, FillAnswers
  <2>7. CASE Enqueue
    BY <2>7, EnqueueAnswers
  <2>8. CASE Synchronize
    BY <2>8, SynchronizeAnswers
  <2>9. CASE ReadBack
    BY <2>9, ReadBackAnswers
  <2>10. CASE Free
    BY <2>10, BetweenRuns DEF Free
  <2>11. CASE CallFails
    BY <2>11, CallFailsAnswers
  <2>12. CASE Retry
    BY <2>12, RetryAnswers
  <2>13. CASE DeviceWorks
    BY <2>13, DeviceWorksAnswers
  <2>14. CASE Settle \/ UNCHANGED vars
    BY <2>14, IdleAnswers DEF Settle, vars
  <2> QED
    BY <2>1, <2>2, <2>3, <2>4, <2>5, <2>6, <2>7, <2>8, <2>9, <2>10, <2>11, <2>12, <2>13, <2>14
       DEF Next, Finished
<1>2. AnswerInv => AnswerIsReference
  BY DEF AnswerInv
<1> QED
  BY <1>1, <1>2, InitAnswers, Invariant, PTL DEF Spec

-----------------------------------------------------------------------------
(* The nodes of a launch, in any order.                                    *)

\* Of a function over 1 .. n, the sequence.
LEMMA PadIs ==
  ASSUME NEW f, NEW n \in Nat, DOMAIN f = 1 .. n, f = [i \in 1 .. n |-> f[i]]
  PROVE  f \o <<>> = f
<1> DEFINE X == {f[i] : i \in 1 .. n}
<1>1. f \in [1 .. n -> X]
  OBVIOUS
<1> HIDE DEF X
<1>2. f \in Seq(X)
  BY <1>1
<1> QED
  BY <1>2

\* w collects the elements v one by one.
Collects(w, n, v) == w[0] = <<>> /\ \A k \in 1 .. n : w[k] = Append(w[k - 1], v[k])

LEMMA CollectedIs ==
  ASSUME NEW n \in Nat, NEW w, NEW v, Collects(w, n, v)
  PROVE  \A k \in 0 .. n : /\ IsSeq(w[k]) /\ Len(w[k]) = k /\ DOMAIN w[k] = 1 .. k
                           /\ \A d \in 1 .. k : w[k][d] = v[d]
<1> DEFINE T == {k \in Nat : k <= n => /\ IsSeq(w[k]) /\ Len(w[k]) = k
                                       /\ \A d \in 1 .. k : w[k][d] = v[d]}
<1>1. 0 \in T
  BY NoneIs DEF Collects
<1>2. ASSUME NEW k \in Nat, k \in T PROVE k + 1 \in T
  <2>1. SUFFICES ASSUME k + 1 <= n
                 PROVE  /\ IsSeq(w[k + 1]) /\ Len(w[k + 1]) = k + 1
                        /\ \A d \in 1 .. (k + 1) : w[k + 1][d] = v[d]
    OBVIOUS
  <2>2. k + 1 \in 1 .. n /\ (k + 1) - 1 = k /\ k <= n
    BY <2>1
  <2> DEFINE s == w[k]
             t == w[k + 1]
  <2>3. t = Append(s, v[k + 1])
    BY <2>2 DEF Collects
  <2>4. IsSeq(s) /\ Len(s) = k /\ \A d \in 1 .. k : s[d] = v[d]
    BY <1>2, <2>2
  <2> HIDE DEF s, t
  <2>5. /\ IsSeq(t) /\ Len(t) = k + 1
        /\ \A i \in 1 .. k : t[i] = s[i]
        /\ t[k + 1] = v[k + 1]
    BY <2>3, <2>4, AppendGives
  <2>6. \A d \in 1 .. (k + 1) : t[d] = v[d]
    <3>1. \A d \in 1 .. (k + 1) : d \in 1 .. k \/ d = k + 1
      OBVIOUS
    <3> QED
      BY <2>4, <2>5, <3>1
  <2> QED
    BY <2>5, <2>6 DEF t
<1> HIDE DEF T
<1>3. Nat \subseteq T
  BY <1>1, <1>2, Numbers!Induction
<1>4. ASSUME NEW k \in 0 .. n
      PROVE  IsSeq(w[k]) /\ Len(w[k]) = k /\ \A d \in 1 .. k : w[k][d] = v[d]
  BY <1>3 DEF T
<1> QED
  BY <1>4, SeqIs

\* A set of numbers has a last one.
LEMMA LastIs ==
  ASSUME NEW n \in Nat, NEW S, S \subseteq 1 .. n
  PROVE  /\ S = {} => LastOf(S) = 0
         /\ S # {} => LastOf(S) \in S /\ \A o \in S : o <= LastOf(S)
<1> DEFINE T == {m \in Nat : \A R : R \subseteq 1 .. m /\ R # {} => \E d \in R : \A o \in R : o <= d}
<1>1. 0 \in T
  OBVIOUS
<1>2. ASSUME NEW m \in Nat, m \in T PROVE m + 1 \in T
  <2>1. ASSUME NEW R, R \subseteq 1 .. (m + 1), R # {} PROVE \E d \in R : \A o \in R : o <= d
    <3>1. CASE m + 1 \in R
      BY <2>1, <3>1
    <3>2. CASE m + 1 \notin R
      <4>1. R \subseteq 1 .. m
        BY <2>1, <3>2
      <4> QED
        BY <1>2, <2>1, <4>1
    <3> QED
      BY <3>1, <3>2
  <2> QED
    BY <2>1
<1> HIDE DEF T
<1>3. Nat \subseteq T
  BY <1>1, <1>2, Numbers!Induction
<1>4. S # {} => \E d \in S : \A o \in S : o <= d
  BY <1>3 DEF T
<1> QED
  BY <1>4 DEF LastOf

\* The recursions have solutions, table by table.
BehindTable(nodes, n, t) ==
  t = [k \in 0 .. n |-> IF k = 0 THEN <<>>
                        ELSE Append(t[k - 1], Flow(nodes, k) \cup
                                                UNION {t[k - 1][d] : d \in Flow(nodes, k)})]

LEMMA BehindTables ==
  ASSUME NEW nodes
  PROVE  \A n \in Nat : \E t : BehindTable(nodes, n, t)
<1> DEFINE T == {n \in Nat : \E t : BehindTable(nodes, n, t)}
           next(t, k) == Append(t[k - 1], Flow(nodes, k) \cup
                                            UNION {t[k - 1][d] : d \in Flow(nodes, k)})
<1>1. 0 \in T
  <2>1. BehindTable(nodes, 0, [k \in 0 .. 0 |-> <<>>])
    BY DEF BehindTable
  <2> QED
    BY <2>1
<1>2. ASSUME NEW n \in Nat, n \in T PROVE n + 1 \in T
  <2>1. PICK t : BehindTable(nodes, n, t)
    BY <1>2
  <2> DEFINE last == Append(t[n], Flow(nodes, n + 1) \cup
                                    UNION {t[n][d] : d \in Flow(nodes, n + 1)})
             u == [k \in 0 .. n + 1 |-> IF k = n + 1 THEN last ELSE t[k]]
  <2>2. ASSUME NEW k \in 0 .. n PROVE t[k] = IF k = 0 THEN <<>> ELSE next(t, k)
    BY <2>1 DEF BehindTable
  <2>3. ASSUME NEW k \in 0 .. n PROVE u[k] = t[k]
    OBVIOUS
  <2>4. u[n + 1] = last /\ u = [k \in 0 .. n + 1 |-> u[k]]
    OBVIOUS
  <2> HIDE DEF u
  <2>5. ASSUME NEW k \in 0 .. n + 1 PROVE u[k] = IF k = 0 THEN <<>> ELSE next(u, k)
    <3>1. CASE k \in 0 .. n
      <4>1. k # 0 => k - 1 \in 0 .. n
        BY <3>1
      <4>2. u[k] = t[k] /\ (k # 0 => u[k - 1] = t[k - 1])
        BY <2>3, <3>1, <4>1
      <4> QED
        BY <2>2, <3>1, <4>2
    <3>2. CASE k = n + 1
      <4>1. k - 1 = n /\ k # 0 /\ u[k - 1] = t[n]
        BY <2>3, <3>2
      <4> QED
        BY <2>4, <3>2, <4>1
    <3> QED
      BY <3>1, <3>2
  <2>6. BehindTable(nodes, n + 1, u)
    BY <2>4, <2>5, Zenon DEF BehindTable
  <2> QED
    BY <2>6
<1> HIDE DEF T
<1>3. Nat \subseteq T
  BY <1>1, <1>2, Numbers!Induction
<1> QED
  BY <1>3 DEF T

\* What is behind a node: its flow, and what is behind that.
LEMMA BehindIs ==
  ASSUME NEW nodes, IsSeq(nodes), NEW k \in DOMAIN nodes
  PROVE  Behind(nodes)[k] = Flow(nodes, k) \cup UNION {Behind(nodes)[d] : d \in Flow(nodes, k)}
<1> DEFINE n == Len(nodes)
           w == CHOOSE t : BehindTable(nodes, n, t)
           v == [i \in 1 .. n |-> Flow(nodes, i) \cup UNION {w[i - 1][d] : d \in Flow(nodes, i)}]
<1>1. n \in Nat /\ k \in 1 .. n
  BY SeqIs
<1>2. BehindTable(nodes, n, w)
  BY <1>1, BehindTables
<1>3. Behind(nodes) = w[n]
  BY DEF Behind, Stepped, BehindTable
<1> HIDE DEF w
<1>4. /\ w[0] = <<>>
      /\ \A i \in 1 .. n : w[i] = Append(w[i - 1], Flow(nodes, i) \cup
                                                     UNION {w[i - 1][d] : d \in Flow(nodes, i)})
  <2> DEFINE next(i) == Append(w[i - 1], Flow(nodes, i) \cup
                                           UNION {w[i - 1][d] : d \in Flow(nodes, i)})
  <2>1. ASSUME NEW i \in 0 .. n PROVE w[i] = IF i = 0 THEN <<>> ELSE next(i)
    BY <1>2 DEF BehindTable
  <2> HIDE DEF next
  <2>2. w[0] = <<>> /\ \A i \in 1 .. n : w[i] = next(i)
    BY <1>1, <2>1
  <2> QED
    BY <2>2 DEF next
<1>5. Collects(w, n, v)
  BY <1>4 DEF Collects
<1>6. \A i \in 1 .. n : v[i] = Flow(nodes, i) \cup UNION {w[i - 1][d] : d \in Flow(nodes, i)}
  OBVIOUS
<1> HIDE DEF v
<1>7. \A i \in 0 .. n : \A d \in 1 .. i : w[i][d] = v[d]
  BY <1>1, <1>5, CollectedIs
<1> HIDE DEF n
<1>8. /\ w[n][k] = v[k] /\ k - 1 \in 0 .. n
      /\ \A d \in Flow(nodes, k) : d \in 1 .. (k - 1) /\ d \in 1 .. n
  BY <1>1, <1>7 DEF Flow
<1>9. \A d \in Flow(nodes, k) : w[k - 1][d] = w[n][d]
  BY <1>1, <1>7, <1>8
<1>10. UNION {w[k - 1][d] : d \in Flow(nodes, k)} = UNION {w[n][d] : d \in Flow(nodes, k)}
  BY <1>9
<1> QED
  <2> DEFINE A == UNION {w[k - 1][d] : d \in Flow(nodes, k)}
             B == UNION {w[n][d] : d \in Flow(nodes, k)}
             C == UNION {Behind(nodes)[d] : d \in Flow(nodes, k)}
  <2>1. v[k] = Flow(nodes, k) \cup A
    BY <1>1, <1>6
  <2>2. B = C
    BY <1>3
  <2>3. Behind(nodes)[k] = v[k]
    BY <1>3, <1>8
  <2>4. A = B
    BY <1>10
  <2> HIDE DEF A, B, C
  <2>5. Behind(nodes)[k] = Flow(nodes, k) \cup C
    BY <2>1, <2>2, <2>3, <2>4
  <2> QED
    BY <2>5 DEF C

ResultsTable(nodes, outs, mem0, bind, n, t) ==
  t = [k \in 0 .. n |-> IF k = 0 THEN <<>>
                        ELSE NodeRun(nodes[k], k, outs, mem0, bind, t[k - 1])]

LEMMA ResultsTables ==
  ASSUME NEW nodes, NEW outs, NEW mem0, NEW bind
  PROVE  \A n \in Nat : \E t : ResultsTable(nodes, outs, mem0, bind, n, t)
<1> DEFINE T == {n \in Nat : \E t : ResultsTable(nodes, outs, mem0, bind, n, t)}
           next(t, k) == NodeRun(nodes[k], k, outs, mem0, bind, t[k - 1])
<1>1. 0 \in T
  <2>1. ResultsTable(nodes, outs, mem0, bind, 0, [k \in 0 .. 0 |-> <<>>])
    BY DEF ResultsTable
  <2> QED
    BY <2>1
<1>2. ASSUME NEW n \in Nat, n \in T PROVE n + 1 \in T
  <2>1. PICK t : ResultsTable(nodes, outs, mem0, bind, n, t)
    BY <1>2
  <2> DEFINE last == NodeRun(nodes[n + 1], n + 1, outs, mem0, bind, t[n])
             u == [k \in 0 .. n + 1 |-> IF k = n + 1 THEN last ELSE t[k]]
  <2>2. ASSUME NEW k \in 0 .. n PROVE t[k] = IF k = 0 THEN <<>> ELSE next(t, k)
    BY <2>1 DEF ResultsTable
  <2>3. ASSUME NEW k \in 0 .. n PROVE u[k] = t[k]
    OBVIOUS
  <2>4. u[n + 1] = last /\ u = [k \in 0 .. n + 1 |-> u[k]]
    OBVIOUS
  <2> HIDE DEF u
  <2>5. ASSUME NEW k \in 0 .. n + 1 PROVE u[k] = IF k = 0 THEN <<>> ELSE next(u, k)
    <3>1. CASE k \in 0 .. n
      <4>1. k # 0 => k - 1 \in 0 .. n
        BY <3>1
      <4>2. u[k] = t[k] /\ (k # 0 => u[k - 1] = t[k - 1])
        BY <2>3, <3>1, <4>1
      <4> QED
        BY <2>2, <3>1, <4>2
    <3>2. CASE k = n + 1
      <4>1. k - 1 = n /\ k # 0 /\ u[k - 1] = t[n]
        BY <2>3, <3>2
      <4> QED
        BY <2>4, <3>2, <4>1
    <3> QED
      BY <3>1, <3>2
  <2>6. ResultsTable(nodes, outs, mem0, bind, n + 1, u)
    BY <2>4, <2>5, Zenon DEF ResultsTable
  <2> QED
    BY <2>6
<1> HIDE DEF T
<1>3. Nat \subseteq T
  BY <1>1, <1>2, Numbers!Induction
<1> QED
  BY <1>3 DEF T

\* What a node computes in creation order, from what its operands' last writers
\* before it computed.
LEMMA ResultsAre ==
  ASSUME NEW nodes, IsSeq(nodes), NEW outs, NEW mem0, NEW bind, NEW k \in DOMAIN nodes,
         NEW all, all = Results(nodes, outs, mem0, bind)
  PROVE  all[k] = Outputs(nodes[k], [j \in DOMAIN nodes[k].in |->
                            Found(outs, mem0, Place(bind, nodes[k].in[j]), k, all)] \o <<>>)
<1> DEFINE n == Len(nodes)
           w == CHOOSE t : ResultsTable(nodes, outs, mem0, bind, n, t)
           args(i, t) == [j \in DOMAIN nodes[i].in |->
                            Found(outs, mem0, Place(bind, nodes[i].in[j]), i, t)]
           v == [i \in 1 .. n |-> Outputs(nodes[i], args(i, w[i - 1]) \o <<>>)]
<1>1. n \in Nat /\ k \in 1 .. n
  BY SeqIs
<1>2. ResultsTable(nodes, outs, mem0, bind, n, w)
  BY <1>1, ResultsTables
<1>3. all = w[n]
  BY DEF Results, Stepped, ResultsTable
<1> HIDE DEF w
<1>4. /\ w[0] = <<>>
      /\ \A i \in 1 .. n : w[i] = NodeRun(nodes[i], i, outs, mem0, bind, w[i - 1])
  BY <1>1, <1>2 DEF ResultsTable
<1>5. \A i \in 1 .. n : w[i] = Append(w[i - 1], v[i])
  BY <1>4 DEF NodeRun
<1>6. v[k] = Outputs(nodes[k], args(k, w[k - 1]) \o <<>>)
  BY <1>1
<1> HIDE DEF v
<1>7. Collects(w, n, v)
  BY <1>4, <1>5 DEF Collects
<1>8. \A i \in 0 .. n : \A d \in 1 .. i : w[i][d] = v[d]
  BY <1>1, <1>7, CollectedIs
<1> HIDE DEF n
<1>9. w[n][k] = v[k] /\ k - 1 \in 0 .. n /\ \A d \in 1 .. (k - 1) : w[k - 1][d] = w[n][d]
  BY <1>1, <1>8
<1>10. ASSUME NEW p PROVE Found(outs, mem0, p, k, w[k - 1]) = Found(outs, mem0, p, k, w[n])
  <2> DEFINE S == {d \in 1 .. (k - 1) : \E j \in DOMAIN outs[d] : outs[d][j] = p}
             d == LastOf(S)
  <2>1. Writer(outs, p, k) = d
    BY DEF Writer
  <2>2. d = 0 \/ d \in 1 .. (k - 1)
    <3>1. S \subseteq 1 .. (k - 1) /\ k - 1 \in Nat
      BY <1>1
    <3> HIDE DEF S
    <3> QED
      BY <3>1, LastIs
  <2> HIDE DEF d
  <2> QED
    BY <1>9, <2>1, <2>2 DEF Found, Left
<1>11. args(k, w[k - 1]) = args(k, w[n])
  BY <1>10
<1> QED
  BY <1>3, <1>6, <1>9, <1>11

\* The places every node writes.
LEMMA WrittenIs ==
  ASSUME NEW nodes, IsSeq(nodes), \A k \in DOMAIN nodes : IsSeq(nodes[k].out), NEW bind
  PROVE  /\ DOMAIN Written(nodes, bind) = DOMAIN nodes
         /\ \A k \in DOMAIN nodes :
              /\ DOMAIN Written(nodes, bind)[k] = DOMAIN nodes[k].out
              /\ \A j \in DOMAIN nodes[k].out : Written(nodes, bind)[k][j] = Place(bind, nodes[k].out[j])
<1> DEFINE n == Len(nodes)
           g(k) == [j \in DOMAIN nodes[k].out |-> Place(bind, nodes[k].out[j])]
           f == [k \in DOMAIN nodes |-> g(k) \o <<>>]
<1>1. n \in Nat /\ DOMAIN nodes = 1 .. n
  BY SeqIs
<1>2. ASSUME NEW k \in DOMAIN nodes PROVE g(k) \o <<>> = g(k)
  <2> DEFINE m == Len(nodes[k].out)
             h == g(k)
  <2>1. m \in Nat /\ DOMAIN nodes[k].out = 1 .. m
    BY SeqIs
  <2>2. DOMAIN h = 1 .. m /\ h = [i \in 1 .. m |-> h[i]]
    BY <2>1
  <2> HIDE DEF h, m
  <2>3. h \o <<>> = h
    BY <2>1, <2>2, PadIs
  <2> QED
    BY <2>3 DEF h
<1>3. Written(nodes, bind) = f \o <<>>
  BY DEF Written
<1>4. DOMAIN f = 1 .. n /\ f = [k \in 1 .. n |-> f[k]] /\ \A k \in DOMAIN nodes : f[k] = g(k)
  BY <1>1, <1>2
<1> HIDE DEF f, n
<1>5. f \o <<>> = f
  BY <1>1, <1>4, PadIs
<1>6. \A k \in DOMAIN nodes : /\ DOMAIN g(k) = DOMAIN nodes[k].out
                              /\ \A j \in DOMAIN nodes[k].out : g(k)[j] = Place(bind, nodes[k].out[j])
  OBVIOUS
<1> HIDE DEF g
<1> QED
  BY <1>1, <1>3, <1>4, <1>5, <1>6

\* The recipe is well formed.
Recipe(nodes) ==
  /\ IsSeq(nodes)
  /\ \A k \in DOMAIN nodes : IsSeq(nodes[k].in) /\ IsSeq(nodes[k].out)

\* Two nodes that touch a place do not pass each other.
LEMMA NoneOvertakes ==
  ASSUME Recipe(Nodes), Ordered(Nodes, Bind), done \subseteq DOMAIN Nodes,
         \A k \in done : Behind(Nodes)[k] \subseteq done,
         NEW k \in DOMAIN Nodes \ done, Flow(Nodes, k) \subseteq done,
         NEW d \in DOMAIN Nodes, d # k, Clash(Nodes[d], Nodes[k], Bind) \/ Clash(Nodes[k], Nodes[d], Bind)
  PROVE  (d \in done <=> d < k)
<1>1. Behind(Nodes)[k] \subseteq done
  <2>1. Flow(Nodes, k) \subseteq DOMAIN Nodes
    OBVIOUS
  <2> QED
    BY <2>1, BehindIs DEF Recipe
<1>2. k \in Nat /\ d \in Nat /\ DOMAIN Nodes = 1 .. Len(Nodes) /\ Len(Nodes) \in Nat
  BY SeqIs DEF Recipe
<1>3. Clash(Nodes[d], Nodes[k], Bind) /\ Clash(Nodes[k], Nodes[d], Bind)
  BY DEF Clash
<1>4. \A a, b \in DOMAIN Nodes : a < b /\ Clash(Nodes[a], Nodes[b], Bind) => a \in Behind(Nodes)[b]
  BY <1>2 DEF Ordered
<1>5. d < k => d \in done
  BY <1>1, <1>3, <1>4
<1>6. k < d => d \notin done
  BY <1>3, <1>4
<1> QED
  BY <1>2, <1>5, <1>6

\* The writers of a place of k's that have run are those before k.
LEMMA WritersOf ==
  ASSUME Recipe(Nodes), Ordered(Nodes, Bind), done \subseteq DOMAIN Nodes,
         \A k \in done : Behind(Nodes)[k] \subseteq done,
         NEW k \in DOMAIN Nodes \ done, Flow(Nodes, k) \subseteq done,
         NEW place, place \in Touches(Nodes[k].in, Bind) \/ place \in Touches(Nodes[k].out, Bind)
  PROVE  Writers(place, done) = Writers(place, 1 .. (k - 1))
<1>1. k \in 1 .. Len(Nodes) /\ DOMAIN Nodes = 1 .. Len(Nodes) /\ Len(Nodes) \in Nat
  BY SeqIs DEF Recipe
<1>2. ASSUME NEW d \in DOMAIN Nodes, d # k, place \in Touches(Nodes[d].out, Bind)
      PROVE  d \in done <=> d < k
  <2>1. Clash(Nodes[d], Nodes[k], Bind)
    BY <1>2 DEF Clash
  <2> QED
    BY <1>2, <2>1, NoneOvertakes
<1>3. \A d \in done : d \in DOMAIN Nodes /\ d # k
  OBVIOUS
<1>4. \A d \in 1 .. (k - 1) : d \in DOMAIN Nodes /\ d # k /\ d < k
  BY <1>1
<1>5. \A d \in DOMAIN Nodes : d < k => d \in 1 .. (k - 1)
  BY <1>1
<1> QED
  BY <1>2, <1>3, <1>4, <1>5 DEF Writers

\* The places a node writes, as Written has them.
LEMMA TouchesIs ==
  ASSUME Recipe(Nodes), NEW d \in DOMAIN Nodes, NEW outs, outs = Written(Nodes, Bind)
  PROVE  /\ Touches(Nodes[d].out, Bind) = {outs[d][j] : j \in DOMAIN outs[d]}
         /\ \A place : place \in Touches(Nodes[d].out, Bind) <=>
                         \E j \in DOMAIN outs[d] : outs[d][j] = place
<1>1. /\ DOMAIN outs[d] = DOMAIN Nodes[d].out
      /\ \A j \in DOMAIN Nodes[d].out : outs[d][j] = Place(Bind, Nodes[d].out[j])
  BY WrittenIs DEF Recipe
<1> QED
  BY <1>1 DEF Touches

\* What the last writers before k left.
LEMMA FoundIs ==
  ASSUME Recipe(Nodes), NEW k \in Nat, k - 1 <= Len(Nodes), NEW outs, outs = Written(Nodes, Bind),
         NEW place, NEW all
  PROVE  Found(outs, Start, place, k, all) =
             Left(outs, Start, place, LastOf(Writers(place, 1 .. (k - 1))), all)
<1> DEFINE S == {d \in 1 .. (k - 1) : \E j \in DOMAIN outs[d] : outs[d][j] = place}
<1>1. \A d \in 1 .. (k - 1) : d \in DOMAIN Nodes
  BY SeqIs DEF Recipe
<1>2. S = Writers(place, 1 .. (k - 1))
  <2>1. \A d \in 1 .. (k - 1) :
          place \in Touches(Nodes[d].out, Bind) <=> \E j \in DOMAIN outs[d] : outs[d][j] = place
    BY <1>1, TouchesIs
  <2>2. Writers(place, 1 .. (k - 1)) = {d \in 1 .. (k - 1) : place \in Touches(Nodes[d].out, Bind)}
    BY DEF Writers
  <2> QED
    BY <2>1, <2>2
<1>3. Writer(outs, place, k) = LastOf(S)
  BY DEF Writer
<1> HIDE DEF S
<1> QED
  BY <1>2, <1>3 DEF Found

\* A node that runs finds, and leaves, what it does in creation order.
LEMMA OutcomeIs ==
  ASSUME Recipe(Nodes), Ordered(Nodes, Bind), Fed, LaunchInv,
         NEW k \in DOMAIN Nodes \ done, Flow(Nodes, k) \subseteq done,
         NEW outs, outs = Written(Nodes, Bind),
         NEW all, all = Results(Nodes, outs, Start, Bind),
         NEW place
  PROVE  Outcome(k, place) = Left(outs, Start, place, k, all)
<1> DEFINE args == [j \in DOMAIN Nodes[k].in |-> memory[Place(Bind, Nodes[k].in[j])]]
           found == [j \in DOMAIN Nodes[k].in |->
                        Found(outs, Start, Place(Bind, Nodes[k].in[j]), k, all)]
<1>1. /\ done \subseteq DOMAIN Nodes
      /\ \A d \in done : Behind(Nodes)[d] \subseteq done
      /\ DOMAIN memory = DOMAIN Start \cup UNION {Touches(Nodes[d].out, Bind) : d \in done}
      /\ \A p \in DOMAIN memory :
            memory[p] = Left(outs, Start, p, LastOf(Writers(p, done)), all)
  BY DEF LaunchInv
<1>2. k \in 1 .. Len(Nodes) /\ Len(Nodes) \in Nat /\ k \in Nat /\ k - 1 <= Len(Nodes) /\ k # 0
  BY SeqIs DEF Recipe
<1>3. ASSUME NEW j \in DOMAIN Nodes[k].in, NEW p, p = Place(Bind, Nodes[k].in[j])
      PROVE  memory[p] = Found(outs, Start, p, k, all)
  <2>1. p \in Touches(Nodes[k].in, Bind)
    BY <1>3 DEF Touches
  <2>2. Writers(p, done) = Writers(p, 1 .. (k - 1))
    BY <1>1, <2>1, WritersOf
  <2>3. p \in DOMAIN Start \/ \E d \in 1 .. (k - 1) : p \in Touches(Nodes[d].out, Bind)
    BY <2>1 DEF Fed
  <2>4. p \in DOMAIN Start \/ \E d \in done : p \in Touches(Nodes[d].out, Bind)
    BY <2>2, <2>3 DEF Writers
  <2>5. p \in DOMAIN memory
    BY <1>1, <2>4
  <2>6. Found(outs, Start, p, k, all) = Left(outs, Start, p, LastOf(Writers(p, 1 .. (k - 1))), all)
    BY <1>2, FoundIs
  <2> QED
    BY <1>1, <2>2, <2>5, <2>6
<1>4. args = found
  BY <1>3
<1>5. all[k] = Outputs(Nodes[k], found \o <<>>)
  BY ResultsAre DEF Recipe
<1>6. Outcome(k, place) =
        Outputs(Nodes[k], args \o <<>>)[CHOOSE j \in DOMAIN outs[k] : outs[k][j] = place]
  BY DEF Outcome
<1> HIDE DEF args, found
<1>7. Left(outs, Start, place, k, all) = all[k][CHOOSE j \in DOMAIN outs[k] : outs[k][j] = place]
  BY <1>2 DEF Left
<1> QED
  BY <1>4, <1>5, <1>6, <1>7

LEMMA NodeRunsKeeps ==
  ASSUME Recipe(Nodes), Ordered(Nodes, Bind), Fed, LaunchInv, NodeRuns
  PROVE  LaunchInv'
<1> DEFINE outs == Written(Nodes, Bind)
           all == Results(Nodes, outs, Start, Bind)
<1>1. PICK k \in DOMAIN Nodes \ done :
        /\ Flow(Nodes, k) \subseteq done
        /\ done' = done \cup {k}
        /\ memory' = [place \in DOMAIN memory \cup Touches(Nodes[k].out, Bind) |->
                         IF place \in Touches(Nodes[k].out, Bind) THEN Outcome(k, place)
                         ELSE memory[place]]
  BY DEF NodeRuns
<1> DEFINE to == Touches(Nodes[k].out, Bind)
           reach(S) == DOMAIN Start \cup UNION {Touches(Nodes[d].out, Bind) : d \in S}
           left(p, S) == Left(outs, Start, p, LastOf(Writers(p, S)), all)
<1>2. /\ done \subseteq DOMAIN Nodes
      /\ \A d \in done : Behind(Nodes)[d] \subseteq done
      /\ memory = [p \in reach(done) |-> left(p, done)]
  BY DEF LaunchInv
<1>3. \A p : Outcome(k, p) = Left(outs, Start, p, k, all)
  BY <1>1, OutcomeIs
<1>4. k \in 1 .. Len(Nodes) /\ DOMAIN Nodes = 1 .. Len(Nodes) /\ Len(Nodes) \in Nat
  BY SeqIs DEF Recipe
<1>5. ASSUME NEW p \in to PROVE left(p, done') = Outcome(k, p)
  <2> DEFINE S == Writers(p, done')
  <2>1. Writers(p, done) = Writers(p, 1 .. (k - 1))
    BY <1>1, <1>2, <1>5, WritersOf
  <2>2. S = Writers(p, done) \cup {k}
    BY <1>1, <1>5 DEF Writers
  <2>3. k \in S /\ \A d \in S : d \in 1 .. k
    BY <1>4, <2>1, <2>2 DEF Writers
  <2>4. S \subseteq 1 .. Len(Nodes) /\ S # {}
    BY <1>4, <2>3
  <2> HIDE DEF S
  <2>5. LastOf(S) \in S /\ k <= LastOf(S)
    BY <1>4, <2>3, <2>4, LastIs
  <2>6. LastOf(S) = k
    BY <1>4, <2>3, <2>5
  <2> QED
    BY <1>3, <2>6 DEF S
<1>6. ASSUME NEW p \in reach(done), p \notin to PROVE left(p, done') = memory[p]
  <2>1. Writers(p, done') = Writers(p, done)
    BY <1>1, <1>6 DEF Writers
  <2>2. memory[p] = left(p, done)
    BY <1>2, <1>6
  <2> QED
    BY <2>1, <2>2
<1>7. reach(done') = reach(done) \cup to /\ DOMAIN memory = reach(done)
  BY <1>1, <1>2
<1>8. \A d \in done' : Behind(Nodes)[d] \subseteq done'
  <2>1. Behind(Nodes)[k] = Flow(Nodes, k) \cup UNION {Behind(Nodes)[d] : d \in Flow(Nodes, k)}
    BY BehindIs DEF Recipe
  <2> QED
    BY <1>1, <1>2, <2>1
<1>9. done' \subseteq DOMAIN Nodes
  BY <1>1, <1>2
<1>10. memory' = [p \in reach(done) \cup to |-> IF p \in to THEN Outcome(k, p) ELSE memory[p]]
  BY <1>1, <1>7
<1> HIDE DEF left, reach, to
<1>11. memory' = [p \in reach(done') |-> left(p, done')]
  BY <1>5, <1>6, <1>7, <1>10
<1> QED
  BY <1>8, <1>9, <1>11 DEF LaunchInv, left, reach

LEMMA LaunchEnds ==
  ASSUME Recipe(Nodes), LaunchInv
  PROVE  AsInCreationOrder
<1> SUFFICES ASSUME done = DOMAIN Nodes PROVE memory = Ran(Nodes, Start, Bind)
  BY DEF AsInCreationOrder
<1> DEFINE n == Len(Nodes)
           outs == Written(Nodes, Bind)
           all == Results(Nodes, outs, Start, Bind)
           left(p) == Left(outs, Start, p, LastOf(Writers(p, DOMAIN Nodes)), all)
<1>1. n \in Nat /\ n + 1 \in Nat /\ (n + 1) - 1 = n /\ DOMAIN Nodes = 1 .. n /\ DOMAIN outs = DOMAIN Nodes
  BY SeqIs, WrittenIs DEF Recipe
<1>2. memory = [p \in DOMAIN Start \cup UNION {Touches(Nodes[k].out, Bind) : k \in DOMAIN Nodes} |->
                  left(p)]
  BY DEF LaunchInv
<1>3. Ran(Nodes, Start, Bind) =
        [p \in DOMAIN Start \cup UNION {{outs[k][j] : j \in DOMAIN outs[k]} : k \in DOMAIN outs} |->
            Found(outs, Start, p, n + 1, all)]
  BY DEF Ran, RanOver, AfterAll
<1>4. \A p : Found(outs, Start, p, n + 1, all) = left(p)
  <2>1. n + 1 - 1 <= Len(Nodes)
    BY <1>1
  <2> QED
    BY <1>1, <2>1, FoundIs
<1>5. \A k \in DOMAIN Nodes : Touches(Nodes[k].out, Bind) = {outs[k][j] : j \in DOMAIN outs[k]}
  BY TouchesIs
<1>6. UNION {{outs[k][j] : j \in DOMAIN outs[k]} : k \in DOMAIN outs}
        = UNION {Touches(Nodes[k].out, Bind) : k \in DOMAIN Nodes}
  <2> DEFINE F(k) == {outs[k][j] : j \in DOMAIN outs[k]}
             G(k) == Touches(Nodes[k].out, Bind)
  <2>1. DOMAIN outs = DOMAIN Nodes /\ \A k \in DOMAIN Nodes : F(k) = G(k)
    BY <1>1, <1>5
  <2> HIDE DEF F, G
  <2>2. UNION {F(k) : k \in DOMAIN outs} = UNION {G(k) : k \in DOMAIN Nodes}
    BY <2>1
  <2> QED
    BY <2>2 DEF F, G
<1> HIDE DEF outs, all, left
<1> QED
  BY <1>2, <1>3, <1>4, <1>6

\* Nodes that run in any order in which no node precedes one it reads from
\* leave in memory what the creation order leaves, if Ordered holds of them and
\* their places; whatever they compute.
THEOREM AnyOrderIsCreationOrder ==
  ASSUME Recipe(Nodes), Ordered(Nodes, Bind), Fed, Start = [p \in DOMAIN Start |-> Start[p]]
  PROVE  LaunchSpec => []AsInCreationOrder
<1>1. ASSUME LaunchBegins PROVE LaunchInv
  <2>1. \A p : Writers(p, {}) = {}
    BY DEF Writers
  <2>2. LastOf({}) = 0
    BY DEF LastOf
  <2>3. UNION {Touches(Nodes[k].out, Bind) : k \in {}} = {}
    OBVIOUS
  <2> DEFINE outs == Written(Nodes, Bind)
             all == Results(Nodes, outs, Start, Bind)
  <2>4. \A p : Left(outs, Start, p, LastOf(Writers(p, {})), all) = Start[p]
    BY <2>1, <2>2 DEF Left
  <2> HIDE DEF outs, all
  <2>5. Start = [p \in DOMAIN Start \cup UNION {Touches(Nodes[k].out, Bind) : k \in {}} |->
                   Left(outs, Start, p, LastOf(Writers(p, {})), all)]
    BY <2>3, <2>4
  <2> QED
    BY <1>1, <2>5 DEF LaunchBegins, LaunchInv, outs, all
<1>2. ASSUME LaunchInv, [NodeRuns]_<<done, memory>> PROVE LaunchInv'
  <2>1. CASE NodeRuns
    BY <1>2, <2>1, NodeRunsKeeps
  <2>2. CASE UNCHANGED <<done, memory>>
    BY <1>2, <2>2 DEF LaunchInv
  <2> QED
    BY <1>2, <2>1, <2>2
<1>3. LaunchInv => AsInCreationOrder
  BY LaunchEnds
<1> QED
  BY <1>1, <1>2, <1>3, PTL DEF LaunchSpec
=============================================================================
