-------------------------- MODULE RankGroupProofs ---------------------------
(***************************************************************************)
(* Proofs about the ranks of a run: RankGroup, for every number of ranks   *)
(* and attempts and every set of id lists; AbortComm, the handle of one    *)
(* rank; and, of TpRuns, that the ranks meet in the same all-reduces, for  *)
(* every job, every number of ranks and every run.                         *)
(***************************************************************************)
EXTENDS RankGroup, AbortComm, TpRuns, WellFoundedInduction, TLAPS

-----------------------------------------------------------------------------
(* Type correctness.                                                       *)

LEMMA TypeInit == Init => TypeOK
<1> SUFFICES ASSUME Init PROVE TypeOK
  OBVIOUS
<1>1. attempt \in 1 .. MaxAttempts
  BY AttemptsAssumption DEF Init
<1>2. cpc \in CoordPc /\ csig \in {0, 1} /\ timers \subseteq Timer
  BY DEF Init, CoordPc
<1>3. pc \in [Rank -> RankPc]
  BY DEF Init, RankPc
<1>4. status \in [Rank -> ExitCode \cup {"none"}] /\ code \in [Rank -> ExitCode \cup {"none"}]
  BY DEF Init
<1>5. ids \in [Rank -> Ids \cup {"none"}]
  BY DEF Init
<1>6. watch \in [Rank -> {"off", "on", "abort"}] /\ seen \in [Rank -> BOOLEAN]
  BY DEF Init
<1>7. /\ go \in BOOLEAN /\ abort \in BOOLEAN /\ idbin \in BOOLEAN /\ formed \in BOOLEAN
      /\ acquired \subseteq Rank /\ refused \subseteq Rank
      /\ wsig \subseteq Rank /\ enqueued \subseteq Rank
  BY DEF Init
<1>8. result \in {"none", "PASS", "FAIL", "error", "interrupted"} /\ dir \in {"present", "kept", "removed"}
  BY DEF Init
<1> QED
  BY <1>1, <1>2, <1>3, <1>4, <1>5, <1>6, <1>7, <1>8 DEF TypeOK

LEMMA RankStepInv ==
  ASSUME IInv, NEW r \in Rank, RankOwnStep(r) \/ InitFails(r) \/ WatchStep(r)
  PROVE  IInv'
<1> USE DEF IInv, TypeOK, RankInv, CoordInv, RankPc, ExitCode, PastBarrier, Alive,
            coordVars, fileVars, rankVars, hcclVars,
            To, Leave, Gone, PrintThenTo, AbortAndDie
<1>1. CASE Start(r) BY <1>1 DEF Start, Agree
<1>2. CASE AcquireOk(r) BY <1>2 DEF AcquireOk, Agree
<1>3. CASE AcquireFails(r) BY <1>3 DEF AcquireFails, Agree
<1>4. CASE Announce(r) BY <1>4 DEF Announce, Agree
<1>5. CASE EnterGoWait(r) BY <1>5 DEF EnterGoWait, Agree
<1>6. CASE LookForGo(r) BY <1>6 DEF LookForGo, GoSeen, Agree
<1>7. CASE NoGo(r) BY <1>7 DEF NoGo, GoWaitOver, Orphan, Agree
<1>8. CASE MakeId(r)
  <2>1. CASE To(r, "init") BY <1>8, <2>1 DEF MakeId, Agree
  <2>2. CASE Leave(r, "error") BY <1>8, <2>2 DEF MakeId, Agree
  <2> QED BY <1>8, <2>1, <2>2 DEF MakeId
<1>9. CASE EnterIdWait(r) BY <1>9 DEF EnterIdWait, Agree
<1>10. CASE LookForId(r) BY <1>10 DEF LookForId, Agree
<1>11. CASE GiveUpId(r) BY <1>11 DEF GiveUpId, Agree
<1>12. CASE LookAgain(r) BY <1>12 DEF LookAgain, Agree
<1>13. CASE InitReturns(r) BY <1>13 DEF InitReturns, Agree
<1>14. CASE InitFails(r) BY <1>14 DEF InitFails, Agree
<1>15. CASE StartWatch(r)
  <2>1. CASE Leave(r, "error") BY <1>15, <2>1 DEF StartWatch, Agree
  <2>2. CASE /\ pc' = [pc EXCEPT ![r] = "setup"]
             /\ seen' = [seen EXCEPT ![r] = Alive]
             /\ watch' = [watch EXCEPT ![r] = "on"]
             /\ UNCHANGED <<code, wsig>>
    BY <1>15, <2>2 DEF StartWatch, Agree
  <2> QED BY <1>15, <2>1, <2>2 DEF StartWatch
<1>16. CASE Setup(r) BY <1>16 DEF Setup, Agree
<1>17. CASE Enqueue(r) BY <1>17 DEF Enqueue, Agree
<1>18. ASSUME NEW v \in Ids, WriteIds(r, v) PROVE IInv' BY <1>18 DEF WriteIds, Agree
<1>19. CASE GenerateFails(r) BY <1>19 DEF GenerateFails, Agree
<1>20. CASE Check(r) BY <1>20 DEF Check, Agree
<1>21. CASE Exit(r) BY <1>21 DEF Exit, Agree
<1>22. CASE WatchFires(r) BY <1>22 DEF WatchFires, MustLeave, Orphan, Agree
<1>23. CASE WatchLeaves(r) BY <1>23 DEF WatchLeaves, Agree
<1> QED
  BY <1>1, <1>2, <1>3, <1>4, <1>5, <1>6, <1>7, <1>8, <1>9, <1>10, <1>11, <1>12, <1>13, <1>14, <1>15, <1>16, <1>17, <1>18, <1>19, <1>20, <1>21, <1>22, <1>23
  DEF RankOwnStep, WatchStep

LEMMA CoordStepInv ==
  ASSUME IInv, CoordStep \/ SpawnFails
  PROVE  IInv'
<1> USE DEF IInv, TypeOK, RankInv, CoordInv, CoordPc, RankPc, ExitCode, PastBarrier,
            Alive, Agree, coordVars, fileVars, rankVars, hcclVars
<1>1. ASSUME NEW r \in Rank, Spawn(r) PROVE IInv'
  BY <1>1 DEF Spawn
<1>2. ASSUME NEW r \in Rank, Poll(r) PROVE IInv'
  BY <1>2 DEF Poll
<1>3. ASSUME NEW r \in Rank, Kill(r) PROVE IInv'
  BY <1>3 DEF Kill, Gone, Spawned
<1>4. CASE WriteGo BY <1>4 DEF WriteGo, AllAcquired
<1>5. CASE WriteAbort BY <1>5 DEF WriteAbort, Interrupted
<1>6. CASE WaitDone BY <1>6 DEF WaitDone, AllReaped, Spawned
<1>7. CASE WaitGivesUp BY <1>7 DEF WaitGivesUp, WaitOver
<1>8. CASE ReapDone BY <1>8 DEF ReapDone, AllReaped, Spawned
<1>9. CASE Decide BY <1>9 DEF Decide, DropGroup, Verdict, Interrupted
<1>10. CASE Pause BY <1>10 DEF Pause, MayRelaunch, Interrupted
<1>11. CASE Relaunch
  <2>1. attempt' \in 1 .. MaxAttempts
    BY <1>11, AttemptsAssumption DEF Relaunch
  <2>2. TypeOK'
    BY <1>11, <2>1 DEF Relaunch
  <2>3. CoordInv' /\ \A r \in Rank : RankInv(r)'
    BY <1>11 DEF Relaunch
  <2> QED BY <2>2, <2>3
<1>12. CASE SpawnFails
  <2>1. CASE \A r \in Spawned : pc[r] = "exited"
    <3>1. status' \in [Rank -> ExitCode \cup {"none"}]
      BY <1>12, <2>1 DEF SpawnFails
    <3>2. TypeOK'
      BY <1>12, <2>1, <3>1 DEF SpawnFails
    <3>3. CoordInv'
      BY <1>12, <2>1 DEF SpawnFails, Spawned
    <3>4. \A r \in Rank : RankInv(r)'
      BY <1>12, <2>1 DEF SpawnFails, Spawned
    <3> QED BY <3>2, <3>3, <3>4
  <2>2. CASE ~ \A r \in Spawned : pc[r] = "exited"
    BY <1>12, <2>2 DEF SpawnFails
  <2> QED BY <2>1, <2>2
<1> QED
  BY <1>1, <1>2, <1>3, <1>4, <1>5, <1>6, <1>7, <1>8, <1>9, <1>10, <1>11, <1>12
  DEF CoordStep

\* What a signal leaves of the workers: they are where they were, or it ended
\* them.
CaughtKeeps(S) ==
  /\ pc' \in [Rank -> RankPc] /\ code' \in [Rank -> ExitCode \cup {"none"}]
  /\ watch' \in [Rank -> {"off", "on", "abort"}] /\ wsig' \subseteq Rank /\ seen' = seen
  /\ \A r \in Rank :
       \/ /\ pc'[r] = pc[r] /\ code'[r] = code[r] /\ watch'[r] = watch[r]
          /\ r \in wsig => r \in wsig'
       \/ /\ pc[r] \notin {"absent", "exited"}
          /\ pc'[r] = "exited" /\ code'[r] = "signal" /\ watch'[r] = "off"

LEMMA CaughtStep ==
  ASSUME TypeOK, NEW S \in SUBSET Rank, Caught(S)
  PROVE  CaughtKeeps(S)
BY DEF TypeOK, Caught, CaughtKeeps, Live, Spawned, RankPc, ExitCode

LEMMA WorldStepInv ==
  ASSUME IInv,
         \/ (\E t \in Timer : Expire(t)) \/ SignalCoordinator \/ CtrlC \/ CoordinatorDies
         \/ \E r \in Rank : SignalWorker(r) \/ KillWorker(r)
  PROVE  IInv'
<1> USE DEF IInv, TypeOK, RankInv, CoordInv, CoordPc, RankPc, ExitCode, PastBarrier,
            Alive, Agree, coordVars, fileVars, rankVars, hcclVars
<1>1. ASSUME NEW t \in Timer, Expire(t) PROVE IInv'
  BY <1>1 DEF Expire
<1>2. CASE SignalCoordinator
  BY <1>2 DEF SignalCoordinator, Signalled
<1>3. CASE CtrlC
  <2>1. CaughtKeeps(Rank)
    BY <1>3, CaughtStep DEF CtrlC
  <2> QED
    BY <1>3, <2>1 DEF CtrlC, Signalled, CaughtKeeps
<1>4. CASE CoordinatorDies
  BY <1>4 DEF CoordinatorDies
<1>5. ASSUME NEW r \in Rank, SignalWorker(r) PROVE IInv'
  <2>1. CaughtKeeps({r})
    BY <1>5, CaughtStep DEF SignalWorker
  <2> QED
    BY <1>5, <2>1 DEF SignalWorker, CaughtKeeps
<1>6. ASSUME NEW r \in Rank, KillWorker(r) PROVE IInv'
  BY <1>6 DEF KillWorker, Live, Spawned, Gone
<1> QED BY <1>1, <1>2, <1>3, <1>4, <1>5, <1>6

-----------------------------------------------------------------------------
(* The invariant, and what it gives.                                       *)

LEMMA InvInit == Init => IInv
<1> SUFFICES ASSUME Init PROVE IInv
  OBVIOUS
<1>1. TypeOK
  BY TypeInit
<1>2. CoordInv
  BY DEF Init, CoordInv
<1>3. \A r \in Rank : RankInv(r)
  BY DEF Init, RankInv, PastBarrier
<1> QED BY <1>1, <1>2, <1>3 DEF IInv

LEMMA InvNext == IInv /\ [Next]_vars => IInv'
<1> SUFFICES ASSUME IInv, [Next]_vars PROVE IInv'
  OBVIOUS
<1>1. CASE CoordStep \/ SpawnFails
  BY <1>1, CoordStepInv
<1>2. ASSUME NEW r \in Rank, RankOwnStep(r) \/ InitFails(r) \/ WatchStep(r)
      PROVE  IInv'
  BY <1>2, RankStepInv
<1>3. CASE \/ (\E t \in Timer : Expire(t)) \/ SignalCoordinator \/ CtrlC \/ CoordinatorDies
           \/ \E r \in Rank : SignalWorker(r) \/ KillWorker(r)
  BY <1>3, WorldStepInv
<1>4. CASE UNCHANGED vars
  BY <1>4 DEF vars, coordVars, fileVars, rankVars, hcclVars, IInv, TypeOK,
     CoordInv, RankInv, Alive, Agree
<1> QED
  BY <1>1, <1>2, <1>3, <1>4 DEF Next, Terminated

\* The inductive invariant holds in every reachable state, for any number of
\* ranks.
THEOREM Invariant == Spec => []IInv
  BY InvInit, InvNext, PTL DEF Spec

\* Every variable keeps its type.
THEOREM TypeCorrect == Spec => []TypeOK
<1>1. IInv => TypeOK BY DEF IInv
<1> QED BY <1>1, Invariant, PTL

\* No rank gets past the acquire barrier before every card is acquired.
THEOREM BarrierHolds == Spec => []BarrierSafe
<1>1. IInv => BarrierSafe BY DEF IInv, CoordInv, RankInv, BarrierSafe
<1> QED BY <1>1, Invariant, PTL

\* The coordinator never returns, and never removes the directory, while a
\* process it spawned is there.
THEOREM NobodyLeftBehind == Spec => []LeavesNobodyBehind
<1>1. IInv => LeavesNobodyBehind BY DEF IInv, CoordInv, LeavesNobodyBehind
<1> QED BY <1>1, Invariant, PTL

\* A PASS is the verdict of ranks that all left with 0 and the same ids.
THEOREM VerdictIsHonest == Spec => []HonestVerdict
<1>1. ASSUME IInv, result = "PASS"
      PROVE  HonestVerdict
  <2>1. 0 \in Rank
    BY NAssumption DEF Rank
  <2>2. ids[0] \in Ids
    BY <1>1, <2>1 DEF IInv, TypeOK, CoordInv, Agree
  <2>3. \A r \in Rank : code[r] = "ok" /\ ids[r] = ids[0]
    BY <1>1 DEF IInv, CoordInv, RankInv, Agree, ExitCode
  <2> QED BY <1>1, <2>2, <2>3 DEF HonestVerdict, IInv, CoordInv
<1>2. IInv => HonestVerdict
  BY <1>1 DEF HonestVerdict
<1> QED BY <1>2, Invariant, PTL

\* A rank leaves with EXIT_ABORTED only in a group that got go, and only on
\* the coordinator's abort, its death, or a signal of the rank's own.
THEOREM AbortsForAReason == Spec => []AbortedForAReason
<1>1. IInv => AbortedForAReason BY DEF IInv, RankInv, AbortedForAReason
<1> QED BY <1>1, Invariant, PTL

\* A new attempt starts only after every rank of the last one left before
\* the barrier.
THEOREM RelaunchesClean == Spec => RelaunchIsClean
<1>1. ASSUME IInv, Next, attempt' # attempt
      PROVE  Relaunch
  <2> USE <1>1 DEF coordVars, vars
  <2>1. ASSUME NEW r \in Rank, RankOwnStep(r) \/ InitFails(r) \/ WatchStep(r)
        PROVE  attempt' = attempt
    BY <2>1 DEF RankOwnStep, WatchStep, Start, AcquireOk, AcquireFails, Announce,
       EnterGoWait, LookForGo, NoGo, MakeId, EnterIdWait, LookForId, GiveUpId,
       LookAgain, InitReturns, InitFails, StartWatch, Setup, Enqueue, WriteIds,
       GenerateFails, Check, Exit, WatchFires, WatchLeaves
  <2>2. CoordStep \/ SpawnFails => attempt' = attempt \/ Relaunch
    BY DEF CoordStep, SpawnFails, Spawn, Poll, Kill, WriteGo, WriteAbort, WaitDone,
       WaitGivesUp, ReapDone, Decide, Pause
  <2> QED
    BY <2>1, <2>2 DEF Next, Expire, SignalCoordinator, CtrlC, SignalWorker, KillWorker, CoordinatorDies, Terminated
<1>2. ASSUME IInv, Relaunch
      PROVE  /\ ~go
             /\ enqueued = {}
             /\ \A r \in Rank : pc[r] = "exited" /\ code[r] = "acquire"
  BY <1>2 DEF Relaunch, IInv, CoordInv, RankInv, ExitCode
<1>3. IInv /\ [Next]_vars =>
        [attempt' # attempt =>
           /\ ~go
           /\ enqueued = {}
           /\ \A r \in Rank : pc[r] = "exited" /\ code[r] = "acquire"]_vars
  BY <1>1, <1>2 DEF vars, coordVars
<1> QED BY <1>3, Invariant, PTL DEF Spec, RelaunchIsClean

-----------------------------------------------------------------------------
(* The hand-shake implements AcquireBarrier.                               *)

LEMMA StagesDiffer ==
  /\ \A p \in {"absent", "start", "acquire", "acquired"} : StageOf(p) = "before"
  /\ \A p \in {"barrier", "wait_go", "no_go"} : StageOf(p) = "ready"
  /\ \A p \in PastBarrier : StageOf(p) = "run"
  /\ \A p \in {"teardown", "exited"} : StageOf(p) = "gone"
  BY DEF StageOf, PastBarrier

\* A rank that moves within its stage is not seen; one that is leaving or has
\* left is seen to quit.
LEMMA MoveRefines ==
  ASSUME TypeOK, NEW r \in Rank, NEW p \in RankPc,
         pc' = [pc EXCEPT ![r] = p] \/ UNCHANGED pc,
         StageOf(p) = StageOf(pc[r]) \/ StageOf(p) = "gone",
         UNCHANGED <<acquired, go, abort>>
  PROVE  [Barrier!Next]_(Barrier!vars)
<1>1. Decision' = Decision
  BY DEF Decision
<1>2. CASE Stage' = Stage
  BY <1>1, <1>2 DEF Barrier!vars
<1>3. CASE Stage' # Stage
  <2>1. pc' = [pc EXCEPT ![r] = p] /\ StageOf(p) = "gone"
    BY <1>3 DEF Stage, TypeOK
  <2>2. Stage' = [q \in Rank |-> IF q \in {r} THEN "gone" ELSE Stage[q]]
    BY <2>1 DEF Stage, TypeOK
  <2>3. Barrier!Quit({r})
    BY <1>1, <2>2 DEF Barrier!Quit
  <2>4. {r} \in SUBSET Rank
    OBVIOUS
  <2> QED BY <2>3, <2>4 DEF Barrier!Next
<1> QED BY <1>2, <1>3

LEMMA RankStepRefines ==
  ASSUME IInv, NEW r \in Rank, RankOwnStep(r) \/ InitFails(r) \/ WatchStep(r)
  PROVE  [Barrier!Next]_(Barrier!vars)
<1>1. TypeOK /\ pc[r] \in RankPc
  BY DEF IInv, TypeOK
<1> DEFINE Same(p) == /\ pc' = [pc EXCEPT ![r] = p] \/ UNCHANGED pc
                      /\ StageOf(p) = StageOf(pc[r]) \/ StageOf(p) = "gone"
                      /\ UNCHANGED <<acquired, go, abort>>
<1>2. ASSUME NEW p \in RankPc, Same(p)
      PROVE  [Barrier!Next]_(Barrier!vars)
  BY <1>1, <1>2, MoveRefines
<1>3. CASE Announce(r) /\ To(r, "barrier")
  <2>1. Stage' = [Stage EXCEPT ![r] = "ready"] /\ Stage[r] = "before"
    BY <1>1, <1>3, StagesDiffer DEF Announce, To, Leave, Stage, TypeOK
  <2>2. acquired' = acquired \cup {r} /\ Decision' = Decision
    BY <1>1, <1>3 DEF Announce, Decision, To, Leave, TypeOK
  <2>3. Barrier!Announce(r)
    BY <2>1, <2>2 DEF Barrier!Announce
  <2> QED BY <2>3 DEF Barrier!Next
<1>4. CASE LookForGo(r) /\ go
  <2>1. Stage' = [Stage EXCEPT ![r] = "run"] /\ Stage[r] = "ready"
    BY <1>1, <1>4, StagesDiffer DEF LookForGo, GoSeen, To, Stage, TypeOK, PastBarrier
  <2>2. UNCHANGED <<acquired, Decision>> /\ Decision = "go"
    BY <1>4 DEF LookForGo, Decision, fileVars
  <2>3. Barrier!Cross(r)
    BY <2>1, <2>2 DEF Barrier!Cross
  <2> QED BY <2>3 DEF Barrier!Next
<1>5. CASE ~(Announce(r) /\ To(r, "barrier")) /\ ~(LookForGo(r) /\ go)
  <2> SUFFICES \E p \in RankPc : Same(p)
    BY <1>2
  <2> USE <1>1, <1>5, StagesDiffer DEF RankPc, PastBarrier, coordVars, fileVars,
          rankVars, hcclVars, To, Leave, Gone, PrintThenTo, AbortAndDie
  <2>1. CASE Start(r) BY <2>1 DEF Start
  <2>2. CASE AcquireOk(r) BY <2>2 DEF AcquireOk
  <2>3. CASE AcquireFails(r) BY <2>3 DEF AcquireFails
  <2>4. CASE Announce(r) BY <2>4 DEF Announce
  <2>5. CASE EnterGoWait(r) BY <2>5 DEF EnterGoWait
  <2>6. CASE LookForGo(r) BY <2>6 DEF LookForGo, GoSeen
  <2>7. CASE NoGo(r) BY <2>7 DEF NoGo
  <2>8. CASE MakeId(r) BY <2>8 DEF MakeId
  <2>9. CASE EnterIdWait(r) BY <2>9 DEF EnterIdWait
  <2>10. CASE LookForId(r) BY <2>10 DEF LookForId
  <2>11. CASE GiveUpId(r) BY <2>11 DEF GiveUpId
  <2>12. CASE LookAgain(r) BY <2>12 DEF LookAgain
  <2>13. CASE InitReturns(r) BY <2>13 DEF InitReturns
  <2>14. CASE InitFails(r) BY <2>14 DEF InitFails
  <2>15. CASE StartWatch(r) BY <2>15 DEF StartWatch
  <2>16. CASE Setup(r) BY <2>16 DEF Setup
  <2>17. CASE Enqueue(r) BY <2>17 DEF Enqueue
  <2>18. ASSUME NEW v \in Ids, WriteIds(r, v) PROVE \E p \in RankPc : Same(p)
    BY <2>18 DEF WriteIds
  <2>19. CASE GenerateFails(r) BY <2>19 DEF GenerateFails
  <2>20. CASE Check(r) BY <2>20 DEF Check
  <2>21. CASE Exit(r) BY <2>21 DEF Exit
  <2>22. CASE WatchFires(r) BY <2>22 DEF WatchFires
  <2>23. CASE WatchLeaves(r) BY <2>23 DEF WatchLeaves
  <2> QED
    BY <2>1, <2>2, <2>3, <2>4, <2>5, <2>6, <2>7, <2>8, <2>9, <2>10, <2>11, <2>12, <2>13,
       <2>14, <2>15, <2>16, <2>17, <2>18, <2>19, <2>20, <2>21, <2>22, <2>23 DEF RankOwnStep,
       WatchStep
<1> QED BY <1>3, <1>4, <1>5

LEMMA CoordStepRefines ==
  ASSUME IInv, CoordStep \/ SpawnFails
  PROVE  [Barrier!Next]_(Barrier!vars)
<1>1. TypeOK /\ CoordInv /\ \A r \in Rank : RankInv(r)
  BY DEF IInv
<1>2. ASSUME NEW r \in Rank, Spawn(r) PROVE [Barrier!Next]_(Barrier!vars)
  <2>1. /\ pc' = [pc EXCEPT ![r] = "start"] /\ pc[r] = "absent"
        /\ UNCHANGED <<acquired, go, abort>>
    BY <1>2 DEF Spawn, fileVars
  <2> QED BY <1>1, <2>1, MoveRefines, StagesDiffer DEF RankPc
<1>3. ASSUME NEW r \in Rank, Poll(r) PROVE [Barrier!Next]_(Barrier!vars)
  BY <1>3 DEF Poll, fileVars, rankVars, Barrier!vars, Stage, Decision
<1>4. ASSUME NEW r \in Rank, Kill(r) PROVE [Barrier!Next]_(Barrier!vars)
  <2>1. /\ pc' = [pc EXCEPT ![r] = "exited"] \/ UNCHANGED pc
        /\ UNCHANGED <<acquired, go, abort>>
    BY <1>4 DEF Kill, Gone, fileVars, rankVars
  <2> QED BY <1>1, <2>1, MoveRefines, StagesDiffer DEF RankPc
<1>5. CASE WriteGo
  <2>1. Barrier!DecideGo
    BY <1>1, <1>5 DEF WriteGo, AllAcquired, CoordInv, Barrier!DecideGo, Decision, Stage, rankVars
  <2> QED BY <2>1 DEF Barrier!Next
<1>6. CASE WriteAbort
  <2>1. Barrier!DecideAbort
    BY <1>1, <1>6 DEF WriteAbort, CoordInv, Barrier!DecideAbort, Decision, Stage, rankVars
  <2> QED BY <2>1 DEF Barrier!Next
<1>7. CASE WaitDone \/ ReapDone \/ Decide \/ Pause
  BY <1>7 DEF WaitDone, ReapDone, Decide, Pause, fileVars, rankVars, Barrier!vars, Stage, Decision
<1>8. CASE WaitGivesUp \/ SpawnFails
  <2>1. UNCHANGED <<acquired, Stage>> /\ go' = go
    BY <1>8 DEF WaitGivesUp, SpawnFails, rankVars, Stage
  <2>2. CASE Decision' = Decision
    BY <2>1, <2>2 DEF Barrier!vars
  <2>3. CASE Decision' # Decision
    <3>1. Decision = "none" /\ Decision' = "abort"
      BY <1>1, <1>8, <2>1, <2>3 DEF WaitGivesUp, SpawnFails, Decision, TypeOK
    <3>2. Barrier!DecideAbort
      BY <2>1, <3>1 DEF Barrier!DecideAbort
    <3> QED BY <3>2 DEF Barrier!Next
  <2> QED BY <2>2, <2>3
<1>9. CASE Relaunch
  <2>1. Decision = "abort"
    BY <1>1, <1>9 DEF Relaunch, CoordInv, Decision
  <2>2. \A r \in Rank : Stage[r] = "gone"
    BY <1>1, <1>9, StagesDiffer DEF Relaunch, CoordInv, RankInv, Stage
  <2>3. acquired' = {} /\ Decision' = "none" /\ Stage' = [r \in Rank |-> "before"]
    BY <1>9, StagesDiffer DEF Relaunch, Decision, Stage
  <2>4. Barrier!Restart
    BY <2>1, <2>2, <2>3 DEF Barrier!Restart
  <2> QED BY <2>4 DEF Barrier!Next
<1> QED
  BY <1>2, <1>3, <1>4, <1>5, <1>6, <1>7, <1>8, <1>9 DEF CoordStep

\* The ranks a signal ends are seen to quit.
LEMMA CaughtRefines ==
  ASSUME TypeOK, NEW S \in SUBSET Rank, Caught(S), UNCHANGED fileVars
  PROVE  [Barrier!Next]_(Barrier!vars)
<1> DEFINE fatal == {r \in S \cap Live : pc[r] = "start" \/ r \in wsig}
<1>1. pc' = [r \in Rank |-> IF r \in fatal THEN "exited" ELSE pc[r]]
  BY DEF Caught
<1>2. Stage' = [r \in Rank |-> IF r \in fatal THEN "gone" ELSE Stage[r]]
  BY <1>1, StagesDiffer DEF Stage
<1>3. UNCHANGED <<acquired, Decision>>
  BY DEF fileVars, Decision
<1>4. CASE fatal = {}
  BY <1>2, <1>3, <1>4 DEF Stage, Barrier!vars
<1>5. CASE fatal # {}
  <2>1. Barrier!Quit(fatal)
    BY <1>2, <1>3, <1>5 DEF Barrier!Quit
  <2>2. fatal \in SUBSET Rank
    OBVIOUS
  <2> QED BY <2>1, <2>2 DEF Barrier!Next
<1> QED BY <1>4, <1>5

LEMMA WorldStepRefines ==
  ASSUME IInv,
         \/ (\E t \in Timer : Expire(t)) \/ SignalCoordinator \/ CtrlC \/ CoordinatorDies
         \/ \E r \in Rank : SignalWorker(r) \/ KillWorker(r)
  PROVE  [Barrier!Next]_(Barrier!vars)
<1>1. CASE (\E t \in Timer : Expire(t)) \/ SignalCoordinator \/ CoordinatorDies
  BY <1>1 DEF Expire, SignalCoordinator, CoordinatorDies, fileVars, rankVars,
     Barrier!vars, Stage, Decision
<1>2. CASE CtrlC
  BY <1>2, CaughtRefines DEF CtrlC, IInv
<1>3. ASSUME NEW r \in Rank, SignalWorker(r) PROVE [Barrier!Next]_(Barrier!vars)
  BY <1>3, CaughtRefines DEF SignalWorker, IInv
<1>4. ASSUME NEW r \in Rank, KillWorker(r) PROVE [Barrier!Next]_(Barrier!vars)
  <2>1. pc' = [pc EXCEPT ![r] = "exited"] /\ UNCHANGED <<acquired, go, abort>>
    BY <1>4 DEF KillWorker, Gone, fileVars
  <2> QED
    BY <2>1, MoveRefines, StagesDiffer DEF RankPc, IInv
<1> QED BY <1>1, <1>2, <1>3, <1>4

\* Every behaviour of the hand-shake is one of the abstract acquire barrier.
THEOREM Refinement == Spec => ImplementsBarrier
<1>1. Init => Barrier!Init
  BY StagesDiffer DEF Init, Barrier!Init, Stage, Decision
<1>2. ASSUME IInv, [Next]_vars
      PROVE  [Barrier!Next]_(Barrier!vars)
  <2>1. CASE CoordStep \/ SpawnFails
    BY <1>2, <2>1, CoordStepRefines
  <2>2. ASSUME NEW r \in Rank, RankOwnStep(r) \/ InitFails(r) \/ WatchStep(r)
        PROVE  [Barrier!Next]_(Barrier!vars)
    BY <1>2, <2>2, RankStepRefines
  <2>3. CASE \/ (\E t \in Timer : Expire(t)) \/ SignalCoordinator \/ CtrlC \/ CoordinatorDies
             \/ \E r \in Rank : SignalWorker(r) \/ KillWorker(r)
    BY <1>2, <2>3, WorldStepRefines
  <2>4. CASE UNCHANGED vars
    BY <2>4 DEF vars, coordVars, fileVars, rankVars, hcclVars, Barrier!vars, Stage, Decision
  <2> QED BY <1>2, <2>1, <2>2, <2>3, <2>4 DEF Next, Terminated
<1> QED
  BY <1>1, <1>2, Invariant, PTL DEF Spec, ImplementsBarrier, Barrier!Spec

-----------------------------------------------------------------------------
(* The communicator handle of one worker, between its threads.             *)

\* HandleInv holds in every reachable state.
THEOREM HandleInvariant == HandleSpec => []HandleInv
<1>1. HandleInit => HandleInv
  BY DEF HandleInit, HandleInv, HandleTypeOK, Thread, HandlePc
<1>2. HandleInv /\ [HandleNext]_handleVars => HandleInv'
  <2> SUFFICES ASSUME HandleInv, [HandleNext]_handleVars PROVE HandleInv'
    OBVIOUS
  <2> USE DEF HandleInv, HandleTypeOK, Thread, HandlePc, Moves, Running
  <2>1. CASE InitRank BY <2>1 DEF InitRank
  <2>2. CASE Watched BY <2>2 DEF Watched
  <2>3. CASE BeginDrop BY <2>3 DEF BeginDrop
  <2>4. CASE DropClears BY <2>4 DEF DropClears, Cleared
  <2>5. CASE Finalize BY <2>5 DEF Finalize
  <2>6. CASE Destroy BY <2>6 DEF Destroy
  <2>7. CASE MainExits BY <2>7 DEF MainExits
  <2>8. CASE MainFails BY <2>8 DEF MainFails
  <2>9. CASE WatchAborts BY <2>9 DEF WatchAborts
  <2>10. ASSUME NEW t \in Thread, SpawnDeadline(t) PROVE HandleInv'
    BY <2>10 DEF SpawnDeadline, Bounded
  <2>11. ASSUME NEW t \in Thread, Swap(t) PROVE HandleInv'
    BY <2>11 DEF Swap, Swapped
  <2>12. ASSUME NEW t \in Thread, CallAbort(t) PROVE HandleInv'
    BY <2>12 DEF CallAbort
  <2>13. ASSUME NEW t \in Thread, AbortReturns(t) PROVE HandleInv'
    BY <2>13 DEF AbortReturns
  <2>14. ASSUME NEW t \in Thread, Die(t) PROVE HandleInv'
    BY <2>14 DEF Die, CodeOf
  <2>15. ASSUME NEW t \in Thread, DeadlineDies(t) PROVE HandleInv'
    BY <2>15 DEF DeadlineDies, CodeOf
  <2>16. CASE UNCHANGED handleVars BY <2>16 DEF handleVars
  <2> QED
    BY <2>1, <2>2, <2>3, <2>4, <2>5, <2>6, <2>7, <2>8, <2>9, <2>10, <2>11, <2>12, <2>13,
       <2>14, <2>15, <2>16
    DEF HandleNext, HandleEnded
<1> QED BY <1>1, <1>2, PTL DEF HandleSpec

\* hcclCommAbort is called at most once.
THEOREM AbortsOnce == HandleSpec => []AbortedOnce
<1>1. HandleInv => AbortedOnce
  BY DEF HandleInv, AbortedOnce
<1> QED BY <1>1, HandleInvariant, PTL

\* ABORT_COMM never holds a handle that hcclCommFinalize has begun on.
THEOREM SlotIsLive == HandleSpec => []SlotHoldsLive
<1>1. HandleInv => SlotHoldsLive
  BY DEF HandleInv, SlotHoldsLive
<1> QED BY <1>1, HandleInvariant, PTL

-----------------------------------------------------------------------------
(* What the ranks of TpRuns reduce.  First, induction over the numbers.    *)

LEMMA Minimum ==
  ASSUME NEW T, T \subseteq Nat, T # {}
  PROVE  \E x \in T : \A y \in T : x <= y
<1> DEFINE R == OpToRel(<, Nat)
<1>1. IsWellFoundedOn(R, Nat)
  BY NatLessThanWellFounded
<1> HIDE DEF R
<1>2. PICK x \in T : \A y \in T : <<y, x>> \notin R
  BY <1>1, WFMin
<1>3. ASSUME NEW y \in T PROVE x <= y
  <2>1. x \in Nat /\ y \in Nat /\ <<y, x>> \notin R
    BY <1>2
  <2>2. y < x => <<y, x>> \in R
    BY <2>1 DEF R, OpToRel
  <2> QED
    BY <2>1, <2>2
<1> QED
  BY <1>3

LEMMA Induction ==
  ASSUME NEW S, 0 \in S, \A n \in Nat : n \in S => n + 1 \in S
  PROVE  Nat \subseteq S
<1> DEFINE T == Nat \ S
<1> SUFFICES ASSUME T # {} PROVE FALSE
  OBVIOUS
<1>1. T \subseteq Nat
  OBVIOUS
<1>2. PICK x \in T : \A y \in T : x <= y
  <2> HIDE DEF T
  <2> QED
    BY <1>1, Minimum
<1>3. x \in Nat /\ x # 0
  BY <1>2
<1>4. x - 1 \in Nat /\ x - 1 \notin T
  BY <1>2, <1>3
<1> QED
  BY <1>3, <1>4

-----------------------------------------------------------------------------
(* Sequences of work.                                                      *)

LEMMA SeqIs ==
  ASSUME NEW s, IsSeq(s)
  PROVE  /\ Len(s) \in Nat /\ DOMAIN s = 1 .. Len(s)
         /\ s = <<>> <=> Len(s) = 0
BY DEF IsSeq

LEMMA InSeq ==
  ASSUME NEW X, NEW s \in Seq(X)
  PROVE  IsSeq(s)
BY DEF IsSeq

LEMMA OneIs ==
  ASSUME NEW x
  PROVE  IsSeq(<<x>>) /\ Len(<<x>>) = 1 /\ DOMAIN <<x>> = {1} /\ <<x>>[1] = x
BY DEF IsSeq

LEMMA NoneIs == IsSeq(<<>>) /\ Len(<<>>) = 0 /\ DOMAIN <<>> = {}
BY DEF IsSeq

LEMMA TabledIs ==
  ASSUME NEW n \in Nat, NEW f, DOMAIN f = 1 .. n, f = [k \in 1 .. n |-> f[k]]
  PROVE  IsSeq(f) /\ Len(f) = n
<1> DEFINE X == {f[k] : k \in DOMAIN f}
<1>1. f \in [1 .. n -> X]
  OBVIOUS
<1> HIDE DEF X
<1>2. f \in Seq(X) /\ Len(f) = n
  BY <1>1
<1> QED
  BY <1>2, InSeq

\* st is s and then t, index by index.
Joins(s, t, st) ==
  /\ IsSeq(st)
  /\ Len(st) = Len(s) + Len(t)
  /\ \A i \in 1 .. Len(s) : st[i] = s[i]
  /\ \A i \in 1 .. Len(t) : st[Len(s) + i] = t[i]

LEMMA JoinIs ==
  ASSUME NEW s, IsSeq(s), NEW t, IsSeq(t)
  PROVE  Joins(s, t, s \o t)
<1> DEFINE X == {s[j] : j \in DOMAIN s} \cup {t[j] : j \in DOMAIN t}
           st == s \o t
<1>1. s \in Seq(X) /\ t \in Seq(X)
  BY DEF IsSeq
<1> HIDE DEF X
<1>2. st \in Seq(X)
  BY <1>1
<1>3. IsSeq(st)
  BY <1>2, InSeq, Zenon
<1>4. Len(s) \in Nat /\ Len(t) \in Nat /\ Len(st) = Len(s) + Len(t)
  BY <1>1
<1>5. /\ \A i \in 1 .. Len(s) : st[i] = s[i]
      /\ \A i \in 1 .. Len(t) : st[Len(s) + i] = t[i]
  BY <1>1, <1>4
<1> QED
  BY <1>3, <1>4, <1>5 DEF Joins

LEMMA JoinedTwice ==
  ASSUME NEW s, IsSeq(s), NEW t, IsSeq(t), NEW u, IsSeq(u)
  PROVE  (s \o t) \o u = s \o (t \o u)
<1> DEFINE X == {s[j] : j \in DOMAIN s} \cup {t[j] : j \in DOMAIN t} \cup {u[j] : j \in DOMAIN u}
<1>1. s \in Seq(X) /\ t \in Seq(X) /\ u \in Seq(X)
  BY DEF IsSeq
<1> HIDE DEF X
<1> QED
  BY <1>1

LEMMA JoinedNone ==
  ASSUME NEW s, IsSeq(s)
  PROVE  <<>> \o s = s /\ s \o <<>> = s
<1> DEFINE X == {s[j] : j \in DOMAIN s}
<1>1. s \in Seq(X)
  BY DEF IsSeq
<1> HIDE DEF X
<1> QED
  BY <1>1

LEMMA TailIs ==
  ASSUME NEW s, IsSeq(s), s # <<>>
  PROVE  /\ IsSeq(Tail(s)) /\ Len(Tail(s)) = Len(s) - 1 /\ Len(s) \in Nat \ {0}
         /\ \A i \in 1 .. (Len(s) - 1) : Tail(s)[i] = s[i + 1]
<1> DEFINE X == {s[j] : j \in DOMAIN s}
<1>1. s \in Seq(X)
  BY DEF IsSeq
<1> HIDE DEF X
<1>2. Tail(s) \in Seq(X) /\ Len(s) \in Nat \ {0} /\ Len(Tail(s)) = Len(s) - 1
  BY <1>1
<1>3. IsSeq(Tail(s))
  BY <1>2, InSeq, Zenon
<1>5. \A i \in 1 .. (Len(s) - 1) : Tail(s)[i] = s[i + 1]
  BY <1>1
<1> QED
  BY <1>2, <1>3, <1>5

-----------------------------------------------------------------------------
(* Flat.                                                                   *)

Parts(parts) == IsSeq(parts) /\ \A k \in DOMAIN parts : IsSeq(parts[k])

\* The recursion has a solution, table by table.
Table(parts, n, t) ==
  t = [k \in 0 .. n |-> IF k = 0 THEN <<>> ELSE t[k - 1] \o parts[k]]

LEMMA TablesExist ==
  ASSUME NEW parts
  PROVE  \A n \in Nat : \E t : Table(parts, n, t)
<1> DEFINE T == {n \in Nat : \E t : Table(parts, n, t)}
<1>1. 0 \in T
  <2>1. Table(parts, 0, [k \in 0 .. 0 |-> <<>>])
    BY DEF Table
  <2> QED
    BY <2>1
<1>2. ASSUME NEW n \in Nat, n \in T PROVE n + 1 \in T
  <2>1. PICK t : Table(parts, n, t)
    BY <1>2
  <2> DEFINE u == [k \in 0 .. n + 1 |-> IF k <= n THEN t[k] ELSE t[n] \o parts[n + 1]]
  <2>2. ASSUME NEW k \in 0 .. n + 1
        PROVE  u[k] = IF k = 0 THEN <<>> ELSE u[k - 1] \o parts[k]
    <3>1. CASE k = 0
      BY <2>1, <3>1 DEF Table
    <3>2. CASE k # 0 /\ k <= n
      <4>1. k \in 0 .. n /\ k - 1 \in 0 .. n
        BY <3>2
      <4>2. t[k] = t[k - 1] \o parts[k]
        BY <2>1, <3>2, <4>1 DEF Table
      <4>3. u[k] = t[k] /\ u[k - 1] = t[k - 1]
        BY <3>2, <4>1
      <4> QED
        BY <3>2, <4>2, <4>3
    <3>3. CASE k = n + 1
      BY <3>3
    <3> QED
      BY <3>1, <3>2, <3>3
  <2>3. Table(parts, n + 1, u)
    BY <2>2 DEF Table
  <2> QED
    BY <2>3
<1> HIDE DEF T
<1>3. Nat \subseteq T
  BY <1>1, <1>2, Induction
<1> QED
  BY <1>3 DEF T

LEMMA FirstOnesIs ==
  ASSUME NEW parts, Parts(parts)
  PROVE  /\ FirstOnes(parts)[0] = <<>>
         /\ \A k \in 1 .. Len(parts) : FirstOnes(parts)[k] = FirstOnes(parts)[k - 1] \o parts[k]
         /\ \A k \in 0 .. Len(parts) : IsSeq(FirstOnes(parts)[k])
<1> DEFINE n == Len(parts)
           t == FirstOnes(parts)
<1>1. n \in Nat /\ DOMAIN parts = 1 .. n
  BY SeqIs DEF Parts
<1>2. t = CHOOSE u : Table(parts, n, u)
  BY DEF FirstOnes, Table
<1> HIDE DEF t
<1>3. Table(parts, n, t)
  BY <1>1, <1>2, TablesExist
<1>4. t[0] = <<>>
  BY <1>1, <1>3 DEF Table
<1>5. \A k \in 1 .. n : t[k] = t[k - 1] \o parts[k]
  BY <1>1, <1>3 DEF Table
<1> DEFINE T == {k \in Nat : k <= n => IsSeq(t[k])}
<1>6. 0 \in T
  BY <1>4, NoneIs
<1>7. ASSUME NEW k \in Nat, k \in T PROVE k + 1 \in T
  <2>1. SUFFICES ASSUME k + 1 <= n PROVE IsSeq(t[k + 1])
    OBVIOUS
  <2>2. k + 1 \in 1 .. n /\ (k + 1) - 1 = k
    BY <1>1, <2>1
  <2>3. t[k + 1] = t[k] \o parts[k + 1]
    BY <1>5, <2>2
  <2>4. IsSeq(t[k]) /\ IsSeq(parts[k + 1])
    BY <1>1, <1>7, <2>1, <2>2 DEF Parts
  <2> QED
    BY <2>3, <2>4, JoinIs DEF Joins
<1> HIDE DEF T
<1>8. Nat \subseteq T
  BY <1>6, <1>7, Induction
<1>9. \A k \in 0 .. n : IsSeq(t[k])
  BY <1>1, <1>8 DEF T
<1> QED
  BY <1>4, <1>5, <1>9 DEF t

\* What comes first, comes first.
LEMMA FlatTail ==
  ASSUME NEW parts, Parts(parts), parts # <<>>
  PROVE  IsSeq(Flat(parts)) /\ Flat(parts) = parts[1] \o Flat(Tail(parts))
<1> DEFINE n == Len(parts)
           rest == Tail(parts)
           t == FirstOnes(parts)
           u == FirstOnes(rest)
<1>1. /\ n \in Nat \ {0} /\ DOMAIN parts = 1 .. n /\ Len(rest) = n - 1 /\ IsSeq(rest)
      /\ \A k \in 1 .. n - 1 : rest[k] = parts[k + 1]
  BY SeqIs, TailIs DEF Parts
<1>2. DOMAIN rest = 1 .. n - 1
  BY <1>1, SeqIs
<1>3. Parts(rest)
  <2>1. ASSUME NEW k \in DOMAIN rest PROVE IsSeq(rest[k])
    <3>1. k \in 1 .. n - 1 /\ k + 1 \in DOMAIN parts
      BY <1>1, <1>2
    <3> QED
      BY <1>1, <3>1 DEF Parts
  <2> QED
    BY <1>1, <2>1 DEF Parts
<1> HIDE DEF n, rest
<1>4. /\ t[0] = <<>>
      /\ \A k \in 1 .. n : t[k] = t[k - 1] \o parts[k]
      /\ \A k \in 0 .. n : IsSeq(t[k])
  BY FirstOnesIs DEF n
<1>5. /\ u[0] = <<>>
      /\ \A k \in 1 .. n - 1 : u[k] = u[k - 1] \o rest[k]
      /\ \A k \in 0 .. n - 1 : IsSeq(u[k])
  BY <1>1, <1>3, FirstOnesIs
<1> HIDE DEF t, u
<1>6. IsSeq(parts[1])
  BY <1>1 DEF Parts
<1> DEFINE T == {k \in Nat : k <= n - 1 => t[k + 1] = parts[1] \o u[k]}
<1>7. 0 \in T
  <2>1. t[1] = t[0] \o parts[1]
    <3>1. 1 \in 1 .. n /\ 1 - 1 = 0
      BY <1>1
    <3> QED
      BY <1>4, <3>1
  <2>2. t[1] = parts[1] \o u[0]
    BY <1>4, <1>5, <1>6, <2>1, JoinedNone
  <2>3. 0 \in Nat /\ 0 + 1 = 1
    OBVIOUS
  <2> QED
    BY <2>2, <2>3, Zenon
<1>8. ASSUME NEW k \in Nat, k \in T PROVE k + 1 \in T
  <2> SUFFICES ASSUME k + 1 <= n - 1 PROVE t[(k + 1) + 1] = parts[1] \o u[k + 1]
    <3>1. k + 1 \in Nat
      OBVIOUS
    <3> QED
      BY <3>1, Zenon
  <2>2. /\ k + 2 \in 1 .. n /\ (k + 2) - 1 = k + 1
        /\ k + 1 \in 1 .. n - 1 /\ (k + 1) - 1 = k /\ k \in 0 .. n - 1 /\ k <= n - 1
        /\ k + 2 \in DOMAIN parts /\ (k + 1) + 1 = k + 2
    BY <1>1
  <2>3. t[k + 2] = t[k + 1] \o parts[k + 2]
    BY <1>4, <2>2
  <2>4. t[k + 1] = parts[1] \o u[k]
    BY <1>8, <2>2
  <2>5. u[k + 1] = u[k] \o parts[k + 2]
    BY <1>1, <1>5, <2>2
  <2>6. IsSeq(u[k]) /\ IsSeq(parts[k + 2])
    BY <1>5, <2>2 DEF Parts
  <2>7. (parts[1] \o u[k]) \o parts[k + 2] = parts[1] \o (u[k] \o parts[k + 2])
    <3> DEFINE a == parts[1]
               b == u[k]
               c == parts[k + 2]
    <3>1. IsSeq(a) /\ IsSeq(b) /\ IsSeq(c)
      BY <1>6, <2>6
    <3> HIDE DEF a, b, c
    <3>2. (a \o b) \o c = a \o (b \o c)
      BY <3>1, JoinedTwice
    <3> QED
      BY <3>2 DEF a, b, c
  <2>8. (k + 1) + 1 = k + 2
    BY <2>2
  <2> QED
    BY <2>3, <2>4, <2>5, <2>7, <2>8, Zenon
<1> HIDE DEF T
<1>9. Nat \subseteq T
  BY <1>7, <1>8, Induction
<1>10. t[n] = parts[1] \o u[n - 1] /\ IsSeq(t[n])
  <2>1. n - 1 \in T /\ (n - 1) + 1 = n
    BY <1>1, <1>9
  <2> QED
    BY <1>1, <1>4, <2>1 DEF T
<1> QED
  BY <1>1, <1>10 DEF Flat, n, t, u, rest

LEMMA FlatIs ==
  ASSUME NEW parts, Parts(parts)
  PROVE  IsSeq(Flat(parts))
<1>1. Len(parts) \in 0 .. Len(parts)
  BY SeqIs DEF Parts
<1>2. IsSeq(FirstOnes(parts)[Len(parts)])
  BY <1>1, FirstOnesIs
<1> QED
  BY <1>2 DEF Flat

LEMMA FlatNone == Flat(<<>>) = <<>>
BY FirstOnesIs, NoneIs DEF Flat, Parts

-----------------------------------------------------------------------------
(* Work that has the same shape.                                           *)

\* Item by item the same launch, and the same all-reduce.
Same(s, t) ==
  /\ IsSeq(s) /\ IsSeq(t) /\ Len(s) = Len(t)
  /\ \A i \in 1 .. Len(s) :
       /\ s[i].do = "reduce" <=> t[i].do = "reduce"
       /\ s[i].do = "reduce" => s[i] = t[i]

LEMMA SameJoin ==
  ASSUME NEW s, NEW t, Same(s, t), NEW u, NEW v, Same(u, v)
  PROVE  Same(s \o u, t \o v)
<1>1. Joins(s, u, s \o u) /\ Joins(t, v, t \o v)
  BY JoinIs DEF Same
<1>2. Len(s) \in Nat /\ Len(u) \in Nat /\ Len(t) = Len(s) /\ Len(v) = Len(u)
  BY SeqIs DEF Same
<1> DEFINE su == s \o u
           tv == t \o v
<1>3. ASSUME NEW i \in 1 .. Len(su)
      PROVE  /\ su[i].do = "reduce" <=> tv[i].do = "reduce"
             /\ su[i].do = "reduce" => su[i] = tv[i]
  <2>1. CASE i \in 1 .. Len(s)
    BY <1>1, <1>2, <2>1 DEF Same, Joins
  <2>2. CASE i \notin 1 .. Len(s)
    <3> DEFINE j == i - Len(s)
    <3>1. j \in 1 .. Len(u) /\ i = Len(s) + j
      BY <1>1, <1>2, <2>2 DEF Joins
    <3>2. su[i] = u[j] /\ tv[i] = v[j]
      BY <1>1, <1>2, <3>1 DEF Joins
    <3> QED
      BY <3>1, <3>2 DEF Same
  <2> QED
    BY <2>1, <2>2
<1> QED
  BY <1>1, <1>2, <1>3 DEF Same, Joins

LEMMA SameFlat ==
  ASSUME NEW n \in Nat, NEW p, NEW q,
         IsSeq(p), IsSeq(q), Len(p) = n, Len(q) = n,
         \A k \in 1 .. n : Same(p[k], q[k])
  PROVE  Same(Flat(p), Flat(q))
<1> DEFINE t == FirstOnes(p)
           u == FirstOnes(q)
<1>1. DOMAIN p = 1 .. n /\ DOMAIN q = 1 .. n
  BY SeqIs
<1>2. Parts(p) /\ Parts(q)
  BY <1>1 DEF Parts, Same
<1>3. /\ t[0] = <<>> /\ u[0] = <<>>
      /\ \A k \in 1 .. n : t[k] = t[k - 1] \o p[k] /\ u[k] = u[k - 1] \o q[k]
  BY <1>2, FirstOnesIs
<1> HIDE DEF t, u
<1> DEFINE T == {k \in Nat : k <= n => Same(t[k], u[k])}
<1>4. 0 \in T
  BY <1>3, NoneIs DEF Same
<1>5. ASSUME NEW k \in Nat, k \in T PROVE k + 1 \in T
  <2>1. SUFFICES ASSUME k + 1 <= n PROVE Same(t[k + 1], u[k + 1])
    OBVIOUS
  <2>2. k + 1 \in 1 .. n /\ (k + 1) - 1 = k /\ k <= n
    BY <2>1
  <2>3. Same(t[k], u[k]) /\ Same(p[k + 1], q[k + 1])
    BY <1>5, <2>2
  <2>4. t[k + 1] = t[k] \o p[k + 1] /\ u[k + 1] = u[k] \o q[k + 1]
    BY <1>3, <2>2
  <2> QED
    BY <2>3, <2>4, SameJoin
<1> HIDE DEF T
<1>6. Nat \subseteq T
  BY <1>4, <1>5, Induction
<1>7. Same(t[n], u[n])
  BY <1>6 DEF T
<1> QED
  BY <1>7 DEF Flat, t, u

\* What of a piece of work is an all-reduce.
Kept(s) == [i \in 1 .. Len(s) |-> IF s[i].do = "reduce" THEN <<s[i]>> ELSE <<>>]

LEMMA KeptIs ==
  ASSUME NEW s, IsSeq(s)
  PROVE  /\ Parts(Kept(s)) /\ Len(Kept(s)) = Len(s) /\ OnlyReduces(s) = Flat(Kept(s))
         /\ \A i \in 1 .. Len(s) : Kept(s)[i] = IF s[i].do = "reduce" THEN <<s[i]>> ELSE <<>>
<1>1. Len(s) \in Nat
  BY SeqIs
<1>2. OnlyReduces(s) = Flat(Kept(s))
  BY DEF OnlyReduces, Kept
<1>3. DOMAIN Kept(s) = 1 .. Len(s) /\ \A i \in 1 .. Len(s) : Kept(s)[i] = IF s[i].do = "reduce" THEN <<s[i]>> ELSE <<>>
  BY DEF Kept
<1>4. \A k \in 1 .. Len(s) : IsSeq(Kept(s)[k])
  BY <1>3, OneIs, NoneIs
<1>5. Kept(s) = [k \in 1 .. Len(s) |-> Kept(s)[k]]
  BY DEF Kept
<1>6. IsSeq(Kept(s)) /\ Len(Kept(s)) = Len(s)
  BY <1>1, <1>3, <1>5, TabledIs
<1> QED
  BY <1>2, <1>3, <1>4, <1>6 DEF Parts

LEMMA SameReduces ==
  ASSUME NEW s, NEW t, Same(s, t)
  PROVE  OnlyReduces(s) = OnlyReduces(t)
<1>1. Kept(s) = Kept(t)
  BY DEF Kept, Same
<1> QED
  BY <1>1, KeptIs DEF Same

LEMMA NoReduces == OnlyReduces(<<>>) = <<>>
<1>1. Kept(<<>>) = <<>>
  BY NoneIs, KeptIs, SeqIs DEF Parts
<1> QED
  BY <1>1, FlatNone, KeptIs, NoneIs

\* The reduces of what is left when the first item is done.
LEMMA TailReduces ==
  ASSUME NEW s, IsSeq(s), s # <<>>
  PROVE  /\ s[1].do # "reduce" => OnlyReduces(Tail(s)) = OnlyReduces(s)
         /\ s[1].do = "reduce" => OnlyReduces(s) = <<s[1]>> \o OnlyReduces(Tail(s))
         /\ IsSeq(OnlyReduces(s)) /\ IsSeq(OnlyReduces(Tail(s)))
<1>1. /\ IsSeq(Tail(s)) /\ Len(Tail(s)) = Len(s) - 1 /\ Len(s) \in Nat \ {0}
      /\ \A i \in 1 .. (Len(s) - 1) : Tail(s)[i] = s[i + 1]
  BY TailIs
<1>2. /\ Parts(Kept(s)) /\ Len(Kept(s)) = Len(s) /\ Kept(s) # <<>>
      /\ OnlyReduces(s) = Flat(Kept(s))
      /\ Kept(s)[1] = IF s[1].do = "reduce" THEN <<s[1]>> ELSE <<>>
  BY <1>1, KeptIs, SeqIs DEF Parts
<1>3. Tail(Kept(s)) = Kept(Tail(s))
  <2> DEFINE a == Tail(Kept(s))
             b == Kept(Tail(s))
             n == Len(s) - 1
  <2>1. /\ IsSeq(a) /\ Len(a) = n
        /\ \A i \in 1 .. n : a[i] = Kept(s)[i + 1]
    BY <1>2, TailIs DEF Parts
  <2>2. /\ IsSeq(b) /\ Len(b) = n
        /\ \A i \in 1 .. n : b[i] = IF s[i + 1].do = "reduce" THEN <<s[i + 1]>> ELSE <<>>
    BY <1>1, KeptIs, ZenonT(40) DEF Parts
  <2>3. \A i \in 1 .. n : Kept(s)[i + 1] = IF s[i + 1].do = "reduce" THEN <<s[i + 1]>> ELSE <<>>
    BY <1>1, KeptIs
  <2> HIDE DEF a, b
  <2>4. \A i \in 1 .. n : a[i] = b[i]
    BY <2>1, <2>2, <2>3
  <2> DEFINE X == {a[k] : k \in DOMAIN a} \cup {b[k] : k \in DOMAIN b}
  <2>5. a \in Seq(X) /\ b \in Seq(X)
    BY <2>1, <2>2 DEF IsSeq
  <2> HIDE DEF X, n
  <2>6. a = b
    BY <2>1, <2>2, <2>4, <2>5
  <2> QED
    BY <2>6 DEF a, b
<1>4. OnlyReduces(Tail(s)) = Flat(Kept(Tail(s))) /\ Parts(Kept(Tail(s)))
  BY <1>1, KeptIs
<1>5. Flat(Kept(s)) = Kept(s)[1] \o Flat(Kept(Tail(s)))
  BY <1>2, <1>3, FlatTail
<1>6. IsSeq(Flat(Kept(Tail(s)))) /\ IsSeq(Flat(Kept(s)))
  BY <1>2, <1>4, FlatIs
<1> QED
  BY <1>2, <1>4, <1>5, <1>6, JoinedNone

-----------------------------------------------------------------------------
(* The work of a call reduces the same for every rank.                     *)

LEMMA SameItem ==
  ASSUME NEW do, NEW k, NEW l, NEW a, NEW b, do # "reduce" \/ (k = l /\ a = b)
  PROVE  Same(Item(do, k, a), Item(do, l, b))
<1> DEFINE x == [do |-> do, k |-> k, arg |-> a]
           y == [do |-> do, k |-> l, arg |-> b]
<1>1. x.do = do /\ y.do = do /\ (do = "reduce" => x = y)
  OBVIOUS
<1>2. Item(do, k, a) = <<x>> /\ Item(do, l, b) = <<y>>
  BY DEF Item
<1> HIDE DEF x, y
<1>3. Same(<<x>>, <<y>>)
  BY <1>1, OneIs DEF Same
<1> QED
  BY <1>2, <1>3

LEMMA SameTable ==
  ASSUME NEW n \in Nat, NEW p, NEW q,
         p = [k \in 1 .. n |-> p[k]], q = [k \in 1 .. n |-> q[k]],
         \A k \in 1 .. n : Same(p[k], q[k])
  PROVE  Same(Flat(p), Flat(q))
<1>1. DOMAIN p = 1 .. n /\ DOMAIN q = 1 .. n
  BY Zenon
<1>2. IsSeq(p) /\ Len(p) = n /\ IsSeq(q) /\ Len(q) = n
  BY <1>1, TabledIs
<1> QED
  BY <1>2, SameFlat

LEMMA BlocksAreNat ==
  ASSUME NEW n \in Nat, NEW p \in Nat \ {0}
  PROVE  (n + p - 1) \div p \in Nat
OBVIOUS

LEMMA SamePrefill ==
  ASSUME job \in Jobs, NEW s, NEW t, NEW a, NEW b, Len(a) \in Nat, Len(b) = Len(a)
  PROVE  Same(PrefillWork(s, a), PrefillWork(t, b))
<1> DEFINE p == job.rows
           n == (Len(a) + p - 1) \div p
           chunk(text, i) == SubSeq(text, p * (i - 1) + 1, Smallest(p * i, Len(text)))
           layer(q, i, li) ==
             Item("a_pre", li, [s |-> q, toslot |-> ToSlotAt(n, i)])
             \o Item("reduce", li, Address(Nl("P1"), <<job.h * p>>))
             \o Item("b_pre", li, 0) \o Item("reduce", li, Address(Nl("P2"), <<job.h * p>>))
           layers(q, i) == [li \in 1 .. Layers |-> layer(q, i, li)]
           block(q, text, i) ==
             Item("upload", i, [s |-> q, ids |-> chunk(text, i)]) \o Flat(layers(q, i))
             \o Item("head_pre", i, [s |-> q, ids |-> chunk(text, i), last |-> i = n])
           blocks(q, text) == [i \in 1 .. n |-> block(q, text, i)]
<1>1. PrefillWork(s, a) = Flat(blocks(s, a)) /\ PrefillWork(t, b) = Flat(blocks(t, b))
  BY DEF PrefillWork
<1>2. Layers \in Nat /\ p \in Nat \ {0}
  BY TpJobsAssumption DEF Layers
<1>3. n \in Nat
  BY <1>2, BlocksAreNat
<1> HIDE DEF n, chunk, p
<1>4. ASSUME NEW i \in 1 .. n PROVE Same(block(s, a, i), block(t, b, i))
  <2>1. ASSUME NEW li \in 1 .. Layers PROVE Same(layer(s, i, li), layer(t, i, li))
    <3>1. Same(Item("a_pre", li, [s |-> s, toslot |-> ToSlotAt(n, i)]),
               Item("a_pre", li, [s |-> t, toslot |-> ToSlotAt(n, i)]))
      BY SameItem
    <3>2. \A x : Same(Item("reduce", li, x), Item("reduce", li, x))
      BY SameItem
    <3>3. Same(Item("b_pre", li, 0), Item("b_pre", li, 0))
      BY SameItem
    <3> QED
      BY <3>1, <3>2, <3>3, SameJoin
  <2> HIDE DEF layer
  <2>2. Same(Flat(layers(s, i)), Flat(layers(t, i)))
    BY <1>2, <2>1, SameTable
  <2>3. Same(Item("upload", i, [s |-> s, ids |-> chunk(a, i)]),
             Item("upload", i, [s |-> t, ids |-> chunk(b, i)]))
    BY SameItem
  <2>4. Same(Item("head_pre", i, [s |-> s, ids |-> chunk(a, i), last |-> i = n]),
             Item("head_pre", i, [s |-> t, ids |-> chunk(b, i), last |-> i = n]))
    BY SameItem
  <2> HIDE DEF layers
  <2> QED
    BY <2>2, <2>3, <2>4, SameJoin
<1> HIDE DEF block
<1>5. Same(Flat(blocks(s, a)), Flat(blocks(t, b)))
  BY <1>3, <1>4, SameTable
<1> QED
  BY <1>1, <1>5

LEMMA SameDecode ==
  ASSUME job \in Jobs, NEW n \in Nat, NEW r, NEW o, NEW g, NEW h
  PROVE  Same(DecodeWork(r, n, g), DecodeWork(o, n, h))
<1> DEFINE count == job.h * job.b
           layer(li) ==
             Item("a_dec", li, 0) \o Item("reduce", li, Address(Nl("P1"), <<count>>))
             \o Item("b_dec", li, 0) \o Item("reduce", li, Address(Nl("P2"), <<count>>))
           layers == [li \in 1 .. Layers |-> layer(li)]
           launch(head, k) ==
             Item("e_dec", head + k - 1, k - 1) \o Flat(layers) \o Item("head_dec", head + k, 0)
           launches(head) == [k \in 1 .. n |-> launch(head, k)]
<1>1. DecodeWork(r, n, g) = Flat(launches(g)) /\ DecodeWork(o, n, h) = Flat(launches(h))
  BY DEF DecodeWork
<1>2. Layers \in Nat
  BY TpJobsAssumption DEF Layers
<1>3. ASSUME NEW k \in 1 .. n PROVE Same(launch(g, k), launch(h, k))
  <2>1. ASSUME NEW li \in 1 .. Layers PROVE Same(layer(li), layer(li))
    <3>1. Same(Item("a_dec", li, 0), Item("a_dec", li, 0)) /\ Same(Item("b_dec", li, 0), Item("b_dec", li, 0))
      BY SameItem
    <3>2. \A x : Same(Item("reduce", li, x), Item("reduce", li, x))
      BY SameItem
    <3> QED
      BY <3>1, <3>2, SameJoin
  <2> HIDE DEF layer
  <2>2. Same(Flat(layers), Flat(layers))
    BY <1>2, <2>1, SameTable
  <2>3. Same(Item("e_dec", g + k - 1, k - 1), Item("e_dec", h + k - 1, k - 1))
    BY SameItem
  <2>4. Same(Item("head_dec", g + k, 0), Item("head_dec", h + k, 0))
    BY SameItem
  <2> HIDE DEF layers
  <2> QED
    BY <2>2, <2>3, <2>4, SameJoin
<1> HIDE DEF launch
<1>4. Same(Flat(launches(g)), Flat(launches(h)))
  BY <1>3, SameTable
<1> QED
  BY <1>1, <1>4

-----------------------------------------------------------------------------
(* The steps.                                                              *)

LEMMA CallIs ==
  ASSUME NEW c \in Calls(job)
  PROVE  c[1] \in {"prefill", "decode", "reset"} /\ c[3] \in Nat
<1> DEFINE F == {"prefill"} \X (1..job.b) \X (1..MaxCall) \X {FALSE}
           D == {"decode"} \X {1} \X (1..MaxCall) \X BOOLEAN
           R == {"reset"} \X (1..job.b) \X {0} \X {FALSE}
<1>1. c \in F \/ c \in D \/ c \in R
  BY Zenon DEF Calls
<1>2. CASE c \in F
  BY <1>2, TpBoundAssumption
<1>3. CASE c \in D
  BY <1>3, TpBoundAssumption
<1>4. CASE c \in R
  BY <1>4
<1> QED
  BY <1>1, <1>2, <1>3, <1>4, Zenon

\* A rank that makes a call has all of it to reduce.
LEMMA CalledIs ==
  ASSUME job \in Jobs, NEW r, NEW k, DOMAIN k = Fields, k.made \in Nat, k.stream = <<>>,
         NEW c \in Calls(job)
  PROVE  /\ DOMAIN Called(r, k, c) = Fields
         /\ Called(r, k, c).made = k.made + 1
         /\ IsSeq(Called(r, k, c).stream)
         /\ OnlyReduces(Called(r, k, c).stream) = CallReduces[c]
<1> DEFINE now == [k EXCEPT !.made = @ + 1, !.said = {}]
<1>1. DOMAIN now = Fields /\ now.made = k.made + 1 /\ now.stream = <<>>
  BY DEF Fields
<1>2. c[1] \in {"prefill", "decode", "reset"} /\ c[3] \in Nat
  BY CallIs
<1>3. CASE c[1] = "prefill"
  <2> DEFINE text == Text(k, c[2], c[3])
             zeros == [i \in 1 .. c[3] |-> 0]
  <2>1. Len(text) = c[3] /\ Len(zeros) = c[3]
    BY <1>2 DEF Text
  <2> HIDE DEF text, zeros
  <2>2. Same(PrefillWork(c[2], text), PrefillWork(1, zeros))
    BY <1>2, <2>1, SamePrefill
  <2>3. OnlyReduces(PrefillWork(c[2], text)) = CallReduces[c]
    BY <1>3, <2>2, SameReduces DEF CallReduces, zeros
  <2>4. Called(r, k, c) = [now EXCEPT !.stream = PrefillWork(c[2], text)]
    BY <1>3 DEF Called, text
  <2> HIDE DEF now
  <2>5. /\ DOMAIN Called(r, k, c) = Fields
        /\ Called(r, k, c).made = k.made + 1
        /\ Called(r, k, c).stream = PrefillWork(c[2], text)
    BY <1>1, <2>4 DEF Fields
  <2> QED
    BY <2>2, <2>3, <2>5 DEF Same
<1>4. CASE c[1] = "decode"
  <2> DEFINE seeds == Seeds(k, c[4])
             d == DecodeCalled(r, now, seeds, c[3])
  <2>1. Called(r, k, c) = d
    BY <1>4 DEF Called
  <2> HIDE DEF now, seeds
  <2>2. PICK head :
          /\ DOMAIN d = Fields /\ d.made = k.made + 1
          /\ d.stream = DecodeWork(r, c[3], head) \o Item("ids", c[3], seeds)
    BY <1>1 DEF DecodeCalled, Fields
  <2>3. Same(DecodeWork(r, c[3], head) \o Item("ids", c[3], seeds),
             DecodeWork(1, c[3], 0) \o Item("ids", c[3], <<>>))
    <3>1. Same(DecodeWork(r, c[3], head), DecodeWork(1, c[3], 0))
      BY <1>2, SameDecode
    <3>2. Same(Item("ids", c[3], seeds), Item("ids", c[3], <<>>))
      BY SameItem
    <3> QED
      BY <3>1, <3>2, SameJoin
  <2>4. OnlyReduces(d.stream) = CallReduces[c]
    BY <1>4, <2>2, <2>3, SameReduces DEF CallReduces
  <2>5. IsSeq(d.stream)
    BY <2>2, <2>3 DEF Same
  <2> QED
    BY <2>1, <2>2, <2>4, <2>5
<1>5. CASE c[1] = "reset"
  <2>1. Called(r, k, c) = [now EXCEPT !.pos[c[2]] = 0, !.known = <<>>, !.fed[c[2]] = <<>>]
    BY <1>5 DEF Called
  <2> HIDE DEF now
  <2>2. DOMAIN Called(r, k, c) = Fields /\ Called(r, k, c).made = k.made + 1
        /\ Called(r, k, c).stream = <<>>
    BY <1>1, <2>1 DEF Fields
  <2>3. CallReduces[c] = <<>>
    BY <1>5 DEF CallReduces
  <2> QED
    BY <2>2, <2>3, NoReduces, NoneIs
<1> QED
  BY <1>2, <1>3, <1>4, <1>5

\* An item of the stream changes neither the stream nor the calls made.
LEMMA DoneIs ==
  ASSUME NEW k, DOMAIN k = Fields, NEW item
  PROVE  /\ DOMAIN DoneItem(k, item) = Fields
         /\ DoneItem(k, item).made = k.made
         /\ DoneItem(k, item).stream = k.stream
<1>1. CASE item.do = "upload"
  BY <1>1 DEF DoneItem, Uploaded, Fields
<1>2. CASE item.do = "ids"
  BY <1>2 DEF DoneItem, IdsRead, Fields
<1>3. CASE item.do \notin {"upload", "ids"}
  <2> DEFINE after == Launch(k.recipes[item.do], Bound(k, item), Seen(k, item))
  <2>1. DoneItem(k, item) = Launched(k, item, after)
    BY <1>3 DEF DoneItem
  <2> HIDE DEF after
  <2>2. /\ DOMAIN Launched(k, item, after) = Fields
        /\ Launched(k, item, after).made = k.made
        /\ Launched(k, item, after).stream = k.stream
    <3>1. CASE item.do = "a_pre"
      BY <3>1 DEF Launched, Fields
    <3>2. CASE item.do = "head_pre"
      BY <3>2 DEF Launched, PrefillRead, Fields
    <3>3. CASE item.do \notin {"a_pre", "head_pre"}
      BY <3>3 DEF Launched, Fields
    <3> QED
      BY <3>1, <3>2, <3>3
  <2> QED
    BY <2>1, <2>2
<1> QED
  BY <1>1, <1>2, <1>3

-----------------------------------------------------------------------------
(* The invariant.                                                          *)

LEMMA LineUpInit == TpInit => LineUpInv
<1> SUFFICES ASSUME TpInit PROVE LineUpInv
  OBVIOUS
<1>1. job \in Jobs /\ script = <<>> /\ DOMAIN rank = Ranks
  BY DEF TpInit
<1>2. \A r \in Ranks : DOMAIN rank[r] = Fields /\ rank[r].made = 0 /\ rank[r].stream = <<>>
  BY DEF TpInit, Fields
<1>3. RanksInv
  BY <1>1, <1>2, NoneIs DEF RanksInv
<1>4. ReducesLineUp /\ AheadInv
  BY <1>2 DEF ReducesLineUp, AheadInv, Reduces
<1> QED
  BY <1>3, <1>4 DEF LineUpInv

\* A rank makes call c, the script's next for it, for which the script may
\* have been extended.
LEMMA CallStep ==
  ASSUME LineUpInv, NEW r \in Ranks, NEW c \in Calls(job), rank[r].stream = <<>>,
         rank' = [rank EXCEPT ![r] = Called(r, rank[r], c)], job' = job,
         script' \in Seq(Calls(job)), Len(script') >= Len(script),
         \A k \in 1 .. Len(script) : script'[k] = script[k],
         rank[r].made + 1 <= Len(script'), script'[rank[r].made + 1] = c
  PROVE  LineUpInv'
<1>1. /\ job \in Jobs /\ script \in Seq(Calls(job)) /\ DOMAIN rank = Ranks
      /\ \A o \in Ranks : DOMAIN rank[o] = Fields /\ rank[o].made \in 0..Len(script)
                          /\ IsSeq(rank[o].stream)
  BY DEF LineUpInv, RanksInv
<1> DEFINE m == rank[r].made
<1>2. m \in 0 .. Len(script) /\ Len(script) \in Nat /\ Len(script') \in Nat
  BY <1>1
<1>3. /\ DOMAIN Called(r, rank[r], c) = Fields
      /\ Called(r, rank[r], c).made = m + 1
      /\ IsSeq(Called(r, rank[r], c).stream)
      /\ OnlyReduces(Called(r, rank[r], c).stream) = CallReduces[c]
  BY <1>1, <1>2, CalledIs
<1>4. /\ DOMAIN rank' = Ranks /\ Ranks' = Ranks
      /\ rank'[r] = Called(r, rank[r], c)
      /\ \A o \in Ranks \ {r} : rank'[o] = rank[o]
  BY <1>1 DEF Ranks
<1>5. /\ rank'[r].made = m + 1 /\ Reduces(r)' = CallReduces[c] /\ Reduces(r) = <<>>
      /\ \A o \in Ranks \ {r} : rank'[o].made = rank[o].made /\ Reduces(o)' = Reduces(o)
  BY <1>3, <1>4, NoReduces DEF Reduces
<1>6. RanksInv'
  <2>1. ASSUME NEW o \in Ranks
        PROVE  DOMAIN rank'[o] = Fields /\ rank'[o].made \in 0..Len(script') /\ IsSeq(rank'[o].stream)
    <3>1. CASE o = r
      BY <1>2, <1>3, <1>4, <3>1
    <3>2. CASE o # r
      BY <1>1, <1>2, <1>4, <3>2
    <3> QED
      BY <3>1, <3>2
  <2> QED
    BY <1>1, <1>4, <2>1 DEF RanksInv
<1>7. \A o \in Ranks : rank[o].made \in Nat /\ rank[o].made <= Len(script)
  BY <1>1, <1>2
\* Whoever is behind r, or level with it, has nothing left to reduce.
<1>8. \A o \in Ranks : rank[o].made <= m => Reduces(o) = <<>>
  BY <1>2, <1>5, <1>7 DEF LineUpInv, ReducesLineUp
\* Whoever is ahead of r has all of its call left; the next of them that is
\* the call r makes.
<1>9. ASSUME NEW o \in Ranks, rank[o].made > m
      PROVE  /\ Reduces(o) = CallReduces[script[rank[o].made]]
             /\ \A k \in m + 1 .. rank[o].made - 1 : CallReduces[script[k]] = <<>>
             /\ script[m + 1] = c
  <2>1. /\ Reduces(o) = CallReduces[script[rank[o].made]]
        /\ \A k \in m + 1 .. rank[o].made - 1 : CallReduces[script[k]] = <<>>
    BY <1>9 DEF LineUpInv, AheadInv
  <2>2. m + 1 \in 1 .. Len(script)
    BY <1>2, <1>7, <1>9
  <2> QED
    BY <2>1, <2>2
<1>10. ReducesLineUp'
  <2> SUFFICES ASSUME NEW p \in Ranks, NEW o \in Ranks
               PROVE  /\ rank'[p].made = rank'[o].made => Reduces(p)' = Reduces(o)'
                      /\ rank'[p].made > rank'[o].made => Reduces(o)' = <<>>
    BY <1>4 DEF ReducesLineUp
  <2>1. CASE p = r /\ o = r
    BY <1>2, <1>5, <2>1
  <2>2. CASE p # r /\ o # r
    BY <1>5, <2>2 DEF LineUpInv, ReducesLineUp
  <2>3. CASE p = r /\ o # r
    <3>1. rank[o].made = m + 1 => Reduces(o) = CallReduces[c]
      BY <1>2, <1>9
    <3>2. m + 1 > rank[o].made => Reduces(o) = <<>>
      BY <1>2, <1>7, <1>8
    <3> QED
      BY <1>5, <2>3, <3>1, <3>2
  <2>4. CASE p # r /\ o = r
    <3>1. rank[p].made = m + 1 => Reduces(p) = CallReduces[c]
      BY <1>2, <1>9
    <3>2. rank[p].made > m + 1 => CallReduces[c] = <<>>
      <4> SUFFICES ASSUME rank[p].made > m + 1 PROVE CallReduces[c] = <<>>
        OBVIOUS
      <4>1. m + 1 \in m + 1 .. rank[p].made - 1 /\ rank[p].made > m
        BY <1>2, <1>7
      <4> QED
        BY <1>9, <4>1
    <3> QED
      BY <1>5, <2>4, <3>1, <3>2
  <2> QED
    BY <2>1, <2>2, <2>3, <2>4
<1>11. CallReduces' = CallReduces
  BY DEF CallReduces, Calls, PrefillWork, DecodeWork, Layers
<1>12. AheadInv'
  <2> SUFFICES ASSUME NEW p \in Ranks, NEW o \in Ranks, rank'[p].made > rank'[o].made
               PROVE  /\ Reduces(p)' = CallReduces[script'[rank'[p].made]]
                      /\ \A k \in rank'[o].made + 1 .. rank'[p].made - 1 : CallReduces[script'[k]] = <<>>
    BY <1>4, <1>11 DEF AheadInv
  <2>1. CASE p = r
    <3>1. o # r /\ m + 1 > rank[o].made
      BY <1>2, <1>5, <2>1
    <3>2. ASSUME NEW k \in rank[o].made + 1 .. m PROVE CallReduces[script'[k]] = <<>>
      <4>1. k \in 1 .. Len(script) /\ script'[k] = script[k] /\ m > rank[o].made
        BY <1>2, <1>7
      <4>2. CASE k = m
        BY <1>5, <4>1, <4>2 DEF LineUpInv, AheadInv
      <4>3. CASE k # m
        <5>1. k \in rank[o].made + 1 .. m - 1
          BY <1>2, <1>7, <4>3
        <5> QED
          BY <4>1, <5>1 DEF LineUpInv, AheadInv
      <4> QED
        BY <4>2, <4>3
    <3>3. (m + 1) - 1 = m
      BY <1>2
    <3> QED
      BY <1>5, <2>1, <3>1, <3>2, <3>3
  <2>2. CASE o = r /\ p # r
    <3>1. rank[p].made > m + 1 /\ rank[p].made > m /\ rank'[p].made = rank[p].made
      BY <1>2, <1>5, <1>7, <2>2
    <3>2. rank[p].made \in 1 .. Len(script)
      BY <1>2, <1>7, <3>1
    <3>3. Reduces(p)' = CallReduces[script'[rank[p].made]]
      BY <1>5, <1>9, <2>2, <3>1, <3>2
    <3>4. ASSUME NEW k \in (m + 1) + 1 .. rank[p].made - 1 PROVE CallReduces[script'[k]] = <<>>
      <4>1. k \in m + 1 .. rank[p].made - 1 /\ k \in 1 .. Len(script)
        BY <1>2, <1>7
      <4> QED
        BY <1>9, <3>1, <4>1
    <3> QED
      BY <1>5, <2>2, <3>1, <3>3, <3>4
  <2>3. CASE p # r /\ o # r
    <3>1. rank'[p].made = rank[p].made /\ rank'[o].made = rank[o].made /\ Reduces(p)' = Reduces(p)
      BY <1>5, <2>3
    <3>2. rank[p].made \in 1 .. Len(script) /\ rank[p].made > rank[o].made
      BY <1>2, <1>7, <3>1
    <3>3. \A k \in rank[o].made + 1 .. rank[p].made - 1 : k \in 1 .. Len(script)
      BY <1>2, <1>7
    <3> QED
      BY <3>1, <3>2, <3>3 DEF LineUpInv, AheadInv
  <2> QED
    BY <2>1, <2>2, <2>3
<1> QED
  BY <1>6, <1>10, <1>12 DEF LineUpInv

\* The stream of r runs on by an item that is not an all-reduce.
LEMMA RunStep ==
  ASSUME LineUpInv, NEW r \in Ranks, Run(r)
  PROVE  LineUpInv'
<1>1. /\ job \in Jobs /\ script \in Seq(Calls(job)) /\ DOMAIN rank = Ranks
      /\ \A o \in Ranks : DOMAIN rank[o] = Fields /\ rank[o].made \in 0..Len(script)
                          /\ IsSeq(rank[o].stream)
  BY DEF LineUpInv, RanksInv
<1>2. /\ rank[r].stream # <<>> /\ rank[r].stream[1].do # "reduce"
      /\ job' = job /\ script' = script
  BY DEF Run, AtReduce
<1> DEFINE after == DoneItem(rank[r], rank[r].stream[1])
<1>3. rank' = [rank EXCEPT ![r] = [after EXCEPT !.stream = Tail(@)]]
  BY DEF Run
<1>4. DOMAIN after = Fields /\ after.made = rank[r].made /\ after.stream = rank[r].stream
  BY <1>1, DoneIs
<1> HIDE DEF after
<1>5. /\ DOMAIN rank' = Ranks /\ Ranks' = Ranks
      /\ DOMAIN rank'[r] = Fields /\ rank'[r].made = rank[r].made
      /\ rank'[r].stream = Tail(rank[r].stream)
      /\ \A o \in Ranks \ {r} : rank'[o] = rank[o]
  BY <1>1, <1>2, <1>3, <1>4 DEF Ranks, Fields
<1>6. IsSeq(Tail(rank[r].stream)) /\ OnlyReduces(Tail(rank[r].stream)) = OnlyReduces(rank[r].stream)
  BY <1>1, <1>2, TailIs, TailReduces
<1>7. \A o \in Ranks : rank'[o].made = rank[o].made /\ Reduces(o)' = Reduces(o)
  BY <1>5, <1>6 DEF Reduces
<1>8. CallReduces' = CallReduces
  BY <1>2 DEF CallReduces, Calls, PrefillWork, DecodeWork, Layers
<1>9. RanksInv'
  BY <1>1, <1>2, <1>5, <1>6 DEF RanksInv
<1>10. ReducesLineUp'
  BY <1>5, <1>7 DEF LineUpInv, ReducesLineUp
<1>11. AheadInv'
  BY <1>2, <1>5, <1>7, <1>8 DEF LineUpInv, AheadInv
<1> QED
  BY <1>9, <1>10, <1>11 DEF LineUpInv

\* Every stream is at an all-reduce: nobody is ahead.
LEMMA AllReduceStep ==
  ASSUME LineUpInv, AllReduce
  PROVE  LineUpInv'
<1>1. /\ job \in Jobs /\ script \in Seq(Calls(job)) /\ DOMAIN rank = Ranks
      /\ \A o \in Ranks : DOMAIN rank[o] = Fields /\ rank[o].made \in 0..Len(script)
                          /\ IsSeq(rank[o].stream)
  BY DEF LineUpInv, RanksInv
<1>2. /\ job' = job /\ script' = script /\ Ranks' = Ranks
      /\ \A r \in Ranks : rank[r].stream # <<>> /\ rank[r].stream[1].do = "reduce"
  BY DEF AllReduce, AtReduce, Ranks
<1>3. PICK sum : rank' = [r \in Ranks |->
                            [rank[r] EXCEPT !.mem[rank[r].stream[1].arg] = sum, !.stream = Tail(@)]]
  BY DEF AllReduce
<1>4. /\ DOMAIN rank' = Ranks
      /\ \A r \in Ranks : /\ DOMAIN rank'[r] = Fields /\ rank'[r].made = rank[r].made
                          /\ rank'[r].stream = Tail(rank[r].stream)
  BY <1>1, <1>3 DEF Fields
<1>5. \A r \in Ranks :
        /\ Reduces(r) = <<rank[r].stream[1]>> \o Reduces(r)'
        /\ IsSeq(Reduces(r)') /\ IsSeq(rank'[r].stream)
  <2> SUFFICES ASSUME NEW r \in Ranks
               PROVE  /\ Reduces(r) = <<rank[r].stream[1]>> \o Reduces(r)'
                      /\ IsSeq(Reduces(r)') /\ IsSeq(rank'[r].stream)
    OBVIOUS
  <2>1. /\ OnlyReduces(rank[r].stream) = <<rank[r].stream[1]>> \o OnlyReduces(Tail(rank[r].stream))
        /\ IsSeq(OnlyReduces(Tail(rank[r].stream))) /\ IsSeq(Tail(rank[r].stream))
    BY <1>1, <1>2, TailReduces, TailIs
  <2> QED
    BY <1>4, <2>1 DEF Reduces
<1>6. \A r \in Ranks : Reduces(r) # <<>> /\ Reduces(r)' = Tail(Reduces(r))
  <2> SUFFICES ASSUME NEW r \in Ranks PROVE Reduces(r) # <<>> /\ Reduces(r)' = Tail(Reduces(r))
    OBVIOUS
  <2> DEFINE x == rank[r].stream[1]
             s == Reduces(r)'
             X == {s[k] : k \in DOMAIN s} \cup {x}
  <2>1. Reduces(r) = <<x>> \o s /\ IsSeq(s)
    BY <1>5
  <2> HIDE DEF s, x
  <2>2. s \in Seq(X) /\ x \in X
    BY <2>1 DEF IsSeq
  <2> HIDE DEF X
  <2>3. Reduces(r) # <<>> /\ s = Tail(Reduces(r))
    BY <2>1, <2>2
  <2> QED
    BY <2>3 DEF s
<1>7. \A r, o \in Ranks : rank[r].made = rank[o].made /\ Reduces(r) = Reduces(o)
  <2> SUFFICES ASSUME NEW r \in Ranks, NEW o \in Ranks
               PROVE  rank[r].made = rank[o].made /\ Reduces(r) = Reduces(o)
    OBVIOUS
  <2>1. ~ rank[r].made > rank[o].made /\ ~ rank[o].made > rank[r].made
    BY <1>6 DEF LineUpInv, ReducesLineUp
  <2>2. rank[r].made \in Nat /\ rank[o].made \in Nat
    BY <1>1
  <2>3. rank[r].made = rank[o].made
    BY <2>1, <2>2
  <2> QED
    BY <2>3 DEF LineUpInv, ReducesLineUp
<1>8. RanksInv'
  BY <1>1, <1>2, <1>4, <1>5 DEF RanksInv
<1>9. \A r, o \in Ranks : rank'[r].made = rank'[o].made /\ Reduces(r)' = Reduces(o)'
  <2> SUFFICES ASSUME NEW r \in Ranks, NEW o \in Ranks
               PROVE  rank'[r].made = rank'[o].made /\ Reduces(r)' = Reduces(o)'
    OBVIOUS
  <2>1. Reduces(r)' = Tail(Reduces(r)) /\ Reduces(o)' = Tail(Reduces(o)) /\ Reduces(r) = Reduces(o)
    BY <1>6, <1>7
  <2>2. rank'[r].made = rank[r].made /\ rank'[o].made = rank[o].made /\ rank[r].made = rank[o].made
    BY <1>4, <1>7
  <2> QED
    BY <2>1, <2>2
<1>10. ReducesLineUp' /\ AheadInv'
  <2>1. \A r \in Ranks : rank'[r].made \in Nat
    BY <1>1, <1>4
  <2> QED
    BY <1>2, <1>9, <2>1 DEF ReducesLineUp, AheadInv
<1> QED
  BY <1>8, <1>10 DEF LineUpInv

LEMMA CallKeeps ==
  ASSUME LineUpInv, NEW r \in Ranks, Call(r)
  PROVE  LineUpInv'
<1>1. /\ script \in Seq(Calls(job)) /\ rank[r].made \in 0 .. Len(script) /\ DOMAIN rank = Ranks
  BY DEF LineUpInv, RanksInv
<1>2. rank[r].stream = <<>> /\ job' = job
  BY DEF Call
<1>3. CASE rank[r].made < Len(script)
  <2> DEFINE c == script[rank[r].made + 1]
  <2>1. c \in Calls(job) /\ rank[r].made + 1 <= Len(script)
    BY <1>1, <1>3
  <2>2. rank' = [rank EXCEPT ![r] = Called(r, rank[r], c)] /\ script' = script
    BY <1>3 DEF Call
  <2>3. /\ script' \in Seq(Calls(job)) /\ Len(script') >= Len(script)
        /\ \A k \in 1 .. Len(script) : script'[k] = script[k]
        /\ rank[r].made + 1 <= Len(script') /\ script'[rank[r].made + 1] = c
    BY <1>1, <2>1, <2>2
  <2> HIDE DEF c
  <2> QED
    BY <1>2, <2>1, <2>2, <2>3, CallStep
<1>4. CASE ~ rank[r].made < Len(script)
  <2>1. PICK c \in Calls(job) :
          rank' = [rank EXCEPT ![r] = Called(r, rank[r], c)] /\ script' = Append(script, c)
    BY <1>4 DEF Call
  <2>2. /\ script' \in Seq(Calls(job)) /\ Len(script') >= Len(script)
        /\ \A k \in 1 .. Len(script) : script'[k] = script[k]
        /\ rank[r].made + 1 <= Len(script') /\ script'[rank[r].made + 1] = c
    BY <1>1, <1>4, <2>1
  <2> QED
    BY <1>2, <2>1, <2>2, CallStep
<1> QED
  BY <1>3, <1>4

LEMMA LineUpStays ==
  ASSUME LineUpInv, UNCHANGED tpVars
  PROVE  LineUpInv'
<1>1. job' = job /\ script' = script /\ rank' = rank /\ Ranks' = Ranks
  BY DEF tpVars, Ranks
<1>2. CallReduces' = CallReduces
  BY <1>1 DEF CallReduces, Calls, PrefillWork, DecodeWork, Layers
<1>3. \A r \in Ranks : Reduces(r)' = Reduces(r)
  BY <1>1 DEF Reduces
<1> QED
  BY <1>1, <1>2, <1>3 DEF LineUpInv, RanksInv, ReducesLineUp, AheadInv

\* LineUpInv holds in every reachable state: a rank ahead of another has all
\* of its call left to reduce.
THEOREM LineUpInvariant == TpSpec => []LineUpInv
<1>1. LineUpInv /\ [TpNext]_tpVars => LineUpInv'
  BY CallKeeps, RunStep, AllReduceStep, LineUpStays DEF TpNext, TpEnded
<1> QED
  BY <1>1, LineUpInit, PTL DEF TpSpec

\* The ranks' streams meet in the same all-reduces in the same order, in
\* whatever order the hosts make their calls and the streams run on.
THEOREM RanksMeet == TpSpec => []ReducesLineUp
<1>1. LineUpInv => ReducesLineUp
  BY DEF LineUpInv
<1> QED
  BY <1>1, LineUpInvariant, PTL
=============================================================================
