----------------------------- MODULE RankGroup ------------------------------
(***************************************************************************)
(* The life of one multi-card run: the coordinator of reng-tp, the worker  *)
(* process (one per card) it spawns for each rank, the watchdog thread of  *)
(* each worker, and the hand-shake directory they talk through             *)
(* (reng-synapse/src/hccl.rs and reng-model/src/bin/tp.rs).                *)
(*                                                                         *)
(* A rank is a process with two threads.  pc[r] is where its main thread   *)
(* is, watch[r] where its watchdog is; either can end the process.  The    *)
(* coordinator learns of an exit only by polling (status), and of          *)
(* everything else only through files.  Time is three deadlines that may   *)
(* pass at any moment once they are running (the set timers): the run's    *)
(* --timeout, the 30 s a failed peer leaves the others, and ABORT_GRACE.   *)
(***************************************************************************)
EXTENDS Integers

CONSTANTS
  N,            \* the number of ranks (modules of --modules)
  MaxAttempts,  \* max_attempts of coordinate()
  MayDie,       \* whether the coordinator may be killed or crash
  Ids           \* the id lists a rank may generate (only equality matters)

ASSUME NAssumption == N \in Nat \ {0}
ASSUME AttemptsAssumption == MaxAttempts \in Nat \ {0}
ASSUME MayDieAssumption == MayDie \in BOOLEAN
ASSUME IdsAssumption == Ids # {} /\ "none" \notin Ids

Rank == 0 .. N - 1

VARIABLES
  \* the coordinator process
  cpc,       \* where coordinate() is
  attempt,   \* the attempt number, 1 .. MaxAttempts
  csig,      \* SIGNALS of the coordinator: the signals it has caught
  timers,    \* the deadlines that have passed
  status,    \* Child.status: what the coordinator knows of each exit
  result,    \* how coordinate() ended
  \* the hand-shake directory of the current attempt
  dir,       \* "present", "kept" or "removed" once the group is dropped
  go,        \* the file go
  abort,     \* the file abort
  acquired,  \* the ranks whose file rank<r>.acquired exists
  refused,   \* the ranks whose file rank<r>.status exists
  idbin,     \* the file id.bin
  ids,       \* the contents of rank<r>.ids
  \* the ranks
  pc,        \* where the main thread is
  code,      \* the exit code it is leaving, or has left, with
  watch,     \* the watchdog thread
  seen,      \* whether the parent id the rank sampled was the coordinator's
  wsig,      \* the ranks that have caught a signal
  \* HCCL, outside the repository
  formed,    \* the communicator exists: every rank was in hcclCommInitRank
  enqueued   \* the ranks that have enqueued their whole run

coordVars == <<cpc, attempt, csig, status, result>>
fileVars  == <<dir, go, abort, acquired, refused, idbin, ids>>
rankVars  == <<pc, code, watch, seen, wsig>>
hcclVars  == <<formed, enqueued>>
vars == <<coordVars, timers, fileVars, rankVars, hcclVars>>

-----------------------------------------------------------------------------
(* Types.                                                                  *)

CoordPc == {"spawn", "acquire", "wait", "reap", "decide", "pause", "done", "dead"}

RankPc == {"absent", "start", "acquire", "acquired", "barrier", "wait_go",
           "no_go", "make_id", "enter_id", "wait_id", "no_id", "init",
           "stream", "setup", "gen", "last", "check", "teardown", "abort",
           "exited"}

\* 0; 2 (or a panic's 101); EXIT_ACQUIRE 75; EXIT_ABORTED 76; a signal (130,
\* or -1 for an uncaught one or SIGKILL); -9 for a rank the coordinator
\* killed.
ExitCode == {"ok", "error", "acquire", "aborted", "signal", "killed"}

Timer == {"run", "grace", "reap"}

\* Where a rank has passed the acquire barrier and is still running.
PastBarrier == {"make_id", "enter_id", "wait_id", "no_id", "init", "stream",
                "setup", "gen", "last", "check", "abort"}

\* Where a rank's process holds its card: the Card lives from the return of
\* Card::acquire until the process has left.
Holding == PastBarrier \cup {"acquired", "barrier", "wait_go", "no_go", "teardown"}

Alive == cpc \notin {"done", "dead"}
Interrupted == csig > 0
Spawned == {r \in Rank : pc[r] # "absent"}

\* Mutant: the loops stop at the first exit they learn of.
SomeReaped == \E r \in Spawned : status[r] # "none"
AllReaped == \A r \in Spawned : status[r] # "none"

PeerFailed == \E r \in Rank : status[r] \notin {"none", "ok"}

\* Mutant: a failed peer does not shorten the deadline, and it never passes.
WaitOverOnSignal == Interrupted
WaitOver == Interrupted \/ "run" \in timers \/ "grace" \in timers

\* Mutant: go is written for the first card acquired.
SomeAcquired == acquired # {}
AllAcquired == acquired = Rank

\* The parent id has changed since the rank sampled it.  A rank that sampled
\* it after the coordinator was gone sees the same reaper for ever.
Orphan(r) == seen[r] /\ ~Alive

\* Mutant: a rank counts the acquired files itself instead of waiting for go.
GoCounted == AllAcquired
GoSeen == go

\* What ends wait_for_go when there is no go: abort, orphaned, or --timeout.
\* The rank's own --timeout started after the coordinator's, so it has not
\* run out before the coordinator's has.
\* Mutant: the wait ends only on abort.
GoWaitOnAbort(r) == abort
GoWaitOver(r) == abort \/ Orphan(r) \/ "run" \in timers

\* What the watchdog leaves for.
\* Mutant: it polls the wrong file.
MustLeaveOnGo(r) == Orphan(r) \/ r \in wsig \/ go
MustLeave(r) == Orphan(r) \/ r \in wsig \/ abort

\* compare_ranks: every rank wrote ids, and the ids rank 0 wrote.
\* Mutant: only rank 0's ids are looked at.
Rank0Wrote == ids[0] # "none"
Agree == \A r \in Rank : ids[r] # "none" /\ ids[r] = ids[0]

\* Mutant: any failed attempt is tried again.
MayRelaunchAny ==
  /\ attempt < MaxAttempts
  /\ "run" \notin timers
MayRelaunch ==
  /\ attempt < MaxAttempts
  /\ "run" \notin timers
  /\ \A r \in Rank : status[r] \in {"acquire", "ok"}

TypeOK ==
  /\ cpc \in CoordPc
  /\ attempt \in 1 .. MaxAttempts
  /\ csig \in {0, 1}
  /\ timers \subseteq Timer
  /\ status \in [Rank -> ExitCode \cup {"none"}]
  /\ result \in {"none", "PASS", "FAIL", "error", "interrupted"}
  /\ dir \in {"present", "kept", "removed"}
  /\ go \in BOOLEAN
  /\ abort \in BOOLEAN
  /\ acquired \subseteq Rank
  /\ refused \subseteq Rank
  /\ idbin \in BOOLEAN
  /\ ids \in [Rank -> Ids \cup {"none"}]
  /\ pc \in [Rank -> RankPc]
  /\ code \in [Rank -> ExitCode \cup {"none"}]
  /\ watch \in [Rank -> {"off", "on", "abort"}]
  /\ seen \in [Rank -> BOOLEAN]
  /\ wsig \subseteq Rank
  /\ formed \in BOOLEAN
  /\ enqueued \subseteq Rank

Init ==
  /\ cpc = "spawn"
  /\ attempt = 1
  /\ csig = 0
  /\ timers = {}
  /\ status = [r \in Rank |-> "none"]
  /\ result = "none"
  /\ dir = "present"
  /\ go = FALSE
  /\ abort = FALSE
  /\ acquired = {}
  /\ refused = {}
  /\ idbin = FALSE
  /\ ids = [r \in Rank |-> "none"]
  /\ pc = [r \in Rank |-> "absent"]
  /\ code = [r \in Rank |-> "none"]
  /\ watch = [r \in Rank |-> "off"]
  /\ seen = [r \in Rank |-> FALSE]
  /\ wsig = {}
  /\ formed = FALSE
  /\ enqueued = {}

-----------------------------------------------------------------------------
(* Steps of a rank's main thread.  A step that prints panics when the      *)
(* coordinator, which reads the other end of the pipe, is gone: the panic  *)
(* unwinds through the orderly teardown.                                   *)

To(r, next) ==
  /\ pc' = [pc EXCEPT ![r] = next]
  /\ UNCHANGED <<code, watch, seen, wsig>>

\* Unwind through the destructors (Drop for Comm, Drop for Card).
Leave(r, c) ==
  /\ pc' = [pc EXCEPT ![r] = "teardown"]
  /\ code' = [code EXCEPT ![r] = c]
  /\ UNCHANGED <<watch, seen, wsig>>

\* The process is gone and the driver has the card back.  That it had caught
\* a signal is remembered if that may be why its watchdog ended it.
Gone(r, c) ==
  /\ pc' = [pc EXCEPT ![r] = "exited"]
  /\ code' = [code EXCEPT ![r] = c]
  /\ watch' = [watch EXCEPT ![r] = "off"]
  /\ wsig' = IF c = "aborted" THEN wsig ELSE wsig \ {r}
  /\ UNCHANGED seen

PrintThenTo(r, next) == IF Alive THEN To(r, next) ELSE Leave(r, "error")

\* abort_and_die(2) on the main thread, after a println.
AbortAndDie(r) ==
  IF Alive
    THEN /\ pc' = [pc EXCEPT ![r] = "abort"]
         /\ code' = [code EXCEPT ![r] = "error"]
         /\ UNCHANGED <<watch, seen, wsig>>
    ELSE Leave(r, "error")

\* worker() up to Rank::join: catch_signals, then the reference file, which
\* may not load (exit code 2, no card taken).
Start(r) ==
  /\ pc[r] = "start"
  /\ To(r, "acquire") \/ Gone(r, "error")
  /\ UNCHANGED <<coordVars, timers, fileVars, hcclVars>>

\* Card::acquire succeeds.
AcquireOk(r) ==
  /\ pc[r] = "acquire"
  /\ To(r, "acquired")
  /\ UNCHANGED <<coordVars, timers, fileVars, hcclVars>>

\* Card::acquire fails (another process has the card): rank<r>.status is
\* written and the worker leaves with EXIT_ACQUIRE.
AcquireFails(r) ==
  /\ pc[r] = "acquire"
  /\ refused' = refused \cup {r}
  /\ Gone(r, "acquire")
  /\ UNCHANGED <<coordVars, timers, dir, go, abort, acquired, idbin, ids, hcclVars>>

\* The line that names the card, then rank<r>.acquired; a write that fails
\* is an error that is not an acquire error.
Announce(r) ==
  /\ pc[r] = "acquired"
  /\ \/ /\ Alive
        /\ acquired' = acquired \cup {r}
        /\ To(r, "barrier")
     \/ /\ Leave(r, "error")
        /\ UNCHANGED acquired
  /\ UNCHANGED <<coordVars, timers, dir, go, abort, refused, idbin, ids, hcclVars>>

\* The parent id wait_for_go compares with is sampled here, after the acquire.
EnterGoWait(r) ==
  /\ pc[r] = "barrier"
  /\ pc' = [pc EXCEPT ![r] = "wait_go"]
  /\ seen' = [seen EXCEPT ![r] = Alive]
  /\ UNCHANGED <<coordVars, timers, fileVars, code, watch, wsig, hcclVars>>

\* wait_for_go looks for go first, and for everything else only after it has
\* not found it; what it then does is decided on that look, however old.
LookForGo(r) ==
  /\ pc[r] = "wait_go"
  /\ To(r, IF ~GoSeen THEN "no_go"
           ELSE IF N = 1 THEN "stream" ELSE IF r = 0 THEN "make_id" ELSE "enter_id")
  /\ UNCHANGED <<coordVars, timers, fileVars, hcclVars>>

NoGo(r) ==
  /\ pc[r] = "no_go"
  /\ IF GoWaitOver(r) THEN Leave(r, "acquire") ELSE To(r, "wait_go")
  /\ UNCHANGED <<coordVars, timers, fileVars, hcclVars>>

\* Rank 0 creates the unique id and renames it into place.
MakeId(r) ==
  /\ pc[r] = "make_id"
  /\ \/ idbin' = TRUE /\ To(r, "init")
     \/ UNCHANGED idbin /\ Leave(r, "error")
  /\ UNCHANGED <<coordVars, timers, dir, go, abort, acquired, refused, ids, hcclVars>>

\* The others sample the parent id again for wait_for_id.
EnterIdWait(r) ==
  /\ pc[r] = "enter_id"
  /\ pc' = [pc EXCEPT ![r] = "wait_id"]
  /\ seen' = [seen EXCEPT ![r] = Alive]
  /\ UNCHANGED <<coordVars, timers, fileVars, code, watch, wsig, hcclVars>>

\* wait_for_id looks for a whole id first.
LookForId(r) ==
  /\ pc[r] = "wait_id"
  /\ To(r, IF idbin THEN "init" ELSE "no_id")
  /\ UNCHANGED <<coordVars, timers, fileVars, hcclVars>>

\* Without one it gives up on abort, orphaned, or its cap, which is at most
\* 180 s and may run out at any moment of the run; otherwise it looks again.
GiveUpId(r) ==
  /\ pc[r] = "no_id"
  /\ Leave(r, "error")
  /\ UNCHANGED <<coordVars, timers, fileVars, hcclVars>>

LookAgain(r) ==
  /\ pc[r] = "no_id"
  /\ ~abort /\ ~Orphan(r)
  /\ To(r, "wait_id")
  /\ UNCHANGED <<coordVars, timers, fileVars, hcclVars>>

\* hcclCommInitRank returns once every rank has called it; the line that
\* reports the communicator follows.
InitReturns(r) ==
  /\ pc[r] = "init"
  /\ formed \/ \A q \in Rank : pc[q] = "init"
  /\ formed' = TRUE
  /\ PrintThenTo(r, "stream")
  /\ UNCHANGED <<coordVars, timers, fileVars, enqueued>>

\* hcclCommInitRank fails (a port is down, a socket error).
InitFails(r) ==
  /\ pc[r] = "init"
  /\ Leave(r, "error")
  /\ UNCHANGED <<coordVars, timers, fileVars, hcclVars>>

\* create_stream, then watch_coordinator samples the parent id a last time
\* and starts the watchdog.
StartWatch(r) ==
  /\ pc[r] = "stream"
  /\ \/ /\ pc' = [pc EXCEPT ![r] = "setup"]
        /\ seen' = [seen EXCEPT ![r] = Alive]
        /\ watch' = [watch EXCEPT ![r] = "on"]
        /\ UNCHANGED <<code, wsig>>
     \/ Leave(r, "error")
  /\ UNCHANGED <<coordVars, timers, fileVars, hcclVars>>

\* Weights, recipes and the shard on the card; an error or a failed assert
\* unwinds through the orderly teardown.
Setup(r) ==
  /\ pc[r] = "setup"
  /\ PrintThenTo(r, "gen") \/ Leave(r, "error")
  /\ UNCHANGED <<coordVars, timers, fileVars, hcclVars>>

\* generate_and_check enqueues every launch and collective of the run.
Enqueue(r) ==
  /\ pc[r] = "gen"
  /\ enqueued' = enqueued \cup {r}
  /\ To(r, "last")
  /\ UNCHANGED <<coordVars, timers, fileVars, formed>>

\* The last read-back lands: every peer took part in the last all-reduce.
\* The ids are printed and rank<r>.ids is written, before any check of them.
WriteIds(r, v) ==
  /\ pc[r] = "last"
  /\ enqueued = Rank
  /\ IF Alive THEN ids' = [ids EXCEPT ![r] = v] ELSE UNCHANGED ids
  /\ PrintThenTo(r, "check")
  /\ UNCHANGED <<coordVars, timers, dir, go, abort, acquired, refused, idbin, hcclVars>>

\* An error of a launch, or a read-back that does not land in its 30 s.
GenerateFails(r) ==
  /\ pc[r] \in {"gen", "last"}
  /\ AbortAndDie(r)
  /\ UNCHANGED <<coordVars, timers, fileVars, hcclVars>>

\* The rest of generate_and_check: same ids in every sequence, the bench,
\* no divergence from the reference.
Check(r) ==
  /\ pc[r] = "check"
  /\ Leave(r, "ok") \/ AbortAndDie(r)
  /\ UNCHANGED <<coordVars, timers, fileVars, hcclVars>>

\* The destructors have run, or hcclCommAbort has returned or used up its
\* ABORT_GRACE: the process leaves with the code it chose.
Exit(r) ==
  /\ pc[r] \in {"teardown", "abort"}
  /\ Gone(r, code[r])
  /\ UNCHANGED <<coordVars, timers, fileVars, hcclVars>>

RankOwnStep(r) ==
  \/ Start(r) \/ AcquireOk(r) \/ AcquireFails(r) \/ Announce(r)
  \/ EnterGoWait(r) \/ LookForGo(r) \/ NoGo(r)
  \/ MakeId(r) \/ EnterIdWait(r) \/ LookForId(r) \/ GiveUpId(r) \/ LookAgain(r)
  \/ InitReturns(r) \/ StartWatch(r) \/ Setup(r)
  \/ Enqueue(r) \/ (\E v \in Ids : WriteIds(r, v)) \/ GenerateFails(r)
  \/ Check(r) \/ Exit(r)

-----------------------------------------------------------------------------
(* The watchdog thread of a rank.  The main thread runs on beside it.      *)

WatchFires(r) ==
  /\ watch[r] = "on"
  /\ MustLeave(r)
  /\ watch' = [watch EXCEPT ![r] = "abort"]
  /\ UNCHANGED <<coordVars, timers, fileVars, pc, code, seen, wsig, hcclVars>>

\* abort_and_die(EXIT_ABORTED): hcclCommAbort, bounded by its own deadline
\* thread, then _exit.
WatchLeaves(r) ==
  /\ watch[r] = "abort"
  /\ Gone(r, "aborted")
  /\ UNCHANGED <<coordVars, timers, fileVars, hcclVars>>

WatchStep(r) == WatchFires(r) \/ WatchLeaves(r)

-----------------------------------------------------------------------------
(* The coordinator.                                                        *)

\* Group::spawn starts the next rank; after the last one comes wait_acquired.
Spawn(r) ==
  /\ cpc = "spawn"
  /\ pc[r] = "absent"
  /\ \A q \in Rank : q < r => pc[q] # "absent"
  /\ pc' = [pc EXCEPT ![r] = "start"]
  /\ cpc' = IF r = N - 1 THEN "acquire" ELSE "spawn"
  /\ UNCHANGED <<attempt, csig, timers, status, result, fileVars, code, watch, seen, wsig, hcclVars>>

\* The next child cannot be spawned: the half-built Group is dropped, which
\* aborts and reaps the ranks that are running.
SpawnFails ==
  /\ cpc = "spawn"
  /\ result' = "error"
  /\ IF \A r \in Spawned : pc[r] = "exited"
       THEN /\ status' = [r \in Rank |-> code[r]]
            /\ cpc' = "decide"
            /\ UNCHANGED abort
       ELSE /\ abort' = TRUE
            /\ cpc' = "reap"
            /\ UNCHANGED status
  /\ UNCHANGED <<attempt, csig, timers, dir, go, acquired, refused, idbin, ids, rankVars, hcclVars>>

\* Child::poll: try_wait on one child.  The kill loop of abort_and_reap no
\* longer polls.
Poll(r) ==
  /\ cpc \in {"acquire", "wait", "reap"}
  /\ ~(cpc = "reap" /\ "reap" \in timers)
  /\ pc[r] = "exited"
  /\ status[r] = "none"
  /\ status' = [status EXCEPT ![r] = code[r]]
  /\ UNCHANGED <<cpc, attempt, csig, timers, result, fileVars, rankVars, hcclVars>>

\* wait_acquired counts rank<r>.acquired for every rank: go.  The count comes
\* before the look at failures.
WriteGo ==
  /\ cpc = "acquire"
  /\ AllAcquired
  /\ go' = TRUE
  /\ cpc' = "wait"
  /\ UNCHANGED <<attempt, csig, timers, status, result, dir, abort, acquired, refused, idbin, ids, rankVars, hcclVars>>

\* wait_acquired sees a failed rank, a signal or the deadline: abort.  The
\* count that missed a rank may be older than that rank's file.
WriteAbort ==
  /\ cpc = "acquire"
  /\ refused # {} \/ (\E r \in Rank : status[r] # "none") \/ Interrupted \/ "run" \in timers
  /\ abort' = TRUE
  /\ cpc' = "wait"
  /\ UNCHANGED <<attempt, csig, timers, status, result, dir, go, acquired, refused, idbin, ids, rankVars, hcclVars>>

\* wait_all: every exit is known.
WaitDone ==
  /\ cpc = "wait"
  /\ AllReaped
  /\ cpc' = "decide"
  /\ UNCHANGED <<attempt, csig, timers, status, result, fileVars, rankVars, hcclVars>>

\* wait_all: a signal or its deadline; abort_and_reap begins.
WaitGivesUp ==
  /\ cpc = "wait"
  /\ WaitOver
  /\ abort' = TRUE
  /\ cpc' = "reap"
  /\ UNCHANGED <<attempt, csig, timers, status, result, dir, go, acquired, refused, idbin, ids, rankVars, hcclVars>>

\* abort_and_reap after ABORT_GRACE: kill one rank it knows no status of,
\* running or not, and reap it.
Kill(r) ==
  /\ cpc = "reap"
  /\ "reap" \in timers
  /\ r \in Spawned
  /\ status[r] = "none"
  /\ status' = [status EXCEPT ![r] = "killed"]
  /\ IF pc[r] = "exited" THEN UNCHANGED rankVars ELSE Gone(r, "killed")
  /\ UNCHANGED <<cpc, attempt, csig, timers, result, fileVars, hcclVars>>

ReapDone ==
  /\ cpc = "reap"
  /\ AllReaped
  /\ cpc' = "decide"
  /\ UNCHANGED <<attempt, csig, timers, status, result, fileVars, rankVars, hcclVars>>

\* Drop for Group once every rank is reaped: the directory is kept when a
\* rank failed other than by its acquire and nobody interrupted the run.
DropGroup ==
  dir' = IF ~Interrupted /\ (\E r \in Rank : status[r] \notin {"none", "ok", "acquire"})
           THEN "kept" ELSE "removed"

\* What a run that got go and passes every test ends with: FAIL still, when
\* rank 0's ids cannot be written to --out.
Verdict ==
  IF Interrupted THEN {"interrupted"}
  ELSE IF go /\ Agree /\ \A r \in Rank : status[r] = "ok" THEN {"PASS", "FAIL"}
  ELSE {"FAIL"}

\* The verdicts of coordinate(), in the order it tries them: a failed spawn,
\* then, for a group that never got go, interrupted or out of attempts (or
\* with less than the 60 s pause left), and for a group that ran, interrupted
\* or every exit code 0 and every rank's ids equal to rank 0's.
Decide ==
  /\ cpc = "decide"
  /\ \/ /\ result = "error"
        /\ UNCHANGED result
     \/ /\ result = "none"
        /\ result' \in Verdict
  /\ cpc' = "done"
  /\ DropGroup
  /\ UNCHANGED <<attempt, csig, timers, status, go, abort, acquired, refused, idbin, ids, rankVars, hcclVars>>

\* Every rank left with 75 or 0 before go: sleep 60 s, with the old group and
\* its directory still there.
Pause ==
  /\ cpc = "decide"
  /\ result = "none"
  /\ ~go
  /\ ~Interrupted
  /\ MayRelaunch
  /\ cpc' = "pause"
  /\ UNCHANGED <<attempt, csig, timers, status, result, fileVars, rankVars, hcclVars>>

\* The old group is dropped, and the next attempt has a directory (stale
\* ones are removed by prepare_dir) and processes of its own.
Relaunch ==
  /\ cpc = "pause"
  /\ cpc' = "spawn"
  /\ attempt' = attempt + 1
  /\ timers' = timers \cap {"run"}
  /\ status' = [r \in Rank |-> "none"]
  /\ dir' = "present"
  /\ go' = FALSE
  /\ abort' = FALSE
  /\ acquired' = {}
  /\ refused' = {}
  /\ idbin' = FALSE
  /\ ids' = [r \in Rank |-> "none"]
  /\ pc' = [r \in Rank |-> "absent"]
  /\ code' = [r \in Rank |-> "none"]
  /\ watch' = [r \in Rank |-> "off"]
  /\ seen' = [r \in Rank |-> FALSE]
  /\ wsig' = {}
  /\ formed' = FALSE
  /\ enqueued' = {}
  /\ UNCHANGED <<csig, result>>

CoordStep ==
  \/ (\E r \in Rank : Spawn(r) \/ Poll(r) \/ Kill(r))
  \/ WriteGo \/ WriteAbort \/ WaitDone \/ WaitGivesUp \/ ReapDone
  \/ Decide \/ Pause \/ Relaunch

-----------------------------------------------------------------------------
(* The world: deadlines pass, signals arrive, processes die.               *)

\* A deadline can pass only once it is running.
Expire(t) ==
  /\ t \notin timers
  /\ cpc # "done"
  /\ t = "grace" => cpc = "wait" /\ PeerFailed
  /\ t = "reap" => cpc = "reap"
  /\ timers' = timers \cup {t}
  /\ UNCHANGED <<coordVars, fileVars, rankVars, hcclVars>>

\* on_signal in the coordinator: the first is counted, the second is _exit.
Signalled ==
  /\ Alive
  /\ csig' = 1
  /\ cpc' = IF csig = 0 THEN cpc ELSE "dead"

\* kill -INT or -TERM of the coordinator alone.
SignalCoordinator ==
  /\ Signalled
  /\ UNCHANGED <<attempt, timers, status, result, fileVars, rankVars, hcclVars>>

\* on_signal in the workers among S.  One that has not installed its handler
\* dies of the signal, one that caught a signal before leaves with 130, and
\* the others only count it.
Live == {r \in Spawned : pc[r] # "exited"}
Caught(S) ==
  LET live  == S \cap Live
      fatal == {r \in live : pc[r] = "start" \/ r \in wsig}
  IN /\ pc' = [r \in Rank |-> IF r \in fatal THEN "exited" ELSE pc[r]]
     /\ code' = [r \in Rank |-> IF r \in fatal THEN "signal" ELSE code[r]]
     /\ watch' = [r \in Rank |-> IF r \in fatal THEN "off" ELSE watch[r]]
     /\ wsig' = (wsig \cup live) \ fatal
     /\ UNCHANGED seen

\* Ctrl-C: the terminal signals the whole process group.
CtrlC ==
  /\ Signalled
  /\ Caught(Rank)
  /\ UNCHANGED <<attempt, timers, status, result, fileVars, hcclVars>>

\* kill -INT or -TERM of one worker alone, whose coordinator may be gone.
SignalWorker(r) ==
  /\ r \in Live
  /\ Caught({r})
  /\ UNCHANGED <<coordVars, timers, fileVars, hcclVars>>

\* A worker is killed from outside, or crashes.
KillWorker(r) ==
  /\ r \in Live
  /\ Gone(r, "signal")
  /\ UNCHANGED <<coordVars, timers, fileVars, hcclVars>>

\* The coordinator is killed or crashes.
CoordinatorDies ==
  /\ MayDie
  /\ Alive
  /\ cpc' = "dead"
  /\ UNCHANGED <<attempt, csig, timers, status, result, fileVars, rankVars, hcclVars>>

\* The run is over: every process has gone.
Terminated ==
  /\ ~Alive
  /\ \A r \in Rank : pc[r] \in {"absent", "exited"}
  /\ UNCHANGED vars

Next ==
  \/ CoordStep
  \/ SpawnFails
  \/ \E r \in Rank : RankOwnStep(r) \/ InitFails(r) \/ WatchStep(r)
  \/ \E t \in Timer : Expire(t)
  \/ SignalCoordinator
  \/ CtrlC
  \/ \E r \in Rank : SignalWorker(r) \/ KillWorker(r)
  \/ CoordinatorDies
  \/ Terminated

\* Threads run and deadlines pass - the cap of wait_for_id too, which is the
\* strong fairness of GiveUpId: a rank does not look for an id for ever.
\* Nothing is assumed of failures, signals or the death of a process, and
\* hcclCommInitRank is only assumed to return when every rank is in it.
Fairness ==
  /\ WF_vars(CoordStep)
  /\ \A r \in Rank : WF_vars(RankOwnStep(r)) /\ SF_vars(GiveUpId(r)) /\ WF_vars(WatchStep(r))
  /\ \A t \in Timer : WF_vars(Expire(t))

Spec == Init /\ [][Next]_vars
FairSpec == Spec /\ Fairness

-----------------------------------------------------------------------------
(* Properties.                                                             *)

\* No rank is past the acquire barrier (creating or waiting for the id,
\* joining the communicator, generating) unless every rank of this attempt
\* has acquired its card: wait_acquired writes go, and wait_for_go lets a
\* rank past it, only then.
BarrierSafe ==
  \A r \in Rank : pc[r] \in PastBarrier => acquired = Rank

\* When coordinate() returns on its own, however the run ended, no process
\* it spawned is running or holds a card, and its hand-shake directory is
\* not pulled from under one (wait_all, abort_and_reap, Drop for Group).
LeavesNobodyBehind ==
  cpc = "done" \/ dir # "present" =>
    \A r \in Rank : pc[r] \in {"absent", "exited"}

\* PASS is printed only for an uninterrupted run in which every rank left
\* by itself with 0 and generated the ids rank 0 did: a rank killed,
\* aborted by its watchdog or failed after writing its ids never passes.
HonestVerdict ==
  result = "PASS" =>
    /\ csig = 0
    /\ \E v \in Ids : \A r \in Rank : code[r] = "ok" /\ ids[r] = v

\* A rank leaves with EXIT_ABORTED, past its own exit code and out of any
\* call, only once the group has got go, and only when the coordinator asked
\* the group to stop or went away, or the rank itself caught a signal, its
\* own or the terminal's: one that another process caught is no reason, nor
\* is a peer that left (watch_coordinator).
AbortedForAReason ==
  \A r \in Rank : code[r] = "aborted" => go /\ (abort \/ r \in wsig \/ ~Alive)

\* A group is relaunched only when every process of the last attempt has
\* gone with EXIT_ACQUIRE and none of them got past the barrier: two
\* attempts never hold cards at once, and a run that may have generated is
\* never run again.
RelaunchIsClean ==
  [][attempt' # attempt =>
       /\ ~go
       /\ enqueued = {}
       /\ \A r \in Rank : pc[r] = "exited" /\ code[r] = "acquire"]_vars

\* The hand-shake implements the abstract acquire barrier: one decision per
\* attempt, go only with every card, nobody in the run without go, and a new
\* attempt only after abort with everybody gone.
StageOf(p) ==
  CASE p \in {"absent", "start", "acquire", "acquired"} -> "before"
    [] p \in {"barrier", "wait_go", "no_go"} -> "ready"
    [] p \in PastBarrier -> "run"
    [] OTHER -> "gone"
Stage == [r \in Rank |-> StageOf(pc[r])]
Decision == IF go THEN "go" ELSE IF abort THEN "abort" ELSE "none"

Barrier == INSTANCE AcquireBarrier WITH
  announced <- acquired, decision <- Decision, place <- Stage

ImplementsBarrier == Barrier!Spec

\* Whatever the ranks do - a rank blocked in hcclCommInitRank by a peer that
\* left, a collective that never lands - the coordinator returns (or dies).
CoordinatorReturns == <>(cpc \in {"done", "dead"})

\* After the coordinator dies every rank gives its card back by itself,
\* except one that is in hcclCommInitRank, where nothing watches.
OrphansLeave ==
  ~Alive ~> \A r \in Rank : pc[r] \in Holding => pc[r] = "init"

-----------------------------------------------------------------------------
(* The inductive invariant: what ties the coordinator's stale view         *)
(* (status, the files) to what the ranks really did.                       *)

\* A rank's exit code is final, its watchdog goes with it, and a cause for
\* aborting never goes away within an attempt.
RankInv(r) ==
  /\ pc[r] \in PastBarrier => go
  /\ pc[r] \in {"absent", "exited"} => watch[r] = "off"
  /\ pc[r] = "absent" => code[r] = "none"
  /\ status[r] # "none" => pc[r] = "exited"
  /\ status[r] \in ExitCode \ {"killed"} => code[r] = status[r]
  /\ code[r] = "ok" => go
  /\ watch[r] # "off" => go
  /\ watch[r] = "abort" \/ code[r] = "aborted" => go /\ (abort \/ r \in wsig \/ ~Alive)

\* The decision is taken once and on every card; whatever is decided after
\* the reaping is decided on ranks that have gone.
CoordInv ==
  /\ go => acquired = Rank
  /\ enqueued # {} => go
  /\ cpc \in {"spawn", "acquire"} => ~go /\ ~abort
  /\ cpc \in {"wait", "reap", "decide", "pause"} => go \/ abort \/ result = "error"
  /\ cpc \in {"decide", "pause", "done"} => \A r \in Rank : pc[r] \in {"absent", "exited"}
  /\ cpc = "pause" => /\ ~go /\ result = "none" /\ attempt < MaxAttempts
                      /\ \A r \in Rank : status[r] \in {"acquire", "ok"}
  /\ dir # "present" => cpc = "done"
  /\ result \notin {"none", "error"} => cpc = "done"
  /\ result = "PASS" => csig = 0 /\ Agree /\ \A r \in Rank : status[r] = "ok"

IInv == TypeOK /\ CoordInv /\ \A r \in Rank : RankInv(r)

=============================================================================
