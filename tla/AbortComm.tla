----------------------------- MODULE AbortComm ------------------------------
(***************************************************************************)
(* The communicator handle of one worker process and the threads that end  *)
(* its life: the main thread, which drops Comm on its way out or calls     *)
(* abort_and_die, the watchdog, which calls abort_and_die, and the thread  *)
(* each abort_and_die starts to bound hcclCommAbort (hccl.rs).  RankGroup  *)
(* sees all of this as one step, from "teardown" or "abort" to "exited".   *)
(*                                                                         *)
(* The threads share one word, ABORT_COMM.  HCCL's own calls take time and *)
(* may not return: they are a step that begins and a step that ends them.  *)
(***************************************************************************)
VARIABLES
  slot,    \* ABORT_COMM holds the handle
  handle,  \* the communicator: "none", "live", "closing" (hcclCommFinalize or
           \* hcclCommDestroy has begun), "destroyed"
  at,      \* where each thread is
  took,    \* the threads whose swap returned the handle
  bound,   \* the threads whose abort_and_die has its deadline thread running
  aborts,  \* the threads that have called hcclCommAbort
  exit     \* "none", then what the process left with

handleVars == <<slot, handle, at, took, bound, aborts, exit>>

Thread == {"main", "watch"}

HandlePc == {"join", "run", "drop", "finalize", "destroy", "release",
       "asked", "swap", "taken", "abort", "leave"}

\* Leaving: inside abort_and_die.
Leaving(t) == at[t] \in {"swap", "taken", "abort", "leave"}

HandleTypeOK ==
  /\ slot \in BOOLEAN
  /\ handle \in {"none", "live", "closing", "destroyed"}
  /\ at \in [Thread -> HandlePc]
  /\ took \subseteq Thread
  /\ bound \subseteq Thread
  /\ aborts \subseteq Thread
  /\ exit \in {"none", "returned", "error", "aborted"}

HandleInit ==
  /\ slot = FALSE
  /\ handle = "none"
  /\ at = [t \in Thread |-> "join"]
  /\ took = {}
  /\ bound = {}
  /\ aborts = {}
  /\ exit = "none"

Running == exit = "none"

Moves(t, next) == Running /\ at' = [at EXCEPT ![t] = next]

-----------------------------------------------------------------------------
(* The main thread.                                                        *)

\* init_rank: hcclCommInitRank has returned, the slot is set.
InitRank ==
  /\ at["main"] = "join"
  /\ handle = "none"
  /\ Running
  /\ handle' = "live"
  /\ slot' = TRUE
  /\ UNCHANGED <<at, took, bound, aborts, exit>>

\* The stream and the watchdog; a world of one has no communicator.
Watched ==
  /\ at["main"] = "join"
  /\ Running
  /\ at' = [t \in Thread |-> "run"]
  /\ UNCHANGED <<slot, handle, took, bound, aborts, exit>>

\* The run is over, or join() or the set-up failed: the Comm is dropped, if
\* there is one yet.
BeginDrop ==
  /\ at["main"] \in {"join", "run"}
  /\ Moves("main", IF handle = "live" THEN "drop" ELSE "release")
  /\ UNCHANGED <<slot, handle, took, bound, aborts, exit>>

\* Drop for Comm: the compare-exchange, whose result is not looked at.
\* Mutant: the slot is left to be cleared when the handle is gone.
ClearLate == slot
Cleared == FALSE

DropClears ==
  /\ at["main"] = "drop"
  /\ slot' = Cleared
  /\ Moves("main", "finalize")
  /\ UNCHANGED <<handle, took, bound, aborts, exit>>

\* hcclCommFinalize begins ...
Finalize ==
  /\ at["main"] = "finalize"
  /\ handle' = "closing"
  /\ Moves("main", "destroy")
  /\ UNCHANGED <<slot, took, bound, aborts, exit>>

\* ... it and hcclCommDestroy have returned ...
Destroy ==
  /\ at["main"] = "destroy"
  /\ handle' = "destroyed"
  /\ Moves("main", "release")
  /\ UNCHANGED <<slot, took, bound, aborts, exit>>

\* ... and so have Drop for Card and main().
MainExits ==
  /\ at["main"] = "release"
  /\ Running
  /\ exit' = "returned"
  /\ UNCHANGED <<slot, handle, at, took, bound, aborts>>

\* generate_and_check failed: abort_and_die(2).
MainFails ==
  /\ at["main"] = "run"
  /\ Moves("main", "asked")
  /\ UNCHANGED <<slot, handle, took, bound, aborts, exit>>

-----------------------------------------------------------------------------
(* abort_and_die, on either thread.                                        *)

\* The watchdog found a reason: abort_and_die(EXIT_ABORTED).
WatchAborts ==
  /\ at["watch"] = "run"
  /\ Moves("watch", "asked")
  /\ UNCHANGED <<slot, handle, took, bound, aborts, exit>>

\* The deadline thread is started first.
\* Mutant: only hcclCommAbort itself is waited for.
NoBound(t) == bound
Bounded(t) == bound \cup {t}

SpawnDeadline(t) ==
  /\ at[t] = "asked"
  /\ bound' = Bounded(t)
  /\ Moves(t, "swap")
  /\ UNCHANGED <<slot, handle, took, aborts, exit>>

\* abort_current: the swap.
\* Mutant: the handle is read and left where it is.
OnlyRead == slot
Swapped == FALSE

Swap(t) ==
  /\ at[t] = "swap"
  /\ slot' = Swapped
  /\ took' = IF slot THEN took \cup {t} ELSE took
  /\ Moves(t, IF slot THEN "taken" ELSE "leave")
  /\ UNCHANGED <<handle, bound, aborts, exit>>

\* hcclCommAbort begins, and returns.
CallAbort(t) ==
  /\ at[t] = "taken"
  /\ aborts' = aborts \cup {t}
  /\ Moves(t, "abort")
  /\ UNCHANGED <<slot, handle, took, bound, exit>>

AbortReturns(t) ==
  /\ at[t] = "abort"
  /\ Moves(t, "leave")
  /\ UNCHANGED <<slot, handle, took, bound, aborts, exit>>

CodeOf(t) == IF t = "main" THEN "error" ELSE "aborted"

\* die(code): _exit, whatever the other threads are doing.
Die(t) ==
  /\ Running
  /\ at[t] = "leave"
  /\ exit' = CodeOf(t)
  /\ UNCHANGED <<slot, handle, at, took, bound, aborts>>

\* ABORT_GRACE has passed in the deadline thread of t.
DeadlineDies(t) ==
  /\ Running
  /\ t \in bound
  /\ exit' = CodeOf(t)
  /\ UNCHANGED <<slot, handle, at, took, bound, aborts>>

HandleEnded == ~Running /\ UNCHANGED handleVars

HandleNext ==
  \/ InitRank \/ Watched \/ BeginDrop \/ DropClears \/ Finalize \/ Destroy
  \/ MainExits \/ MainFails \/ WatchAborts
  \/ \E t \in Thread :
       SpawnDeadline(t) \/ Swap(t) \/ CallAbort(t) \/ AbortReturns(t) \/ Die(t) \/ DeadlineDies(t)
  \/ HandleEnded

\* The threads run, and time passes; HCCL's calls may never return.
HandleFairness ==
  \A t \in Thread : WF_handleVars(SpawnDeadline(t)) /\ WF_handleVars(DeadlineDies(t))

HandleSpec == HandleInit /\ [][HandleNext]_handleVars
FairHandleSpec == HandleSpec /\ HandleFairness

-----------------------------------------------------------------------------

\* hcclCommAbort is called at most once, also when a failing run and the
\* watchdog are in abort_and_die together: the swap hands the handle to one.
AbortedOnce == \A s, t \in aborts : s = t

\* "or the communicator is already going away": whoever finds the handle in
\* ABORT_COMM finds it before hcclCommFinalize has begun on it.
SlotHoldsLive == slot => handle = "live"

\* A process that is in abort_and_die leaves, though hcclCommAbort or a
\* teardown under way beside it may never return.
AskedLeaves == (\E t \in Thread : at[t] = "asked") ~> ~Running

-----------------------------------------------------------------------------
(* Why: the slot is emptied by whoever takes it and before the handle is   *)
(* closed, and nothing fills it again.                                     *)

HandleInv ==
  /\ HandleTypeOK
  /\ slot => handle = "live" /\ took = {} /\ at["main"] \notin {"finalize", "destroy", "release"}
  /\ handle = "none" => took = {}
  /\ aborts \subseteq took
  /\ \A t \in Thread : at[t] = "taken" => t \in took
  /\ \A s, t \in took : s = t
  /\ at["main"] \in {"drop", "finalize"} => handle = "live"
=============================================================================
