--------------------------- MODULE AcquireBarrier ---------------------------
(***************************************************************************)
(* What the hand-shake of a rank group promises, without processes, files  *)
(* or time: every rank announces that it has its card, one decision is     *)
(* taken for the group and never changed, a rank goes on to the run only   *)
(* after the decision go, go needs every announcement, and the group       *)
(* starts over only after abort, when every rank has left.  RankGroup is   *)
(* shown to implement it.                                                  *)
(***************************************************************************)
CONSTANT Rank

VARIABLES
  announced,  \* the ranks that have announced a card
  decision,   \* "none", then "go" or "abort"
  place       \* where each rank is: before its announcement, at the barrier,
              \* in the run, or gone

vars == <<announced, decision, place>>

TypeOK ==
  /\ announced \subseteq Rank
  /\ decision \in {"none", "go", "abort"}
  /\ place \in [Rank -> {"before", "ready", "run", "gone"}]

Init ==
  /\ announced = {}
  /\ decision = "none"
  /\ place = [r \in Rank |-> "before"]

Announce(r) ==
  /\ place[r] = "before"
  /\ place' = [place EXCEPT ![r] = "ready"]
  /\ announced' = announced \cup {r}
  /\ UNCHANGED decision

DecideGo ==
  /\ decision = "none"
  /\ announced = Rank
  /\ decision' = "go"
  /\ UNCHANGED <<announced, place>>

DecideAbort ==
  /\ decision = "none"
  /\ decision' = "abort"
  /\ UNCHANGED <<announced, place>>

Cross(r) ==
  /\ decision = "go"
  /\ place[r] = "ready"
  /\ place' = [place EXCEPT ![r] = "run"]
  /\ UNCHANGED <<announced, decision>>

\* A set of ranks leaves: a signal to the process group ends several at once.
Quit(S) ==
  /\ S # {}
  /\ place' = [r \in Rank |-> IF r \in S THEN "gone" ELSE place[r]]
  /\ UNCHANGED <<announced, decision>>

Restart ==
  /\ decision = "abort"
  /\ \A r \in Rank : place[r] = "gone"
  /\ announced' = {}
  /\ decision' = "none"
  /\ place' = [r \in Rank |-> "before"]

Next ==
  \/ \E r \in Rank : Announce(r) \/ Cross(r)
  \/ \E S \in SUBSET Rank : Quit(S)
  \/ DecideGo
  \/ DecideAbort
  \/ Restart

Spec == Init /\ [][Next]_vars

=============================================================================
