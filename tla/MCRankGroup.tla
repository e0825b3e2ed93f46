---------------------------- MODULE MCRankGroup -----------------------------
(***************************************************************************)
(* Instances of RankGroup for TLC.  Ranks are numbers (rank 0 creates the  *)
(* unique id, and ranks are spawned in order), so no symmetry is declared. *)
(***************************************************************************)
EXTENDS RankGroup

=============================================================================
