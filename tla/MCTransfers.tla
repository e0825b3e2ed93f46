---------------------------- MODULE MCTransfers -----------------------------
(* Bounds for TLC: buffers of two words, three pieces through two slots, a  *)
(* fence counter that wraps after six and one of whose patterns is the    *)
(* host sentinel, as 0x25C27FC2 | 0x5A000000 is; one input whose result    *)
(* equals the device sentinel.                                             *)
EXTENDS Transfers

MCPattern == [s \in 0 .. 5 |-> 50 + s]
MCContent == <<11, 12, 13>>
MCResult == [v \in {21, 22} |-> IF v = 21 THEN 31 ELSE 70]
MCInput == {21, 22}
=============================================================================
