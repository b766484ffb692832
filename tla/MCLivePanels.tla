---------------------------- MODULE MCLivePanels ----------------------------
(***************************************************************************)
(* Two lines that may be taken for each other.                              *)
(***************************************************************************)
EXTENDS LivePanels, TLC

CONSTANTS l1, l2

MCLine == {l1, l2}

Symmetry == Permutations(MCLine)
=============================================================================
