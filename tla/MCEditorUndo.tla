---------------------------- MODULE MCEditorUndo ----------------------------
(***************************************************************************)
(* Three texts, so that a text may come back with another in between, and   *)
(* the symmetry of the two the editor does not start with.                 *)
(***************************************************************************)
EXTENDS EditorUndo, FiniteSets, TLC

CONSTANTS t0, t1, t2

MCText == {t0, t1, t2}
MCSymmetry == Permutations({t1, t2})

=============================================================================
