---------------------------- MODULE MCEditorView ----------------------------
(***************************************************************************)
(* Lines for the editor: of each kind that folding, arrows and the linter   *)
(* tell apart, with two labels, one of them local, and a register.          *)
(***************************************************************************)
EXTENDS EditorView

CONSTANTS main, loop, rax

MCName == {main, loop, rax}
MCDotted == {loop}
MCRegister == {rax}
MCSought == {main, loop}

Of(label, indented, op, to) == [label |-> label, indented |-> indented, op |-> op, to |-> to]

MCLine ==
  { EmptyLine, Of(None, FALSE, "section", None), Of(loop, TRUE, "none", None), Of(main, FALSE, "jump", loop),
    Of(None, FALSE, "data", main), Of(None, FALSE, "word", main) }
    \cup { Of(name, FALSE, "none", None) : name \in {main, loop} }
    \cup { Of(None, FALSE, "jump", name) : name \in MCName }
=============================================================================
