------------------------------- MODULE Layout -------------------------------
(***************************************************************************)
(* The sizes of the workbench and the drags that change them: the three     *)
(* columns (useColResize.ts), the docked terminal (useTermResize.ts) and     *)
(* the split between its output and its input (App.tsx).  The three listen  *)
(* to the window's mouse independently and share the cursor of the body.    *)
(*                                                                         *)
(* Sizes are whole per cents or pixels; a press may follow a press whose    *)
(* release the window never saw.                                           *)
(***************************************************************************)
EXTENDS Integers

CONSTANTS MouseX,       \* where the mouse goes, in per cents of the body
          MouseY,       \* in pixels from the bottom
          MouseSplit,   \* in per cents of the terminal
          Height        \* of the window, in pixels

ASSUME MouseAssumption == MouseX \subseteq Int /\ MouseY \subseteq Int /\ MouseSplit \subseteq Int
ASSUME HeightAssumption == Height \in Nat

VARIABLES
  cols,     \* per cents of the columns
  h,        \* height of the docked terminal
  split,    \* stdinSplitPct
  drags,    \* handles that are held
  cursor    \* of the body

layout == <<cols, h, split, drags, cursor>>

Handle == {"left", "right", "term", "stdin"}

Least(a, b)    == IF a <= b THEN a ELSE b
Greatest(a, b) == IF a <= b THEN b ELSE a

InitLayout ==
  /\ cols = [c0 |-> 30, c1 |-> 36, c2 |-> 34]
  /\ h = 200 /\ split = 50
  /\ drags = {} /\ cursor = ""

----------------------------------------------------------------------------
\* onDown of the columns, of the terminal, and onStdinSplitDown.
PressColumn(handle) ==
  /\ handle \in {"left", "right"}
  /\ drags' = (drags \ {"left", "right"}) \cup {handle}
  /\ cursor' = "col-resize"

PressTerminal(handle) ==
  handle = "term" /\ drags' = drags \cup {"term"} /\ cursor' = "row-resize"

PressSplit(handle) ==
  handle = "stdin" /\ drags' = drags \cup {"stdin"} /\ cursor' = "row-resize"

MouseDown(handle) ==
  /\ PressColumn(handle) \/ PressTerminal(handle) \/ PressSplit(handle)
  /\ UNCHANGED <<cols, h, split>>

\* The handle between editor and registers.
DraggedLeft(x) ==
  LET c0 == Greatest(15, Least(x, 100 - cols.c2 - 15))
      c1 == 100 - c0 - cols.c2
  IN  IF c1 < 15 THEN [cols EXCEPT !.c0 = 100 - 15 - cols.c2, !.c1 = 15]
                 ELSE [cols EXCEPT !.c0 = c0, !.c1 = c1]

\* Mutant: the right column's minimum is forgotten.
DraggedRight_ToTheEdge(x) ==
  LET c01 == Greatest(cols.c0 + 15, Least(x, 100))
  IN  [cols EXCEPT !.c1 = c01 - cols.c0, !.c2 = 100 - c01]

\* The handle between registers and panels.
DraggedRight(x) ==
  LET c01 == Greatest(cols.c0 + 15, Least(x, 85))
      c2  == 100 - c01
  IN  IF c2 < 15 THEN [cols EXCEPT !.c1 = 100 - cols.c0 - 15, !.c2 = 15]
                 ELSE [cols EXCEPT !.c1 = c01 - cols.c0, !.c2 = c2]

DraggedColumns(x) ==
  CASE "left" \in drags -> DraggedLeft(x)
    [] "right" \in drags -> DraggedRight(x)
    [] OTHER -> cols

DraggedTerminal(y) ==
  IF "term" \in drags THEN Greatest(60, Least(y, (Height * 6) \div 10)) ELSE h

DraggedSplit(p) == IF "stdin" \in drags THEN Greatest(25, Least(75, p)) ELSE split

MouseMove(x, y, p) ==
  /\ cols' = DraggedColumns(x)
  /\ h' = DraggedTerminal(y)
  /\ split' = DraggedSplit(p)
  /\ UNCHANGED <<drags, cursor>>

\* Each of the three onUp ends its drag, if it is on, and gives the cursor back.
MouseUp ==
  /\ drags' = {}
  /\ cursor' = IF drags = {} THEN cursor ELSE ""
  /\ UNCHANGED <<cols, h, split>>

----------------------------------------------------------------------------
\* Whatever is dragged in whatever order, the columns fill the body and none is
\* squeezed out, the terminal keeps a line and both its panes; the cursor is back
\* to normal exactly when nothing is dragged, although three drags set and reset it.
LayoutFits ==
  /\ cols \in [c0 : 15..70, c1 : 15..70, c2 : 15..70]
  /\ cols.c0 + cols.c1 + cols.c2 = 100
  /\ h \in 60..Greatest(200, Height)
  /\ split \in 25..75
  /\ drags \subseteq Handle /\ ~({"left", "right"} \subseteq drags)
  /\ cursor \in {"", "col-resize", "row-resize"} /\ (cursor = "" <=> drags = {})
=============================================================================
