----------------------------- MODULE EditorUndo -----------------------------
(***************************************************************************)
(* Undo and redo of the editor (AsmEditor.tsx): two stacks, a debounce of   *)
(* 400 ms between a keystroke and its entry in the undo stack, and the      *)
(* changes of the text that go around one or both of them.                  *)
(*                                                                         *)
(* An action is one event: a keystroke, the debounce's timer, a key of the  *)
(* editor or its search bar, or another part of the workbench replacing the *)
(* text.  Texts are values that are only compared.                          *)
(***************************************************************************)
EXTENDS Naturals, Sequences

CONSTANTS Text,      \* what the textarea may contain
          InitText,  \* the text the editor is first rendered with
          UNDO_MAX   \* undo steps that are kept

ASSUME TextAssumption == InitText \in Text
ASSUME UndoMaxAssumption == UNDO_MAX \in Nat /\ UNDO_MAX > 1

NoTimer == "none"

ASSUME TimerAssumption == NoTimer \notin Text

VARIABLES
  code,    \* the text, state of the workbench
  undo,    \* undoRef.current, the newest entry last
  redo,    \* redoRef.current, the next entry last
  timer,   \* debounceRef.current: what its callback captured, or NoTimer
  last,    \* lastSnapshotRef.current
  edited,  \* history: the text changed otherwise than by undo and redo since the last undo
  quiet,   \* history: every change was typed, and the debounce ran before the next event
  trail,   \* history: the texts an ideal undo holds, undone ones included
  pos      \* history: where the ideal undo stands in them

editor == <<undo, redo, timer, last>>
ideal  == <<quiet, trail, pos>>
undoVars   == <<code, editor, edited, ideal>>

UndoTypeOK ==
  /\ code \in Text
  /\ undo \in Seq(Text)
  /\ redo \in Seq(Text)
  /\ timer \in Text \cup {NoTimer}
  /\ last \in Text
  /\ edited \in BOOLEAN
  /\ quiet \in BOOLEAN
  /\ trail \in Seq(Text)
  /\ pos \in 1..Len(trail)

UndoInit ==
  /\ code = InitText
  /\ undo = << >>
  /\ redo = << >>
  /\ timer = NoTimer
  /\ last = InitText
  /\ edited = FALSE
  /\ quiet = TRUE
  /\ trail = << InitText >>
  /\ pos = 1

----------------------------------------------------------------------------

Top(stack) == stack[Len(stack)]
Pop(stack) == SubSeq(stack, 1, Len(stack) - 1)

IsTop(text, stack) == stack # << >> /\ text = Top(stack)

\* Mutant: slice(-UNDO_MAX), one entry too many.
Newest_OffByOne(stack) ==
  IF Len(stack) <= UNDO_MAX THEN stack ELSE SubSeq(stack, Len(stack) - UNDO_MAX + 1, Len(stack))

\* slice(-(UNDO_MAX - 1)), which for UNDO_MAX = 1 would keep everything.
Newest(stack) ==
  IF Len(stack) < UNDO_MAX THEN stack ELSE SubSeq(stack, Len(stack) - UNDO_MAX + 2, Len(stack))

\* pushUndo, as the two stacks it leaves.
PushedUndo(text) == IF IsTop(text, undo) THEN undo ELSE Append(Newest(undo), text)
PushedRedo(text) == IF IsTop(text, undo) THEN redo ELSE << >>

\* A change drops what was undone and, past UNDO_MAX, the oldest text.
IdealEdit(text) ==
  LET from == IF pos > UNDO_MAX THEN 2 ELSE 1
  IN  /\ trail' = Append(SubSeq(trail, from, pos), text)
      /\ pos' = pos + 2 - from

\* What the discipline of `quiet` does not cover is no longer compared.
Disturbed == quiet' = FALSE /\ UNCHANGED <<trail, pos>>

\* handleInput and handleChange: the callback of the debounce captures the text
\* before this keystroke, whatever it had captured before.
Type(text) ==
  /\ text # code
  /\ timer' = code
  /\ code' = text
  /\ edited' = TRUE
  /\ IF quiet /\ timer = NoTimer THEN IdealEdit(text) /\ UNCHANGED quiet ELSE Disturbed
  /\ UNCHANGED <<undo, redo, last>>

\* Mutant: the callback runs without having been scheduled.
DebounceFires_Unscheduled ==
  /\ undo' = PushedUndo(timer)
  /\ redo' = PushedRedo(timer)
  /\ last' = timer
  /\ timer' = NoTimer
  /\ UNCHANGED <<code, edited, ideal>>

\* No keystroke for 400 ms.
DebounceFires ==
  /\ timer # NoTimer
  /\ undo' = PushedUndo(timer)
  /\ redo' = PushedRedo(timer)
  /\ last' = timer
  /\ timer' = NoTimer
  /\ UNCHANGED <<code, edited, ideal>>

\* Mutant: the pending debounce survives the undo.
HandleUndo_KeepsTimer ==
  LET flush   == last # code /\ ~IsTop(last, undo)
      stack   == IF flush THEN PushedUndo(last) ELSE undo
      forward == IF flush THEN PushedRedo(last) ELSE redo
  IN  /\ IF stack = << >>
         THEN undo' = stack /\ redo' = forward /\ UNCHANGED <<code, last, edited>>
         ELSE /\ undo' = Pop(stack)
              /\ redo' = Append(forward, code)
              /\ last' = Top(stack)
              /\ code' = Top(stack)
              /\ edited' = FALSE
      /\ UNCHANGED timer
      /\ IF quiet /\ timer = NoTimer
         THEN pos' = (IF pos > 1 THEN pos - 1 ELSE pos) /\ UNCHANGED <<quiet, trail>>
         ELSE Disturbed

\* handleUndo: Ctrl+Z or the context menu.
HandleUndo ==
  LET flush   == last # code /\ ~IsTop(last, undo)
      stack   == IF flush THEN PushedUndo(last) ELSE undo
      forward == IF flush THEN PushedRedo(last) ELSE redo
  IN  /\ timer' = NoTimer
      /\ IF stack = << >>
         THEN undo' = stack /\ redo' = forward /\ UNCHANGED <<code, last, edited>>
         ELSE /\ undo' = Pop(stack)
              /\ redo' = Append(forward, code)
              /\ last' = Top(stack)
              /\ code' = Top(stack)
              /\ edited' = FALSE
      /\ IF quiet /\ timer = NoTimer
         THEN pos' = (IF pos > 1 THEN pos - 1 ELSE pos) /\ UNCHANGED <<quiet, trail>>
         ELSE Disturbed

\* Mutant: redo leaves the snapshot of the undo before it.
HandleRedo_KeepsLast ==
  /\ redo # << >>
  /\ redo' = Pop(redo)
  /\ undo' = Append(undo, code)
  /\ code' = Top(redo)
  /\ IF quiet /\ timer = NoTimer
     THEN pos' = (IF pos < Len(trail) THEN pos + 1 ELSE pos) /\ UNCHANGED <<quiet, trail>>
     ELSE Disturbed
  /\ UNCHANGED <<timer, last, edited>>

\* handleRedo, which leaves a pending debounce alone.
HandleRedo ==
  /\ redo # << >>
  /\ redo' = Pop(redo)
  /\ undo' = Append(undo, code)
  /\ last' = Top(redo)
  /\ code' = Top(redo)
  /\ IF quiet /\ timer = NoTimer
     THEN pos' = (IF pos < Len(trail) THEN pos + 1 ELSE pos) /\ UNCHANGED <<quiet, trail>>
     ELSE Disturbed
  /\ UNCHANGED <<timer, edited>>

\* applyCompletion, Tab, Replace and Replace all enter the text before them at
\* once; a replacement may leave the text as it was.
Commit(text) ==
  /\ undo' = PushedUndo(code)
  /\ redo' = PushedRedo(code)
  /\ code' = text
  /\ edited' = TRUE
  /\ Disturbed
  /\ UNCHANGED <<timer, last>>

\* A snippet, an imported file, a program of the history: setCode of the
\* workbench, which the editor's stacks do not see.
Replaced(text) ==
  /\ text # code
  /\ code' = text
  /\ edited' = TRUE
  /\ Disturbed
  /\ UNCHANGED editor

UndoNext == \/ \E text \in Text : Type(text) \/ Commit(text) \/ Replaced(text)
        \/ DebounceFires \/ HandleUndo \/ HandleRedo

UndoSpec == UndoInit /\ [][UndoNext]_undoVars

----------------------------------------------------------------------------
(* Properties                                                              *)

\* Whatever mixture of undo, redo, debounce and replacements: the two stacks
\* together never hold more than UNDO_MAX texts, although handleRedo pushes
\* without a limit (AsmEditor.tsx:70).
StacksBounded == Len(undo) + Len(redo) <= UNDO_MAX

\* What was undone can be redone until the text is changed otherwise: neither a
\* debounce that was pending when Ctrl+Z was pressed nor the snapshot an undo
\* pushes for itself empties the redo stack (AsmEditor.tsx:57-65).
RedoKept ==
  [][Len(redo') < Len(redo) =>
       \/ edited
       \/ edited'
       \/ redo' = Pop(redo) /\ code' = Top(redo)]_undoVars

\* With pauses of 400 ms after each keystroke, undo and redo are those of an
\* ideal linear history: the text on display is always the one such a history
\* stands at, after any sequence of edits, undos and redos and past UNDO_MAX.  The
\* text has to be the editor's own from the start: one restored from the history
\* when the workbench opens (App.tsx:188-191) enters it behind the stacks' back.
UndoIsExact == quiet => code = trail[pos]
=============================================================================
