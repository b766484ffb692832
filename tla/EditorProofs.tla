---------------------------- MODULE EditorProofs ----------------------------
(***************************************************************************)
(* The editor: its undo stacks, for any set of texts and any UNDO_MAX, and  *)
(* what it derives from the lines, for programs of any length and lines of  *)
(* any kind.                                                               *)
(***************************************************************************)
EXTENDS EditorUndo, EditorView, Recurrence, SequenceTheorems, TLAPS

----------------------------------------------------------------------------
(* Undo and redo                                                           *)

USE UndoMaxAssumption

\* Lemma: what slice(-(UNDO_MAX - 1)) keeps of a stack that is within the limit.
LEMMA NewestFacts ==
  ASSUME NEW stack \in Seq(Text), Len(stack) <= UNDO_MAX
  PROVE  LET n == IF Len(stack) < UNDO_MAX THEN 0 ELSE 1
         IN  /\ Newest(stack) \in Seq(Text)
             /\ Len(Newest(stack)) = Len(stack) - n
             /\ \A i \in 1..Len(Newest(stack)) : Newest(stack)[i] = stack[i + n]
<1>1. CASE Len(stack) < UNDO_MAX
  BY <1>1 DEF Newest
<1>2. CASE Len(stack) = UNDO_MAX
  <2>1. Newest(stack) = SubSeq(stack, 2, Len(stack))
    BY <1>2 DEF Newest
  <2> QED
    BY <1>2, <2>1
<1> QED
  BY <1>1, <1>2

\* Lemma: popping a stack.
LEMMA PopFacts ==
  ASSUME NEW stack \in Seq(Text), stack # << >>
  PROVE  /\ Pop(stack) \in Seq(Text)
         /\ Len(Pop(stack)) = Len(stack) - 1
         /\ \A i \in 1..Len(Pop(stack)) : Pop(stack)[i] = stack[i]
         /\ Top(stack) \in Text
<1>1. Len(stack) \in Nat \ {0}
  OBVIOUS
<1>2. Top(stack) \in Text
  BY <1>1 DEF Top
<1>3. /\ SubSeq(stack, 1, Len(stack) - 1) \in Seq(Text)
      /\ Len(SubSeq(stack, 1, Len(stack) - 1)) = Len(stack) - 1
      /\ \A i \in 1..(Len(stack) - 1) : SubSeq(stack, 1, Len(stack) - 1)[i] = stack[i]
  <2> DEFINE n == Len(stack) - 1
  <2>1. n \in Nat /\ \A i \in 1..n : stack[i] \in Text
    BY <1>1
  <2> HIDE DEF n
  <2>2. /\ SubSeq(stack, 1, n) \in Seq(Text)
        /\ Len(SubSeq(stack, 1, n)) = n
        /\ \A i \in 1..n : SubSeq(stack, 1, n)[i] = stack[i]
    BY <2>1
  <2> QED
    BY <2>2 DEF n
<1> QED
  BY <1>2, <1>3 DEF Pop

Bounded == UndoTypeOK /\ StacksBounded

\* While nothing was edited since the last undo, no debounce is pending and the
\* snapshot that an undo would push for itself is the text on display.
Settled == ~edited => timer = NoTimer /\ last = code

\* Lemma: the editor starts within its types and limits, and settled.
LEMMA Start == UndoInit => Bounded /\ Settled
<1> SUFFICES ASSUME UndoInit PROVE Bounded /\ Settled
  OBVIOUS
<1>1. << InitText >> \in Seq(Text) /\ Len(<< InitText >>) = 1 /\ Len(<< >>) = 0
  BY TextAssumption
<1>2. UndoTypeOK
  <2>1. << >> \in Seq(Text)
    OBVIOUS
  <2>2. pos \in 1..Len(trail) /\ trail \in Seq(Text)
    BY <1>1 DEF UndoInit
  <2> QED
    BY <2>1, <2>2, TextAssumption DEF UndoInit, UndoTypeOK
<1>3. StacksBounded
  BY <1>1 DEF UndoInit, StacksBounded
<1> QED
  BY <1>2, <1>3 DEF UndoInit, Bounded, Settled

\* Lemma: pushUndo leaves stacks within the limit.
LEMMA PushFacts ==
  ASSUME Bounded, NEW text \in Text
  PROVE  /\ PushedUndo(text) \in Seq(Text)
         /\ PushedRedo(text) \in Seq(Text)
         /\ Len(PushedUndo(text)) + Len(PushedRedo(text)) <= UNDO_MAX
<1>1. undo \in Seq(Text) /\ redo \in Seq(Text) /\ Len(undo) <= UNDO_MAX
  BY DEF Bounded, UndoTypeOK, StacksBounded
<1>2. Append(Newest(undo), text) \in Seq(Text) /\ Len(Append(Newest(undo), text)) <= UNDO_MAX
  BY <1>1, NewestFacts
<1> QED
  BY <1>1, <1>2 DEF PushedUndo, PushedRedo, Bounded, StacksBounded

\* Lemma: the history variables keep their types.
LEMMA IdealTyped ==
  ASSUME UndoTypeOK, NEW text \in Text, IdealEdit(text)
  PROVE  trail' \in Seq(Text) /\ pos' \in 1..Len(trail')
<1> DEFINE from == IF pos > UNDO_MAX THEN 2 ELSE 1
<1>1. /\ from \in {1, 2}
      /\ from = 2 => pos > UNDO_MAX
      /\ trail' = Append(SubSeq(trail, from, pos), text)
      /\ pos' = pos + 2 - from
  BY DEF IdealEdit
<1> HIDE DEF from
<1>2. from \in Nat /\ pos \in Nat /\ pos <= Len(trail) /\ pos >= 1 /\ trail \in Seq(Text) /\ from <= pos
  BY <1>1 DEF UndoTypeOK
<1>3. SubSeq(trail, from, pos) \in Seq(Text) /\ Len(SubSeq(trail, from, pos)) = pos - from + 1
  BY <1>1, <1>2
<1> QED
  BY <1>1, <1>2, <1>3

----------------------------------------------------------------------------

\* Lemma: types and the bound, step by step.
LEMMA BoundedStep == Bounded /\ [UndoNext]_undoVars => Bounded'
<1> SUFFICES ASSUME Bounded, [UndoNext]_undoVars PROVE Bounded'
  OBVIOUS
<1> USE DEF Bounded, StacksBounded
<1>0. UndoTypeOK
  OBVIOUS
<1>1. ASSUME NEW text \in Text, Type(text) PROVE Bounded'
  <2>1. trail' \in Seq(Text) /\ pos' \in 1..Len(trail')
    BY <1>0, <1>1, IdealTyped DEF Type, Disturbed, UndoTypeOK
  <2> QED
    BY <2>1, <1>1 DEF UndoTypeOK, Type, Disturbed
<1>2. ASSUME NEW text \in Text, Commit(text) PROVE Bounded'
  <2>1. code \in Text
    BY DEF UndoTypeOK
  <2> QED
    BY <2>1, <1>2, PushFacts DEF UndoTypeOK, Commit, Disturbed
<1>3. ASSUME NEW text \in Text, Replaced(text) PROVE Bounded'
  BY <1>3 DEF UndoTypeOK, Replaced, Disturbed, editor
<1>4. CASE DebounceFires
  <2>1. timer \in Text
    BY <1>4 DEF UndoTypeOK, DebounceFires
  <2> QED
    BY <2>1, <1>4, PushFacts DEF UndoTypeOK, DebounceFires, ideal
<1>5. CASE HandleUndo
  <2> DEFINE flush   == last # code /\ ~IsTop(last, undo)
             stack   == IF flush THEN PushedUndo(last) ELSE undo
             forward == IF flush THEN PushedRedo(last) ELSE redo
  <2>1. /\ stack \in Seq(Text)
        /\ forward \in Seq(Text)
        /\ Len(stack) + Len(forward) <= UNDO_MAX
    BY PushFacts DEF UndoTypeOK
  <2>2. /\ timer' = NoTimer
        /\ \/ stack = << >> /\ undo' = stack /\ redo' = forward /\ UNCHANGED <<code, last, edited>>
           \/ /\ stack # << >>
              /\ undo' = Pop(stack)
              /\ redo' = Append(forward, code)
              /\ last' = Top(stack)
              /\ code' = Top(stack)
              /\ edited' = FALSE
    BY <1>5 DEF HandleUndo
  <2>3. quiet' \in BOOLEAN /\ trail' \in Seq(Text) /\ pos' \in 1..Len(trail')
    <3>1. quiet' \in BOOLEAN /\ trail' = trail /\ pos' \in {pos} \cup (IF pos > 1 THEN {pos - 1} ELSE {})
      BY <1>0, <1>5 DEF HandleUndo, UndoTypeOK, Disturbed
    <3> QED
      BY <1>0, <3>1 DEF UndoTypeOK
  <2> HIDE DEF stack, forward
  <2>4. CASE stack = << >>
    BY <2>1, <2>2, <2>3, <2>4 DEF UndoTypeOK
  <2>5. CASE stack # << >>
    <3>1. /\ Pop(stack) \in Seq(Text) /\ Len(Pop(stack)) = Len(stack) - 1 /\ Top(stack) \in Text
      BY <2>1, <2>5, PopFacts
    <3>2. /\ undo' = Pop(stack) /\ redo' = Append(forward, code)
          /\ last' = Top(stack) /\ code' = Top(stack) /\ edited' = FALSE
      BY <2>2, <2>5
    <3>3. Append(forward, code) \in Seq(Text) /\ Len(Append(forward, code)) = Len(forward) + 1
      BY <2>1 DEF UndoTypeOK
    <3>4. Len(undo') + Len(redo') <= UNDO_MAX
      BY <2>1, <3>1, <3>2, <3>3
    <3>5. UndoTypeOK'
      BY <2>2, <2>3, <3>1, <3>2, <3>3 DEF UndoTypeOK
    <3> QED
      BY <3>4, <3>5
  <2> QED
    BY <2>4, <2>5
<1>6. CASE HandleRedo
  <2>1. /\ Pop(redo) \in Seq(Text) /\ Len(Pop(redo)) = Len(redo) - 1 /\ Top(redo) \in Text
    BY <1>6, PopFacts DEF HandleRedo, UndoTypeOK
  <2>2. quiet' \in BOOLEAN /\ trail' \in Seq(Text) /\ pos' \in 1..Len(trail')
    <3>1. /\ quiet' \in BOOLEAN /\ trail' = trail
          /\ pos' \in {pos} \cup (IF pos < Len(trail) THEN {pos + 1} ELSE {})
      BY <1>0, <1>6 DEF HandleRedo, UndoTypeOK, Disturbed
    <3> QED
      BY <1>0, <3>1 DEF UndoTypeOK
  <2>3. Append(undo, code) \in Seq(Text) /\ Len(Append(undo, code)) = Len(undo) + 1
    BY DEF UndoTypeOK
  <2> QED
    BY <1>6, <2>1, <2>2, <2>3 DEF HandleRedo, UndoTypeOK
<1>7. CASE UNCHANGED undoVars
  BY <1>7 DEF UndoTypeOK, undoVars, editor, ideal
<1> QED
  BY <1>1, <1>2, <1>3, <1>4, <1>5, <1>6, <1>7 DEF UndoNext

\* Every variable of the editor's undo keeps its type.
THEOREM UndoTypeCorrect == UndoSpec => []UndoTypeOK
<1>1. UndoInit => Bounded
  BY Start
<1>2. Bounded => UndoTypeOK
  BY DEF Bounded
<1> QED
  BY <1>1, <1>2, BoundedStep, PTL DEF UndoSpec

\* Undo and redo together hold at most UNDO_MAX texts, for any UNDO_MAX.
THEOREM BothStacksBounded == UndoSpec => []StacksBounded
<1>1. UndoInit => Bounded
  BY Start
<1>2. Bounded => StacksBounded
  BY DEF Bounded
<1> QED
  BY <1>1, <1>2, BoundedStep, PTL DEF UndoSpec

----------------------------------------------------------------------------
(* What was undone can be redone                                           *)

\* Lemma: an undo, a redo and a debounce leave the text settled, or find it edited.
LEMMA SettledStep == Settled /\ [UndoNext]_undoVars => Settled'
<1> SUFFICES ASSUME Settled, [UndoNext]_undoVars PROVE Settled'
  OBVIOUS
<1> USE DEF Settled
<1>1. ASSUME NEW text \in Text, Type(text) \/ Commit(text) \/ Replaced(text) PROVE Settled'
  BY <1>1 DEF Type, Commit, Replaced
<1>2. CASE DebounceFires
  BY <1>2 DEF DebounceFires
<1>3. CASE HandleUndo
  BY <1>3 DEF HandleUndo
<1>4. CASE HandleRedo
  BY <1>4 DEF HandleRedo
<1>5. CASE UNCHANGED undoVars
  BY <1>5 DEF undoVars, editor
<1> QED
  BY <1>1, <1>2, <1>3, <1>4, <1>5 DEF UndoNext

\* The redo stack only shrinks by a redo, or once the text was edited.
THEOREM UndoneCanBeRedone == UndoSpec => RedoKept
<1> DEFINE Kept == Len(redo') < Len(redo) =>
                     \/ edited \/ edited'
                     \/ redo' = Pop(redo) /\ code' = Top(redo)
           Inv == Bounded /\ Settled
<1>1. UndoInit => Inv
  BY Start
<1>2. Inv /\ [UndoNext]_undoVars => Inv'
  BY BoundedStep, SettledStep
<1>3. Inv /\ [UndoNext]_undoVars => [Kept]_undoVars
  <2> SUFFICES ASSUME Inv, UndoNext PROVE Kept
    OBVIOUS
  <2> redo \in Seq(Text) /\ Len(redo) \in Nat
    BY DEF Bounded, UndoTypeOK
  <2>1. ASSUME NEW text \in Text, Type(text) \/ Commit(text) \/ Replaced(text) PROVE Kept
    BY <2>1 DEF Type, Commit, Replaced
  <2>2. CASE DebounceFires
    BY <2>2 DEF DebounceFires, Settled
  <2>3. CASE HandleUndo
    <3> SUFFICES ASSUME ~edited PROVE Len(redo) <= Len(redo')
      OBVIOUS
    <3>1. last = code
      BY DEF Settled
    <3>2. redo' = redo \/ redo' = Append(redo, code)
      BY <2>3, <3>1 DEF HandleUndo
    <3>3. code \in Text
      BY DEF Bounded, UndoTypeOK
    <3>4. Len(Append(redo, code)) = Len(redo) + 1
      BY <3>3
    <3> QED
      BY <3>2, <3>4
  <2>4. CASE HandleRedo
    BY <2>4 DEF HandleRedo
  <2> QED
    BY <2>1, <2>2, <2>3, <2>4 DEF UndoNext
<1> QED
  BY <1>1, <1>2, <1>3, PTL DEF UndoSpec, RedoKept

----------------------------------------------------------------------------
(* With pauses, undo is that of an ideal linear history                    *)

\* Where the stacks hold the ideal history: `n` texts of it lie before the
\* display, of which the undo stack's newest follow its entry `d`.
PastAt(n, d) ==
  /\ Len(undo) = n + d
  /\ \A i \in 1..n : undo[i + d] = trail[i]

FutureAt == /\ Len(redo) = Len(trail) - pos
            /\ \A i \in 1..Len(redo) : redo[i] = trail[Len(trail) + 1 - i]

\* While a debounce is pending, the text before it is in neither stack, and the
\* oldest entry is still there that the debounce will drop.
Aligned ==
  /\ code = trail[pos]
  /\ \A i \in 1..(Len(trail) - 1) : trail[i] # trail[i + 1]
  /\ timer = NoTimer =>
       /\ PastAt(pos - 1, 0)
       /\ FutureAt
       /\ last = code \/ IsTop(last, undo)
  /\ timer # NoTimer =>
       /\ pos = Len(trail)
       /\ pos > 1
       /\ timer = trail[pos - 1]
       /\ \/ PastAt(pos - 2, 0) /\ Len(undo) < UNDO_MAX
          \/ PastAt(pos - 2, 1) /\ Len(undo) = UNDO_MAX

Exact == quiet => Aligned

\* Lemma: a keystroke after a pause.
LEMMA ExactType ==
  ASSUME Bounded, Exact, NEW text \in Text, Type(text), quiet'
  PROVE  Aligned'
<1>1. quiet /\ timer = NoTimer /\ IdealEdit(text)
  BY DEF Type, Disturbed
<1>2. /\ code = trail[pos] /\ PastAt(pos - 1, 0)
      /\ \A i \in 1..(Len(trail) - 1) : trail[i] # trail[i + 1]
  BY <1>1 DEF Exact, Aligned
<1>3. /\ trail \in Seq(Text) /\ pos \in 1..Len(trail) /\ undo \in Seq(Text)
      /\ Len(trail) \in Nat /\ Len(undo) = pos - 1 /\ Len(undo) <= UNDO_MAX /\ code \in Text
  BY <1>2 DEF Bounded, UndoTypeOK, StacksBounded, PastAt
<1> DEFINE from == IF pos > UNDO_MAX THEN 2 ELSE 1
           kept == SubSeq(trail, from, pos)
<1>4. /\ from \in {1, 2} /\ from <= pos
      /\ from = 2 <=> pos = UNDO_MAX + 1
      /\ trail' = Append(kept, text)
      /\ pos' = pos + 2 - from
  BY <1>1, <1>3 DEF IdealEdit
<1> HIDE DEF from
<1>5. /\ kept \in Seq(Text) /\ Len(kept) = pos + 1 - from
      /\ \A i \in 1..(pos + 1 - from) : kept[i] = trail[from + i - 1]
  <2>1. \A i \in from..pos : trail[i] \in Text
    BY <1>3, <1>4
  <2>2. from \in Int /\ pos \in Int
    BY <1>3, <1>4
  <2> QED
    BY <1>3, <1>4, <2>1, <2>2, SubSeqProperties
<1> HIDE DEF kept
<1>6. /\ Len(trail') = pos' /\ pos' = Len(kept) + 1
      /\ trail'[pos'] = text
      /\ \A i \in 1..(pos' - 1) : trail'[i] = trail[from + i - 1]
  BY <1>3, <1>4, <1>5
<1>7. code' = text /\ text # code /\ timer' = code /\ timer' # NoTimer /\ undo' = undo
  BY <1>3, TimerAssumption DEF Type
<1>8. pos' \in Nat /\ pos' - 1 + from - 1 = pos /\ pos' > 1 /\ trail'[pos' - 1] = trail[pos]
  BY <1>3, <1>4, <1>6
<1>9. \A i \in 1..(Len(trail') - 1) : trail'[i] # trail'[i + 1]
  <2> SUFFICES ASSUME NEW i \in 1..(pos' - 1) PROVE trail'[i] # trail'[i + 1]
    BY <1>6
  <2>1. CASE i = pos' - 1
    <3>1. trail'[i] = code /\ trail'[i + 1] = text
      BY <2>1, <1>2, <1>6, <1>8
    <3> QED
      BY <3>1, <1>7
  <2>2. CASE i < pos' - 1
    <3>1. i + 1 \in 1..(pos' - 1) /\ from + i - 1 \in 1..(Len(trail) - 1)
      BY <2>2, <1>3, <1>4
    <3>2. trail'[i] = trail[from + i - 1] /\ trail'[i + 1] = trail[from + (i + 1) - 1]
      BY <3>1, <1>6
    <3>3. from + (i + 1) - 1 = (from + i - 1) + 1
      BY <1>4
    <3> QED
      BY <3>1, <3>2, <3>3, <1>2
  <2>3. i = pos' - 1 \/ i < pos' - 1
    <3>1. \A k \in Int : \A j \in 1..k : j = k \/ j < k
      OBVIOUS
    <3>2. pos' - 1 \in Int
      BY <1>8
    <3> QED
      BY <3>1, <3>2
  <2> QED
    BY <2>1, <2>2, <2>3
<1>10. \/ PastAt(pos - 2, 0)' /\ Len(undo') < UNDO_MAX
       \/ PastAt(pos - 2, 1)' /\ Len(undo') = UNDO_MAX
  <2>1. CASE from = 1
    BY <2>1, <1>2, <1>3, <1>4, <1>6, <1>7 DEF PastAt
  <2>2. CASE from = 2
    BY <2>2, <1>2, <1>3, <1>4, <1>6, <1>7 DEF PastAt
  <2> QED
    BY <2>1, <2>2, <1>4
<1> QED
  BY <1>2, <1>6, <1>7, <1>8, <1>9, <1>10 DEF Aligned

\* Lemma: the debounce after a keystroke.
LEMMA ExactDebounce ==
  ASSUME Bounded, Exact, DebounceFires, quiet'
  PROVE  Aligned'
<1>1. quiet /\ timer # NoTimer
  BY DEF DebounceFires, ideal
<1>2. /\ trail \in Seq(Text) /\ pos \in 1..Len(trail) /\ undo \in Seq(Text)
      /\ Len(trail) \in Nat /\ Len(undo) \in Nat /\ Len(undo) <= UNDO_MAX /\ timer \in Text
  BY <1>1 DEF Bounded, UndoTypeOK, StacksBounded
<1>3. /\ code = trail[pos] /\ pos = Len(trail) /\ pos > 1 /\ timer = trail[pos - 1]
      /\ \A i \in 1..(Len(trail) - 1) : trail[i] # trail[i + 1]
  BY <1>1 DEF Exact, Aligned
<1>4. PICK d \in {0, 1} : /\ PastAt(pos - 2, d)
                          /\ d = 0 => Len(undo) < UNDO_MAX
                          /\ d = 1 => Len(undo) = UNDO_MAX
  BY <1>1 DEF Exact, Aligned
<1>5. ~IsTop(timer, undo)
  <2> SUFFICES ASSUME undo # << >> PROVE timer # undo[Len(undo)]
    BY DEF IsTop, Top
  <2>1. Len(undo) > 0 /\ Len(undo) = (pos - 2) + d
    BY <1>2, <1>4 DEF PastAt
  <2>2. pos - 2 >= 1
    BY <1>2, <1>3, <1>4, <2>1
  <2>3. pos - 2 \in 1..(pos - 2) /\ pos - 2 \in 1..(Len(trail) - 1)
    BY <1>2, <1>3, <2>2
  <2>4. undo[(pos - 2) + d] = trail[pos - 2]
    BY <1>4, <2>3 DEF PastAt
  <2>5. trail[pos - 2] # trail[(pos - 2) + 1]
    BY <1>3, <2>3
  <2>6. (pos - 2) + 1 = pos - 1
    BY <1>2
  <2> QED
    BY <1>3, <2>1, <2>4, <2>5, <2>6
<1>6. /\ undo' = Append(Newest(undo), timer) /\ redo' = << >>
      /\ last' = timer /\ timer' = NoTimer /\ code' = code
      /\ trail' = trail /\ pos' = pos
  BY <1>5 DEF DebounceFires, PushedUndo, PushedRedo, ideal
<1>7. /\ Newest(undo) \in Seq(Text) /\ Len(Newest(undo)) = pos - 2
      /\ \A i \in 1..(pos - 2) : Newest(undo)[i] = trail[i]
  <2>1. /\ Newest(undo) \in Seq(Text) /\ Len(Newest(undo)) = Len(undo) - d
        /\ \A i \in 1..Len(Newest(undo)) : Newest(undo)[i] = undo[i + d]
    BY <1>2, <1>4, NewestFacts
  <2>2. Len(undo) = (pos - 2) + d /\ \A i \in 1..(pos - 2) : undo[i + d] = trail[i]
    BY <1>4 DEF PastAt
  <2>3. Len(Newest(undo)) = pos - 2
    BY <1>2, <1>4, <2>1, <2>2
  <2> QED
    BY <2>1, <2>2, <2>3
<1>8. /\ undo' \in Seq(Text) /\ Len(undo') = pos - 1
      /\ undo'[pos - 1] = timer
      /\ \A i \in 1..(pos - 2) : undo'[i] = trail[i]
  BY <1>2, <1>3, <1>6, <1>7
<1>9. \A i \in 1..(pos - 1) : undo'[i] = trail[i]
  BY <1>2, <1>3, <1>8
<1>10. PastAt(pos - 1, 0)'
  BY <1>2, <1>6, <1>8, <1>9 DEF PastAt
<1>11. FutureAt'
  BY <1>3, <1>6, <1>2 DEF FutureAt
<1>12. IsTop(last, undo)'
  BY <1>2, <1>3, <1>6, <1>8 DEF IsTop, Top
<1> QED
  BY <1>3, <1>6, <1>10, <1>11, <1>12 DEF Aligned

\* Lemma: an undo when no debounce is pending.
LEMMA ExactUndo ==
  ASSUME Bounded, Exact, HandleUndo, quiet'
  PROVE  Aligned'
<1>1. quiet /\ timer = NoTimer
  BY DEF HandleUndo, Disturbed
<1>2. /\ trail \in Seq(Text) /\ pos \in 1..Len(trail) /\ undo \in Seq(Text) /\ redo \in Seq(Text)
      /\ Len(trail) \in Nat /\ Len(undo) \in Nat /\ Len(redo) \in Nat /\ code \in Text
  BY DEF Bounded, UndoTypeOK
<1>3. /\ code = trail[pos] /\ PastAt(pos - 1, 0) /\ FutureAt
      /\ \A i \in 1..(Len(trail) - 1) : trail[i] # trail[i + 1]
      /\ last = code \/ IsTop(last, undo)
  BY <1>1 DEF Exact, Aligned
<1>4. Len(undo) = pos - 1 /\ \A i \in 1..(pos - 1) : undo[i] = trail[i]
  BY <1>2, <1>3 DEF PastAt
<1>5. CASE undo = << >>
  <2>1. UNCHANGED <<code, undo, redo, last, trail, timer>> /\ pos = 1 /\ pos' = pos
    BY <1>1, <1>2, <1>3, <1>4, <1>5 DEF HandleUndo
  <2> QED
    BY <1>1, <1>3, <2>1 DEF Aligned, PastAt, FutureAt, IsTop, Top
<1>6. CASE undo # << >>
  <2>1. /\ undo' = Pop(undo) /\ redo' = Append(redo, code)
        /\ last' = Top(undo) /\ code' = Top(undo) /\ timer' = NoTimer
        /\ trail' = trail
    BY <1>1, <1>3, <1>6 DEF HandleUndo
  <2>2. pos > 1 /\ pos' = pos - 1
    BY <1>1, <1>2, <1>4, <1>6 DEF HandleUndo
  <2>3. code' = trail'[pos']
    BY <1>2, <1>4, <2>1, <2>2 DEF Top
  <2>4. PastAt(pos - 1, 0)'
    <3>1. /\ Len(undo') = Len(undo) - 1
          /\ \A i \in 1..(Len(undo) - 1) : undo'[i] = undo[i]
      BY <1>2, <1>6, <2>1, PopFacts
    <3>2. Len(undo') = pos' - 1 /\ \A i \in 1..(pos' - 1) : undo'[i] = trail[i]
      BY <1>2, <1>4, <2>2, <3>1
    <3> QED
      BY <1>2, <2>1, <2>2, <3>2 DEF PastAt
  <2>5. /\ Len(redo) = Len(trail) - pos
        /\ \A i \in 1..Len(redo) : redo[i] = trail[Len(trail) + 1 - i]
    BY <1>3 DEF FutureAt
  <2>6. Len(redo') = Len(redo) + 1 /\ redo'[Len(redo) + 1] = code
        /\ \A i \in 1..Len(redo) : redo'[i] = redo[i]
    BY <1>2, <2>1
  <2>7. Len(trail) + 1 - (Len(redo) + 1) = pos
    BY <1>2, <2>5
  <2>8. FutureAt'
    <3>1. Len(redo') = Len(trail') - pos'
      BY <1>2, <2>1, <2>2, <2>5, <2>6
    <3>2. ASSUME NEW i \in 1..Len(redo') PROVE redo'[i] = trail[Len(trail) + 1 - i]
      <4>1. CASE i = Len(redo) + 1
        BY <4>1, <1>3, <2>6, <2>7
      <4>2. CASE i \in 1..Len(redo)
        BY <4>2, <2>5, <2>6
      <4> QED
        BY <4>1, <4>2, <1>2, <2>6
    <3> QED
      BY <2>1, <3>1, <3>2 DEF FutureAt
  <2> QED
    BY <1>3, <2>1, <2>3, <2>4, <2>8 DEF Aligned
<1> QED
  BY <1>5, <1>6

\* Lemma: a redo when no debounce is pending.
LEMMA ExactRedo ==
  ASSUME Bounded, Exact, HandleRedo, quiet'
  PROVE  Aligned'
<1>1. quiet /\ timer = NoTimer /\ redo # << >>
  BY DEF HandleRedo, Disturbed
<1>2. /\ trail \in Seq(Text) /\ pos \in 1..Len(trail) /\ undo \in Seq(Text) /\ redo \in Seq(Text)
      /\ Len(trail) \in Nat /\ Len(undo) \in Nat /\ Len(redo) \in Nat \ {0} /\ code \in Text
  BY <1>1 DEF Bounded, UndoTypeOK
<1>3. /\ code = trail[pos] /\ PastAt(pos - 1, 0) /\ FutureAt
      /\ \A i \in 1..(Len(trail) - 1) : trail[i] # trail[i + 1]
  BY <1>1 DEF Exact, Aligned
<1>4. /\ Len(redo) = Len(trail) - pos
      /\ \A i \in 1..Len(redo) : redo[i] = trail[Len(trail) + 1 - i]
      /\ Len(undo) = pos - 1 /\ \A i \in 1..(pos - 1) : undo[i] = trail[i]
  BY <1>2, <1>3 DEF FutureAt, PastAt
<1>5. /\ undo' = Append(undo, code) /\ redo' = Pop(redo)
      /\ last' = Top(redo) /\ code' = Top(redo) /\ timer' = NoTimer
      /\ trail' = trail /\ pos' = pos + 1
  BY <1>1, <1>2, <1>4 DEF HandleRedo
<1>6. code' = trail'[pos']
  <2>1. Len(trail) + 1 - Len(redo) = pos + 1
    BY <1>2, <1>4
  <2>2. redo[Len(redo)] = trail[Len(trail) + 1 - Len(redo)]
    BY <1>2, <1>4
  <2> QED
    BY <1>5, <2>1, <2>2 DEF Top
<1>7. PastAt(pos - 1, 0)'
  <2>1. Len(undo') = pos /\ undo'[pos] = code /\ \A i \in 1..(pos - 1) : undo'[i] = undo[i]
    BY <1>2, <1>4, <1>5
  <2>2. \A i \in 1..pos : undo'[i] = trail[i]
    <3>1. \A i \in 1..pos : i = pos \/ i \in 1..(pos - 1)
      BY <1>2
    <3>2. code = trail[pos]
      BY <1>3
    <3>3. \A i \in 1..(pos - 1) : undo'[i] = trail[i]
      BY <1>4, <2>1
    <3> QED
      BY <2>1, <3>1, <3>2, <3>3
  <2> QED
    BY <1>2, <1>5, <2>1, <2>2 DEF PastAt
<1>8. FutureAt'
  <2>1. Len(redo') = Len(redo) - 1 /\ \A i \in 1..(Len(redo) - 1) : redo'[i] = redo[i]
    BY <1>1, <1>2, <1>5, PopFacts
  <2> QED
    BY <1>2, <1>4, <1>5, <2>1 DEF FutureAt
<1> QED
  BY <1>3, <1>5, <1>6, <1>7, <1>8 DEF Aligned

\* With a pause after each keystroke, the text on display is the one at which an
\* ideal linear history stands, for any set of texts and any UNDO_MAX.
THEOREM QuietUndoIsIdeal == UndoSpec => []UndoIsExact
<1> DEFINE Inv == Bounded /\ Exact
<1>1. UndoInit => Inv
  <2> SUFFICES ASSUME UndoInit PROVE Exact
    BY Start
  <2>1. /\ Len(trail) = 1 /\ trail[pos] = code /\ pos = 1 /\ timer = NoTimer /\ last = code
        /\ Len(undo) = 0 /\ Len(redo) = 0
    BY DEF UndoInit
  <2> QED
    BY <2>1 DEF Exact, Aligned, PastAt, FutureAt
<1>2. Inv /\ [UndoNext]_undoVars => Inv'
  <2> SUFFICES ASSUME Inv, [UndoNext]_undoVars PROVE Exact'
    BY BoundedStep
  <2> SUFFICES ASSUME quiet' PROVE Aligned'
    BY DEF Exact
  <2>1. ASSUME NEW text \in Text, Type(text) PROVE Aligned'
    BY <2>1, ExactType
  <2>2. ASSUME NEW text \in Text, Commit(text) \/ Replaced(text) PROVE Aligned'
    BY <2>2 DEF Commit, Replaced, Disturbed
  <2>3. CASE DebounceFires
    BY <2>3, ExactDebounce
  <2>4. CASE HandleUndo
    BY <2>4, ExactUndo
  <2>5. CASE HandleRedo
    BY <2>5, ExactRedo
  <2>6. CASE UNCHANGED undoVars
    BY <2>6 DEF undoVars, editor, ideal, Exact, Aligned, PastAt, FutureAt, IsTop, Top
  <2> QED
    BY <2>1, <2>2, <2>3, <2>4, <2>5, <2>6 DEF UndoNext
<1>3. Inv => UndoIsExact
  BY DEF Exact, Aligned, UndoIsExact
<1> QED
  BY <1>1, <1>2, <1>3, PTL DEF UndoSpec

HIDE UndoMaxAssumption

----------------------------------------------------------------------------
(* Lines                                                                   *)

USE MaxLinesAssumption

\* Lemma: inserting and removing a line.
LEMMA InsertFacts ==
  ASSUME NEW S, NEW s \in Seq(S), NEW i \in 1..(Len(s) + 1), NEW x \in S
  PROVE  InsertAt(s, i, x) \in Seq(S) /\ Len(InsertAt(s, i, x)) = Len(s) + 1
<1>1. Len(s) \in Nat /\ i \in Int /\ i - 1 \in Int
  OBVIOUS
<1>2. /\ SubSeq(s, 1, i - 1) \in Seq(S) /\ Len(SubSeq(s, 1, i - 1)) = i - 1
  <2> DEFINE n == i - 1
  <2>1. n \in Int /\ n >= 0 /\ n <= Len(s) /\ \A j \in 1..n : s[j] \in S
    BY <1>1
  <2> HIDE DEF n
  <2>2. SubSeq(s, 1, n) \in Seq(S) /\ Len(SubSeq(s, 1, n)) = n
    BY <1>1, <2>1, SubSeqProperties
  <2> QED
    BY <2>2 DEF n
<1>3. /\ SubSeq(s, i, Len(s)) \in Seq(S) /\ Len(SubSeq(s, i, Len(s))) = Len(s) - i + 1
  <2>1. \A j \in i..Len(s) : s[j] \in S
    BY <1>1
  <2>2. SubSeq(s, i, Len(s)) \in Seq(S)
        /\ Len(SubSeq(s, i, Len(s))) = IF i <= Len(s) THEN Len(s) - i + 1 ELSE 0
    BY <1>1, <2>1, SubSeqProperties
  <2> QED
    BY <1>1, <2>2
<1>4. << x >> \in Seq(S) /\ Len(<< x >>) = 1
  OBVIOUS
<1>5. /\ SubSeq(s, 1, i - 1) \o << x >> \in Seq(S)
      /\ Len(SubSeq(s, 1, i - 1) \o << x >>) = i
  BY <1>1, <1>2, <1>4, ConcatProperties
<1> DEFINE upTo == SubSeq(s, 1, i - 1) \o << x >>
           rest == SubSeq(s, i, Len(s))
<1> HIDE DEF upTo, rest
<1>6. upTo \o rest \in Seq(S) /\ Len(upTo \o rest) = Len(upTo) + Len(rest)
  <2>1. upTo \in Seq(S) /\ rest \in Seq(S)
    BY <1>3, <1>5 DEF upTo, rest
  <2> QED
    BY <2>1, ConcatProperties
<1>7. InsertAt(s, i, x) = upTo \o rest
  BY DEF InsertAt, upTo, rest
<1>8. Len(upTo) = i /\ Len(rest) = Len(s) - i + 1
  BY <1>3, <1>5 DEF upTo, rest
<1> QED
  BY <1>1, <1>6, <1>7, <1>8

LEMMA RemoveFacts ==
  ASSUME NEW S, NEW s \in Seq(S), NEW i \in 1..Len(s)
  PROVE  RemoveAt(s, i) \in Seq(S) /\ Len(RemoveAt(s, i)) = Len(s) - 1
<1>1. Len(s) \in Nat /\ i \in Int /\ i + 1 \in Int
  OBVIOUS
<1>2. SubSeq(s, 1, i - 1) \in Seq(S) /\ Len(SubSeq(s, 1, i - 1)) = i - 1
  <2> DEFINE n == i - 1
  <2>1. n \in Int /\ n >= 0 /\ n <= Len(s) /\ \A j \in 1..n : s[j] \in S
    BY <1>1
  <2> HIDE DEF n
  <2>2. SubSeq(s, 1, n) \in Seq(S) /\ Len(SubSeq(s, 1, n)) = n
    BY <1>1, <2>1, SubSeqProperties
  <2> QED
    BY <2>2 DEF n
<1>3. SubSeq(s, i + 1, Len(s)) \in Seq(S) /\ Len(SubSeq(s, i + 1, Len(s))) = Len(s) - i
  <2> DEFINE m == i + 1
  <2>1. m \in Int /\ m = i + 1 /\ \A j \in m..Len(s) : s[j] \in S
    BY <1>1
  <2> HIDE DEF m
  <2>2. SubSeq(s, m, Len(s)) \in Seq(S)
        /\ Len(SubSeq(s, m, Len(s))) = IF m <= Len(s) THEN Len(s) - m + 1 ELSE 0
    BY <1>1, <2>1, SubSeqProperties
  <2> QED
    BY <1>1, <2>1, <2>2
<1> DEFINE a == SubSeq(s, 1, i - 1)
           b == SubSeq(s, i + 1, Len(s))
<1>4. RemoveAt(s, i) = a \o b
  BY DEF RemoveAt
<1> HIDE DEF a, b
<1>5. a \in Seq(S) /\ b \in Seq(S) /\ Len(a) = i - 1 /\ Len(b) = Len(s) - i
  BY <1>2, <1>3 DEF a, b
<1>6. a \o b \in Seq(S) /\ Len(a \o b) = Len(a) + Len(b)
  BY <1>5, ConcatProperties
<1> QED
  BY <1>1, <1>4, <1>5, <1>6

----------------------------------------------------------------------------

\* Lemma: a region is that of a section or of a label that is not indented.
LEMMA RegionFacts ==
  ASSUME NEW region \in FoldRegions
  PROVE  /\ region.start \in 1..Len(lines)
         /\ \/ IsSection(lines[region.start]) /\ region.body = SectionBody(region.start)
            \/ IsBlockLabel(lines[region.start]) /\ region.body = BlockBody(region.start)
<1>1. \/ \E i \in { i \in 1..Len(lines) : IsSection(lines[i]) } :
            region = [start |-> i, body |-> SectionBody(i)]
      \/ \E i \in { i \in 1..Len(lines) : IsBlockLabel(lines[i]) } :
            region = [start |-> i, body |-> BlockBody(i)]
  BY DEF FoldRegions
<1>2. ASSUME NEW i \in { i \in 1..Len(lines) : IsSection(lines[i]) },
             region = [start |-> i, body |-> SectionBody(i)]
      PROVE  region.start = i /\ region.body = SectionBody(i)
  BY <1>2
<1>3. ASSUME NEW i \in { i \in 1..Len(lines) : IsBlockLabel(lines[i]) },
             region = [start |-> i, body |-> BlockBody(i)]
      PROVE  region.start = i /\ region.body = BlockBody(i)
  BY <1>3
<1> QED
  BY <1>1, <1>2, <1>3

\* Lemma: a name put in the place of another leaves a line of the editor.
LEMMA RenamedTyped ==
  ASSUME NEW line \in AnyLine, NEW old \in Name, NEW new \in Name
  PROVE  Renamed(line, old, new) \in AnyLine /\ RenamedFirst(line, old, new) \in AnyLine
<1>1. old # None
  BY NameAssumption
<1> QED
  BY <1>1 DEF Renamed, RenamedFirst, AnyLine

\* Every variable of the editor's view keeps its type, and the editor its first line.
THEOREM TypeCorrect == Spec => []TypeOK
<1>1. EmptyLine \in AnyLine
  BY DEF EmptyLine, AnyLine
<1>2. Init => TypeOK
  <2>1. << EmptyLine >> \in Seq(AnyLine) /\ Len(<< EmptyLine >>) = 1
    BY <1>1
  <2> QED
    BY <2>1 DEF Init, TypeOK
<1>3. TypeOK /\ [Next]_vars => TypeOK'
  <2> SUFFICES ASSUME TypeOK, [Next]_vars PROVE TypeOK'
    OBVIOUS
  <2>0. lines \in Seq(AnyLine) /\ Len(lines) \in Nat /\ Len(lines) \in 1..MaxLines /\ folded \subseteq 1..MaxLines
    BY DEF TypeOK
  <2>1. CASE ToggleFold
    <3>1. PICK region \in FoldRegions :
            folded' = (folded \ {region.start}) \cup ({region.start} \ folded)
      BY <2>1 DEF ToggleFold
    <3>2. region.start \in 1..Len(lines)
      BY RegionFacts
    <3>3. region.start \in 1..MaxLines
      BY <2>0, <3>2
    <3> QED
      BY <2>0, <2>1, <3>1, <3>3 DEF ToggleFold, TypeOK
  <2>2. CASE InsertLine
    <3>1. PICK i \in 1..(Len(lines) + 1), line \in Line : lines' = InsertAt(lines, i, line)
      BY <2>2 DEF InsertLine
    <3>2. line \in AnyLine
      BY LineAssumption
    <3>3. lines' \in Seq(AnyLine) /\ Len(lines') = Len(lines) + 1
      BY <2>0, <3>1, <3>2, InsertFacts
    <3> QED
      BY <2>0, <2>2, <3>3 DEF InsertLine, TypeOK
  <2>3. CASE DeleteLine
    <3>1. PICK i \in 1..Len(lines) :
            lines' = IF Len(lines) = 1 THEN << EmptyLine >> ELSE RemoveAt(lines, i)
      BY <2>3 DEF DeleteLine
    <3>2. lines' \in Seq(AnyLine) /\ Len(lines') \in 1..MaxLines
      <4>1. CASE Len(lines) = 1
        BY <1>1, <3>1, <4>1
      <4>2. CASE Len(lines) # 1
        <5>1. lines' = RemoveAt(lines, i)
          BY <3>1, <4>2
        <5>2. lines' \in Seq(AnyLine) /\ Len(lines') = Len(lines) - 1
          BY <2>0, <5>1, RemoveFacts
        <5> QED
          BY <2>0, <4>2, <5>2
      <4> QED
        BY <4>1, <4>2
    <3> QED
      BY <2>0, <2>3, <3>2 DEF DeleteLine, TypeOK
  <2>4. CASE ChangeLine
    <3>1. PICK i \in 1..Len(lines), line \in Line : lines' = [lines EXCEPT ![i] = line]
      BY <2>4 DEF ChangeLine
    <3>2. line \in AnyLine
      BY LineAssumption
    <3>3. lines' \in Seq(AnyLine) /\ Len(lines') = Len(lines)
      BY <2>0, <3>1, <3>2, ExceptSeq
    <3> QED
      BY <2>0, <2>4, <3>3 DEF ChangeLine, TypeOK
  <2>5. ASSUME NEW old \in Sought, NEW new \in Sought, HandleReplaceOne(old, new) PROVE TypeOK'
    <3>0. old \in Name /\ new \in Name
      BY NameAssumption
    <3>1. PICK at \in FindMatches(old) :
            \/ lines' = [lines EXCEPT ![at] = RenamedFirst(@, old, new)]
            \/ at = 2 /\ lines' = Tail([lines EXCEPT ![at] = RenamedFirst(@, old, new)])
      BY <2>5 DEF HandleReplaceOne
    <3> DEFINE all == [lines EXCEPT ![at] = RenamedFirst(@, old, new)]
    <3>2. at \in 1..Len(lines)
      BY DEF FindMatches
    <3>3. all \in Seq(AnyLine) /\ Len(all) = Len(lines)
      <4>1. RenamedFirst(lines[at], old, new) \in AnyLine
        BY <2>0, <3>0, <3>2, RenamedTyped
      <4> QED
        BY <2>0, <3>2, <4>1, ExceptSeq
    <3> HIDE DEF all
    <3>4. lines' = all \/ (at = 2 /\ lines' = Tail(all))
      BY <3>1 DEF all
    <3>5. lines' \in Seq(AnyLine) /\ Len(lines') \in 1..MaxLines
      <4>1. CASE lines' = all
        BY <2>0, <3>3, <4>1
      <4>2. CASE at = 2 /\ lines' = Tail(all)
        <5>1. all # << >> /\ Len(all) >= 2
          BY <2>0, <3>2, <3>3, <4>2
        <5>2. Tail(all) \in Seq(AnyLine) /\ Len(Tail(all)) = Len(all) - 1
          BY <3>3, <5>1, HeadTailProperties
        <5> QED
          BY <2>0, <3>3, <4>2, <5>1, <5>2
      <4> QED
        BY <3>4, <4>1, <4>2
    <3> QED
      BY <2>0, <2>5, <3>5 DEF HandleReplaceOne, TypeOK
  <2>6. ASSUME NEW old \in Sought, NEW new \in Sought, HandleReplaceAll(old, new) PROVE TypeOK'
    <3>0. old \in Name /\ new \in Name
      BY NameAssumption
    <3>1. \A i \in 1..Len(lines) : Renamed(lines[i], old, new) \in AnyLine
      BY <2>0, <3>0, RenamedTyped
    <3>2. lines' \in Seq(AnyLine) /\ Len(lines') = Len(lines)
      BY <2>0, <2>6, <3>1 DEF HandleReplaceAll
    <3> QED
      BY <2>0, <2>6, <3>2 DEF HandleReplaceAll, TypeOK
  <2>7. CASE UNCHANGED vars
    BY <2>7 DEF vars, TypeOK
  <2> QED
    BY <2>1, <2>2, <2>3, <2>4, <2>5, <2>6, <2>7 DEF Next
<1> QED
  BY <1>2, <1>3, PTL DEF Spec

----------------------------------------------------------------------------
(* Every hidden line can be shown again                                    *)

\* Lemma: the toggle of a folded section is on display, since no region contains
\* the first line of a section.
LEMMA SectionsShown ==
  ASSUME TypeOK, NEW i \in 1..Len(lines), IsSection(lines[i])
  PROVE  i \notin HiddenLines
<1> SUFFICES ASSUME i \in HiddenLines PROVE FALSE
  OBVIOUS
<1>1. PICK region \in FoldRegions : i \in region.body
  BY DEF HiddenLines
<1>2. region.start \in Nat /\ Len(lines) \in Nat /\ i \in Nat
  <2>1. Len(lines) \in Nat
    BY DEF TypeOK
  <2> QED
    BY <2>1, RegionFacts
<1>3. \/ i \in SectionBody(region.start)
      \/ i \in BlockBody(region.start)
  BY <1>1, RegionFacts
<1>4. i \in (region.start + 1)..i
  BY <1>2, <1>3 DEF SectionBody, BlockBody, Below
<1> QED
  BY <1>3, <1>4 DEF SectionBody, BlockBody, Below, EndsBlock

\* Lemma: a section whose region contains a label contains the label's block.
LEMMA BlocksAreInside ==
  ASSUME TypeOK, NEW a \in 1..Len(lines), NEW b \in SectionBody(a), NEW c \in BlockBody(b)
  PROVE  c \in SectionBody(a)
<1>1. Len(lines) \in Nat /\ a \in Nat
  BY DEF TypeOK
<1>2. b \in (a + 1)..Len(lines) /\ \A i \in (a + 1)..b : ~IsSection(lines[i])
  BY DEF SectionBody, BlockBody, Below
<1>3. c \in (b + 1)..Len(lines) /\ \A i \in (b + 1)..c : ~IsSection(lines[i])
  BY DEF SectionBody, BlockBody, Below, EndsBlock
<1>4. c \in (a + 1)..Len(lines)
  BY <1>1, <1>2, <1>3
<1>5. ASSUME NEW i \in (a + 1)..c PROVE ~IsSection(lines[i])
  <2>1. i \in (a + 1)..b \/ i \in (b + 1)..c
    BY <1>1, <1>2, <1>3
  <2> QED
    BY <1>2, <1>3, <2>1
<1> QED
  BY <1>4, <1>5 DEF SectionBody, BlockBody, Below

\* Whatever was folded and however the lines have changed since: a hidden line is
\* in a folded region whose toggle is on display.
THEOREM HiddenCanBeShown == Spec => []Unfoldable
<1>1. TypeOK => Unfoldable
  <2> SUFFICES ASSUME TypeOK, NEW line \in HiddenLines
               PROVE  \E region \in FoldRegions :
                        line \in region.body /\ region.start \in folded \ HiddenLines
    BY DEF Unfoldable
  <2>1. PICK inner \in FoldRegions : inner.start \in folded /\ line \in inner.body
    BY DEF HiddenLines
  <2>2. CASE inner.start \notin HiddenLines
    BY <2>1, <2>2
  <2>3. CASE inner.start \in HiddenLines
    <3>1. PICK outer \in FoldRegions : outer.start \in folded /\ inner.start \in outer.body
      BY <2>3 DEF HiddenLines
    <3>2. IsBlockLabel(lines[inner.start]) /\ inner.body = BlockBody(inner.start)
      BY <2>3, RegionFacts, SectionsShown
    <3>3. IsSection(lines[outer.start]) /\ outer.body = SectionBody(outer.start)
      <4> SUFFICES ASSUME outer.body = BlockBody(outer.start) PROVE FALSE
        BY RegionFacts
      <4>1. outer.start \in Nat /\ inner.start \in Nat
        <5>1. Len(lines) \in Nat
          BY DEF TypeOK
        <5> QED
          BY <5>1, RegionFacts
      <4>2. inner.start \in (outer.start + 1)..inner.start
        BY <3>1, <4>1 DEF SectionBody, BlockBody, Below
      <4> QED
        BY <3>1, <3>2, <4>2 DEF SectionBody, BlockBody, Below, EndsBlock
    <3>4. line \in outer.body
      BY <2>1, <3>1, <3>2, <3>3, RegionFacts, BlocksAreInside
    <3>5. outer.start \notin HiddenLines
      BY <3>3, RegionFacts, SectionsShown
    <3> QED
      BY <3>1, <3>4, <3>5
  <2> QED
    BY <2>2, <2>3
<1> QED
  BY <1>1, TypeCorrect, PTL

----------------------------------------------------------------------------
(* The breadcrumb                                                          *)

\* Lemma: the lines above the active one, one after the other.
LEMMA BreadcrumbFacts ==
  ASSUME NEW at \in Nat, NEW I, << >> \in I[0],
         \A up \in 1..at : \A parts \in I[up - 1] : Walk(lines[at + 1 - up], parts) \in I[up]
  PROVE  Breadcrumb(at) \in I[at]
<1> DEFINE value(f, up) == IF up = 0 THEN << >> ELSE Walk(lines[at + 1 - up], f[up - 1])
           All  == UNION { I[up] : up \in 0..at }
           op   == [p \in (1..at) \X All |-> Walk(lines[at + 1 - p[1]], p[2])]
           e    == << >>
<1>1. ASSUME NEW up \in 1..at, NEW parts \in I[up - 1]
      PROVE  op[<<up, parts>>] = Walk(lines[at + 1 - up], parts) /\ op[<<up, parts>>] \in I[up]
  <2>1. up - 1 \in 0..at
    OBVIOUS
  <2>2. parts \in All
    BY <2>1
  <2> HIDE DEF All
  <2>3. op[<<up, parts>>] = Walk(lines[at + 1 - up], parts)
    BY <2>2
  <2> HIDE DEF op
  <2> QED
    BY <2>3
<1> HIDE DEF op
<1>2. PICK f : Follows(f, at, e, op) /\ Within(f, at, I)
  <2>1. Leads(op, at, I)
    BY <1>1 DEF Leads
  <2>2. e \in I[0]
    OBVIOUS
  <2> HIDE DEF e
  <2> QED
    BY <2>1, <2>2, Recursion
<1>3. /\ f[0] = << >> /\ \A up \in 1..at : f[up] = op[<<up, f[up - 1]>>]
      /\ \A up \in 0..at : f[up] \in I[up]
  BY <1>2 DEF Follows, Within
<1>4. ASSUME NEW up \in 1..at PROVE f[up] = Walk(lines[at + 1 - up], f[up - 1])
  <2>1. up - 1 \in 0..at
    OBVIOUS
  <2> QED
    BY <1>1, <1>3, <2>1
<1> DEFINE parts == CHOOSE g : g = [up \in 0..at |-> value(g, up)]
<1>5. Breadcrumb(at) = parts[at]
  BY DEF Breadcrumb
<1>6. parts = [up \in 0..at |-> value(parts, up)]
  <2> DEFINE g == [up \in 0..at |-> f[up]]
  <2>1. \A up \in 0..at : g[up] = f[up]
    OBVIOUS
  <2>2. g = [up \in 0..at |-> g[up]]
    OBVIOUS
  <2> HIDE DEF g
  <2>3. ASSUME NEW up \in 0..at PROVE g[up] = value(g, up)
    <3>1. up # 0 => up \in 1..at /\ up - 1 \in 0..at
      OBVIOUS
    <3> QED
      BY <1>3, <1>4, <2>1, <3>1
  <2>4. g = [up \in 0..at |-> value(g, up)]
    BY <2>2, <2>3
  <2> QED
    BY <2>4
<1> DEFINE Same == { up \in 0..at : parts[up] = f[up] }
<1>7. at \in Same
  <2>1. 0 \in Same
    <3>1. 0 \in 0..at
      OBVIOUS
    <3> HIDE DEF parts
    <3> QED
      BY <1>3, <1>6, <3>1
  <2>2. ASSUME NEW up \in 1..at, up - 1 \in Same PROVE up \in Same
    <3>1. up \in 0..at /\ up # 0
      OBVIOUS
    <3> HIDE DEF parts
    <3> QED
      BY <1>4, <1>6, <2>2, <3>1
  <2> HIDE DEF Same
  <2>3. 0..at \subseteq Same
    BY <2>1, <2>2, Induction
  <2> QED
    BY <2>3
<1>8. parts[at] = f[at] /\ f[at] \in I[at]
  <2> HIDE DEF parts
  <2> QED
    BY <1>3, <1>7
<1> QED
  BY <1>5, <1>8

\* Lemma: two parts, one behind the other.
LEMMA PairOfTwo ==
  ASSUME NEW a, NEW b
  PROVE  << a >> \o << b >> = << a, b >>
<1> DEFINE S == {a, b}
           s == << a >>
           t == << b >>
           p == << a, b >>
<1>1. /\ s \in Seq(S) /\ t \in Seq(S) /\ p \in Seq(S)
      /\ Len(s) = 1 /\ Len(t) = 1 /\ Len(p) = 2
      /\ s[1] = a /\ t[1] = b /\ p[1] = a /\ p[2] = b
  OBVIOUS
<1> HIDE DEF S, s, t, p
<1>2. /\ s \o t \in Seq(S) /\ Len(s \o t) = Len(s) + Len(t)
      /\ \A i \in 1..Len(s \o t) : (s \o t)[i] = IF i <= Len(s) THEN s[i] ELSE t[i - Len(s)]
  BY <1>1, ConcatProperties
<1>3. Len(s \o t) = 2 /\ \A i \in 1..2 : (s \o t)[i] = p[i]
  BY <1>1, <1>2
<1>4. s \o t = p
  BY <1>1, <1>2, <1>3, SeqEqual
<1> QED
  BY <1>4 DEF s, t, p

\* Lemma: the walk up reaches the label first, then the section, and then it is over.
LEMMA Enclosed ==
  ASSUME TypeOK, NEW at \in DOMAIN lines, NEW top \in 1..at, IsSection(lines[top]),
         \A j \in (top + 1)..at : ~IsSection(lines[j]),
         NEW name \in Name \ Dotted,
         { lines[i].label : i \in top..at } \ {None} = {name}
  PROVE  Breadcrumb(at) = << "section", name >>
<1> DEFINE below    == at - top
           seen(up) == \E j \in (at + 1 - up)..at : lines[j].label # None
           state(up) == IF up <= below THEN IF seen(up) THEN << name >> ELSE << >>
                        ELSE << "section", name >>
           I == [up \in 0..at |-> {state(up)}]
<1>1. at \in Nat /\ top \in Nat /\ 1 <= top /\ top <= at /\ below \in 0..at /\ below < at
  BY DEF TypeOK
<1>2. \A i \in 1..at : lines[i] \in AnyLine
  BY DEF TypeOK
<1>3. name # None /\ name # "section" /\ name \notin Dotted
  BY NameAssumption
<1>4. \A i \in top..at : lines[i].label \in {None, name}
  OBVIOUS
<1>5. lines[top].label = None
  BY <1>1, <1>2 DEF IsSection, AnyLine
<1>6. PICK j \in top..at : lines[j].label = name
  OBVIOUS
<1>7. \A up \in 0..at : I[up] = {state(up)}
  OBVIOUS
<1> HIDE DEF I
<1>8. << >> \in I[0]
  <2>1. 0 \in 0..at /\ 0 <= below /\ ~seen(0)
    BY <1>1
  <2>2. state(0) = << >>
    BY <2>1
  <2> HIDE DEF state
  <2> QED
    BY <1>7, <2>1, <2>2
<1>9. ASSUME NEW up \in 1..at, NEW parts \in I[up - 1]
      PROVE  Walk(lines[at + 1 - up], parts) \in I[up]
  <2> DEFINE n    == at + 1 - up
             line == lines[n]
  <2>1. /\ up \in Nat /\ up - 1 \in 0..at /\ up \in 0..at
        /\ n \in 1..at /\ n + up = at + 1
    BY <1>1
  <2>2. parts = state(up - 1)
    <3> HIDE DEF state
    <3> QED
      BY <1>7, <2>1
  <2>3. I[up] = {state(up)}
    BY <1>7, <2>1
  <2>4. SUFFICES Walk(line, parts) = state(up)
    <3> HIDE DEF state
    <3> QED
      BY <2>3, <2>4
  <2>5. CASE up <= below
    <3>1. n \in (top + 1)..at /\ n \in top..at /\ up - 1 <= below
      BY <1>1, <2>1, <2>5
    <3>2. ~IsSection(line) /\ line.label \in {None, name}
      BY <1>4, <3>1
    <3>3. \A h \in n..at : h = n \/ h \in (n + 1)..at
      BY <2>1
    <3>4. seen(up) <=> line.label # None \/ seen(up - 1)
      <4>1. at + 1 - (up - 1) = n + 1 /\ n \in n..at /\ \A h \in (n + 1)..at : h \in n..at
        BY <1>1, <2>1
      <4> QED
        BY <3>3, <4>1
    <3>5. parts = (IF seen(up - 1) THEN << name >> ELSE << >>)
          /\ state(up) = (IF seen(up) THEN << name >> ELSE << >>)
      BY <2>2, <2>5, <3>1
    <3> HIDE DEF seen, line, n
    <3>6. CASE seen(up - 1)
      <4>1. parts = << name >> /\ state(up) = << name >> /\ Len(parts) = 1
            /\ \E i \in 1..Len(parts) : parts[i] = name
        BY <3>4, <3>5, <3>6
      <4>2. Walk(line, parts) = parts
        BY <3>2, <1>3, <4>1 DEF Walk
      <4> QED
        BY <4>1, <4>2
    <3>7. CASE ~seen(up - 1)
      <4>1. parts = << >> /\ Len(parts) = 0
        BY <3>5, <3>7
      <4>2. Walk(line, parts) = IF line.label # None THEN << line.label >> ELSE << >>
        BY <3>2, <4>1 DEF Walk
      <4> QED
        BY <3>2, <3>4, <3>5, <3>7, <4>2
    <3> QED
      BY <3>6, <3>7
  <2>6. CASE up = below + 1
    <3>1. n = top /\ up - 1 <= below /\ ~(up <= below) /\ up - 1 = below
      BY <1>1, <2>1, <2>6
    <3>2. seen(below)
      <4>1. j # top /\ at + 1 - below = top + 1
        BY <1>1, <1>3, <1>5, <1>6
      <4>2. j \in (top + 1)..at
        BY <1>1, <4>1
      <4> QED
        BY <1>3, <1>6, <4>1, <4>2
    <3>3. parts = << name >> /\ state(up) = << "section", name >>
      <4> HIDE DEF seen, below
      <4> QED
        BY <2>2, <3>1, <3>2
    <3>4. IsSection(line) /\ Len(parts) = 1 /\ parts[1] = name
      BY <3>1, <3>3
    <3>5. ~ \E i \in 1..Len(parts) : parts[i] \in Dotted \cup {"section"}
      BY <1>3, <3>4
    <3>6. Walk(line, parts) = << "section" >> \o parts
      BY <3>4, <3>5 DEF Walk
    <3>7. << "section" >> \o << name >> = << "section", name >>
      BY PairOfTwo
    <3> QED
      BY <3>3, <3>6, <3>7
  <2>7. CASE up > below + 1
    <3>1. ~(up - 1 <= below) /\ ~(up <= below)
      BY <1>1, <2>1, <2>7
    <3>2. parts = << "section", name >> /\ state(up) = << "section", name >>
      BY <2>2, <3>1
    <3>3. Len(parts) = 2
      BY <3>2
    <3> QED
      BY <3>2, <3>3 DEF Walk
  <2> QED
    BY <1>1, <2>1, <2>5, <2>6, <2>7
<1>10. Breadcrumb(at) \in I[at]
  <2> HIDE DEF state, below
  <2> QED
    BY <1>1, <1>8, <1>9, BreadcrumbFacts
<1>11. at \in 0..at /\ state(at) = << "section", name >>
  BY <1>1
<1> QED
  BY <1>7, <1>10, <1>11

\* Under a section and its only label, unless that is a local one, the breadcrumb is
\* that section and that label, for programs of any length (App.tsx:400-411).
THEOREM BreadcrumbIsEnclosing == Spec => []BreadcrumbEncloses
<1>1. TypeOK => BreadcrumbEncloses
  BY Enclosed DEF BreadcrumbEncloses
<1> QED
  BY <1>1, TypeCorrect, PTL

----------------------------------------------------------------------------
(* The jump arrows                                                         *)

\* Lemma: the first and the last line of an arrow, and how far they are apart.
LEMMA ArrowFacts ==
  ASSUME TypeOK, NEW a \in RawArrows
  PROVE  /\ Len(lines) \in Nat
         /\ a.from \in 1..Len(lines) /\ a.to \in 1..Len(lines)
         /\ a = [from |-> a.from, to |-> LabelPosition(lines[a.from].to)]
         /\ Low(a) = (IF a.from <= a.to THEN a.from ELSE a.to)
         /\ High(a) = (IF a.from <= a.to THEN a.to ELSE a.from)
         /\ Low(a) \in 1..Len(lines) /\ High(a) \in 1..Len(lines) /\ Low(a) <= High(a)
         /\ Span(a) = High(a) - Low(a) /\ Span(a) \in 0..Len(lines)
<1>1. Len(lines) \in Nat
  BY DEF TypeOK
<1>2. PICK i \in 1..Len(lines) : /\ a = [from |-> i, to |-> LabelPosition(lines[i].to)]
                                 /\ Definitions(lines[i].to) # {}
  BY DEF RawArrows
<1>3. a.from = i /\ a.to = LabelPosition(lines[i].to)
  BY <1>2
<1>4. a.to \in 1..Len(lines)
  <2> DEFINE D == Definitions(lines[i].to)
  <2>1. D \in SUBSET (1..Len(lines)) /\ D # {}
    BY <1>2 DEF Definitions
  <2> HIDE DEF D
  <2>2. \E x \in D : \A y \in D : x >= y
    BY <1>1, <2>1, GreatestExists
  <2>3. Max(D) \in D
    BY <2>2 DEF Max
  <2>4. a.to = Max(D)
    BY <1>3 DEF LabelPosition, D
  <2> QED
    BY <2>1, <2>3, <2>4
<1>5. a.from \in 1..Len(lines)
  BY <1>3
<1> DEFINE from == a.from
           to   == a.to
<1> HIDE DEF from, to
<1>6. from \in 1..Len(lines) /\ to \in 1..Len(lines)
  BY <1>4, <1>5 DEF from, to
<1>7. Min({from, to}) = (IF from <= to THEN from ELSE to)
  <2> DEFINE S == {from, to}
             m == IF from <= to THEN from ELSE to
  <2>1. m \in S /\ \A y \in S : m <= y
    BY <1>1, <1>6
  <2>2. \A x \in S : (\A y \in S : x <= y) => x = m
    BY <1>1, <1>6
  <2> HIDE DEF S, m
  <2>3. Min(S) \in S /\ \A y \in S : Min(S) <= y
    BY <2>1 DEF Min
  <2>4. Min(S) = m
    BY <2>2, <2>3
  <2> QED
    BY <2>4 DEF S, m
<1>8. Max({from, to}) = (IF from <= to THEN to ELSE from)
  <2> DEFINE S == {from, to}
             m == IF from <= to THEN to ELSE from
  <2>1. m \in S /\ \A y \in S : m >= y
    BY <1>1, <1>6
  <2>2. \A x \in S : (\A y \in S : x >= y) => x = m
    BY <1>1, <1>6
  <2> HIDE DEF S, m
  <2>3. Max(S) \in S /\ \A y \in S : Max(S) >= y
    BY <2>1 DEF Max
  <2>4. Max(S) = m
    BY <2>2, <2>3
  <2> QED
    BY <2>4 DEF S, m
<1>9. Low(a) = (IF from <= to THEN from ELSE to) /\ High(a) = (IF from <= to THEN to ELSE from)
  BY <1>7, <1>8 DEF Low, High, from, to
<1>10. /\ Low(a) \in 1..Len(lines) /\ High(a) \in 1..Len(lines) /\ Low(a) <= High(a)
       /\ Span(a) = High(a) - Low(a) /\ Span(a) \in 0..Len(lines)
  BY <1>1, <1>6, <1>9 DEF Span
<1> QED
  BY <1>1, <1>2, <1>3, <1>4, <1>5, <1>9, <1>10 DEF from, to

\* Lemma: the order in which arrows get their levels is a total one: no two arrows
\* leave the same line.
LEMMA BeforeFacts ==
  ASSUME TypeOK, NEW a \in RawArrows, NEW b \in RawArrows
  PROVE  /\ a.from = b.from => a = b
         /\ a = b \/ Before(a, b) \/ Before(b, a)
         /\ ~ (Before(a, b) /\ Before(b, a))
         /\ ~ Before(a, a)
         /\ \A c \in RawArrows : Before(a, b) /\ Before(b, c) => Before(a, c)
<1>1. a.from = b.from => a = b
  BY ArrowFacts
<1>2. \A x \in RawArrows : x.from \in Int /\ Span(x) \in Int
  BY ArrowFacts
<1>3. a.from # b.from => Before(a, b) \/ Before(b, a)
  BY <1>2 DEF Before
<1>4. ~ (Before(a, b) /\ Before(b, a)) /\ ~ Before(a, a)
  BY <1>2 DEF Before
<1>5. \A c \in RawArrows : Before(a, b) /\ Before(b, c) => Before(a, c)
  BY <1>2 DEF Before
<1> QED
  BY <1>1, <1>3, <1>4, <1>5

\* Lemma: of some arrows one comes before all others, and one after.
LEMMA LeastArrow ==
  ASSUME TypeOK, NEW S \in SUBSET RawArrows, S # {}
  PROVE  \E m \in S : \A x \in S : x = m \/ Before(m, x)
<1>1. \A x \in S : /\ x.from \in 1..Len(lines) /\ Span(x) \in 0..Len(lines) /\ Len(lines) \in Nat
  BY ArrowFacts
<1> DEFINE N     == Len(lines) + 1
           spans == { Span(x) + 1 : x \in S }
<1>2. PICK s \in spans : \A y \in spans : s <= y
  <2>1. N \in Nat /\ spans \in SUBSET (1..N) /\ spans # {}
    BY <1>1
  <2> HIDE DEF N, spans
  <2> QED
    BY <2>1, LeastExists
<1> DEFINE tops  == { x \in S : Span(x) + 1 = s }
           froms == { x.from : x \in tops }
<1>3. PICK f \in froms : \A y \in froms : f <= y
  <2>1. tops # {}
    BY <1>2
  <2>2. N \in Nat /\ froms \in SUBSET (1..N) /\ froms # {}
    BY <1>1, <2>1
  <2> HIDE DEF N, froms
  <2> QED
    BY <2>2, LeastExists
<1>4. PICK m \in tops : f = m.from
  OBVIOUS
<1>5. \A x \in S : Span(m) < Span(x) \/ (Span(m) = Span(x) /\ m.from <= x.from)
  <2> TAKE x \in S
  <2>1. Span(x) + 1 \in spans /\ Span(m) + 1 = s
    BY <1>4
  <2>2. Span(m) <= Span(x)
    <3>1. Span(m) + 1 <= Span(x) + 1
      <4> HIDE DEF spans
      <4> QED
        BY <1>2, <2>1
    <3>2. Span(m) \in Int /\ Span(x) \in Int
      BY <1>1, <1>4
    <3> QED
      BY <3>1, <3>2
  <2>3. Span(x) = Span(m) => m.from <= x.from
    BY <1>3, <1>4, <2>1
  <2> QED
    BY <1>1, <1>4, <2>2, <2>3
<1>6. \A x \in S : x.from = m.from => x = m
  BY <1>4, BeforeFacts
<1>7. ASSUME NEW x \in S PROVE x = m \/ Before(m, x)
  <2>1. x.from \in Int /\ m.from \in Int
    BY <1>1, <1>4
  <2> QED
    BY <1>5, <1>6, <2>1 DEF Before
<1> QED
  BY <1>4, <1>7

LEMMA GreatestArrow ==
  ASSUME TypeOK, NEW S \in SUBSET RawArrows, S # {}
  PROVE  \E m \in S : \A x \in S : x = m \/ Before(x, m)
<1>1. \A x \in S : /\ x.from \in 1..Len(lines) /\ Span(x) \in 0..Len(lines) /\ Len(lines) \in Nat
  BY ArrowFacts
<1> DEFINE N     == Len(lines) + 1
           spans == { Span(x) + 1 : x \in S }
<1>2. PICK s \in spans : \A y \in spans : s >= y
  <2>1. N \in Nat /\ spans \in SUBSET (1..N) /\ spans # {}
    BY <1>1
  <2> HIDE DEF N, spans
  <2> QED
    BY <2>1, GreatestExists
<1> DEFINE tops  == { x \in S : Span(x) + 1 = s }
           froms == { x.from : x \in tops }
<1>3. PICK f \in froms : \A y \in froms : f >= y
  <2>1. tops # {}
    BY <1>2
  <2>2. N \in Nat /\ froms \in SUBSET (1..N) /\ froms # {}
    BY <1>1, <2>1
  <2> HIDE DEF N, froms
  <2> QED
    BY <2>2, GreatestExists
<1>4. PICK m \in tops : f = m.from
  OBVIOUS
<1>5. \A x \in S : Span(x) < Span(m) \/ (Span(x) = Span(m) /\ x.from <= m.from)
  <2> TAKE x \in S
  <2>1. Span(x) + 1 \in spans /\ Span(m) + 1 = s
    BY <1>4
  <2>2. Span(x) <= Span(m)
    <3>1. Span(m) + 1 >= Span(x) + 1
      <4> HIDE DEF spans
      <4> QED
        BY <1>2, <2>1
    <3>2. Span(m) \in Int /\ Span(x) \in Int
      BY <1>1, <1>4
    <3> QED
      BY <3>1, <3>2
  <2>3. Span(x) = Span(m) => x.from <= m.from
    BY <1>3, <1>4, <2>1
  <2> QED
    BY <1>1, <1>4, <2>2, <2>3
<1>6. \A x \in S : x.from = m.from => x = m
  BY <1>4, BeforeFacts
<1>7. ASSUME NEW x \in S PROVE x = m \/ Before(x, m)
  <2>1. x.from \in Int /\ m.from \in Int
    BY <1>1, <1>4
  <2> QED
    BY <1>5, <1>6, <2>1 DEF Before
<1> QED
  BY <1>4, <1>7

\* The levels that the arrows overlapping a have been given before it, and what a
\* is given then.
Taken(level, a) == { level[b] : b \in { b \in RawArrows : Before(b, a) /\ Overlap(a, b) } }
Given(level, a) == Min((0..Len(lines)) \ Taken(level, a))

\* Lemma: a level is taken by an arrow.
LEMMA TakenFacts ==
  ASSUME NEW level, NEW a, NEW l
  PROVE  l \in Taken(level, a)
           <=> \E b \in RawArrows : Before(b, a) /\ Overlap(a, b) /\ level[b] = l
<1> DEFINE S == { b \in RawArrows : Before(b, a) /\ Overlap(a, b) }
<1>1. Taken(level, a) = { level[b] : b \in S }
  BY DEF Taken
<1>2. l \in { level[b] : b \in S } <=> \E b \in S : level[b] = l
  OBVIOUS
<1>3. (\E b \in S : level[b] = l)
        <=> \E b \in RawArrows : Before(b, a) /\ Overlap(a, b) /\ level[b] = l
  OBVIOUS
<1> HIDE DEF S
<1> QED
  BY <1>1, <1>2, <1>3

\* Lemma: only the levels of the arrows before a count.
LEMMA SameGiven ==
  ASSUME NEW a, NEW g, NEW h, \A b \in RawArrows : Before(b, a) => g[b] = h[b]
  PROVE  Given(g, a) = Given(h, a)
<1>1. Taken(g, a) = Taken(h, a)
  BY DEF Taken
<1> QED
  BY <1>1 DEF Given

\* Lemma: the levels can be given one after the other, so that the recursive
\* definition has a value.
LEMMA LevelFacts ==
  ASSUME TypeOK
  PROVE  \A a \in RawArrows : Level[a] = Given(Level, a)
<1> DEFINE Good(g, a) == \A b \in RawArrows : b = a \/ Before(b, a) => g[b] = Given(g, b)
           Bad == { a \in RawArrows : ~ \E g : Good(g, a) }
<1>1. ASSUME NEW a \in RawArrows, NEW g, \A b \in RawArrows : Before(b, a) => g[b] = Given(g, b)
      PROVE  \E h : Good(h, a)
  <2> DEFINE h == [b \in RawArrows |-> IF b = a THEN Given(g, a) ELSE g[b]]
  <2>1. h[a] = Given(g, a) /\ \A b \in RawArrows : b # a => h[b] = g[b]
    OBVIOUS
  <2> HIDE DEF h
  <2>2. ASSUME NEW b \in RawArrows, b = a \/ Before(b, a) PROVE h[b] = Given(h, b)
    <3>1. \A c \in RawArrows : Before(c, b) => c # a /\ g[c] = h[c]
      BY <2>1, <2>2, BeforeFacts
    <3>2. Given(g, b) = Given(h, b)
      BY <3>1, SameGiven
    <3>3. ~ Before(a, a)
      BY BeforeFacts
    <3> QED
      BY <1>1, <2>1, <2>2, <3>2, <3>3
  <2> QED
    BY <2>2
<1>2. Bad = {}
  <2> SUFFICES ASSUME Bad # {} PROVE FALSE
    OBVIOUS
  <2>1. PICK a \in Bad : \A x \in Bad : x = a \/ Before(a, x)
    <3>1. Bad \in SUBSET RawArrows
      OBVIOUS
    <3> HIDE DEF Bad
    <3> QED
      BY <3>1, LeastArrow
  <2> DEFINE earlier == { b \in RawArrows : Before(b, a) }
  <2>2. CASE earlier = {}
    <3>1. \E h : Good(h, a)
      <4>1. \A b \in RawArrows : ~ Before(b, a)
        BY <2>2
      <4> HIDE DEF Good
      <4> QED
        BY <1>1, <4>1
    <3> QED
      BY <3>1
  <2>3. CASE earlier # {}
    <3>1. PICK p \in earlier : \A x \in earlier : x = p \/ Before(x, p)
      <4>1. earlier \in SUBSET RawArrows
        OBVIOUS
      <4> HIDE DEF earlier
      <4> QED
        BY <2>3, <4>1, GreatestArrow
    <3>2. p \in RawArrows /\ p \notin Bad
      BY <2>1, <3>1, BeforeFacts
    <3>3. PICK g : Good(g, p)
      BY <3>2
    <3>4. \A b \in RawArrows : Before(b, a) => g[b] = Given(g, b)
      BY <3>1, <3>3
    <3>5. \E h : Good(h, a)
      <4> HIDE DEF Good
      <4> QED
        BY <1>1, <3>4
    <3> QED
      BY <3>5
  <2> QED
    BY <2>2, <2>3
<1>3. \E g : \A b \in RawArrows : g[b] = Given(g, b)
  <2>1. CASE RawArrows = {}
    BY <2>1
  <2>2. CASE RawArrows # {}
    <3>1. PICK m \in RawArrows : \A x \in RawArrows : x = m \/ Before(x, m)
      BY <2>2, GreatestArrow
    <3>2. PICK g : Good(g, m)
      BY <1>2
    <3> QED
      BY <3>1, <3>2
  <2> QED
    BY <2>1, <2>2
<1>4. \E g : g = [a \in RawArrows |-> Given(g, a)]
  <2>1. PICK f : \A b \in RawArrows : f[b] = Given(f, b)
    BY <1>3
  <2> DEFINE g == [a \in RawArrows |-> f[a]]
  <2>2. \A a \in RawArrows : g[a] = f[a]
    OBVIOUS
  <2>3. g = [a \in RawArrows |-> g[a]]
    OBVIOUS
  <2> HIDE DEF g
  <2>4. \A a \in RawArrows : Given(f, a) = Given(g, a)
    BY <2>2, SameGiven
  <2>5. g = [a \in RawArrows |-> Given(g, a)]
    BY <2>1, <2>2, <2>3, <2>4
  <2> QED
    BY <2>5
<1> DEFINE level == CHOOSE g : g = [a \in RawArrows |-> Given(g, a)]
<1>5. Level = level
  BY DEF Level, Given, Taken
<1>6. level = [a \in RawArrows |-> Given(level, a)]
  BY <1>4
<1> QED
  BY <1>5, <1>6

\* Lemma: there is always a level left.  No more than one arrow leaves each line.
LEMMA LevelLeft ==
  ASSUME TypeOK, NEW g, NEW a
  PROVE  (0..Len(lines)) \ Taken(g, a) # {}
<1> SUFFICES ASSUME 0..Len(lines) \subseteq Taken(g, a) PROVE FALSE
  OBVIOUS
<1>1. Len(lines) \in Nat
  BY DEF TypeOK
<1> DEFINE S == 0..Len(lines)
           T == 1..Len(lines)
           holder(l) == CHOOSE b \in RawArrows : g[b] = l
           f == [l \in S |-> holder(l).from]
<1>2. ASSUME NEW l \in S PROVE holder(l) \in RawArrows /\ g[holder(l)] = l
  <2>1. \E b \in RawArrows : g[b] = l
    BY DEF Taken
  <2> QED
    BY <2>1
<1> HIDE DEF holder
<1>3. f \in [S -> T]
  BY <1>2, ArrowFacts
<1>4. \A l \in S : f[l] = holder(l).from
  OBVIOUS
<1> HIDE DEF f
<1>5. PICK l \in S, k \in S : l # k /\ f[l] = f[k]
  <2>1. IsFiniteSet(S) /\ Cardinality(S) = Len(lines) + 1
    BY <1>1, FS_Interval
  <2>2. IsFiniteSet(T) /\ Cardinality(T) = Len(lines)
    BY <1>1, FS_Interval
  <2>3. Cardinality(T) < Cardinality(S)
    BY <1>1, <2>1, <2>2
  <2> HIDE DEF S, T
  <2> QED
    BY <1>3, <2>1, <2>2, <2>3, FS_PigeonHole
<1>6. holder(l) = holder(k)
  BY <1>2, <1>4, <1>5, BeforeFacts
<1> QED
  BY <1>2, <1>5, <1>6

\* Lemma: an arrow has a level of its own among those it overlaps that come before
\* it, and these take every level below.
LEMMA LeastLevel ==
  ASSUME TypeOK, NEW a \in RawArrows
  PROVE  /\ Level[a] \in 0..Len(lines) /\ Level[a] \notin Taken(Level, a)
         /\ \A l \in Nat : l < Level[a] => l \in Taken(Level, a)
<1> DEFINE S == (0..Len(lines)) \ Taken(Level, a)
<1>1. Len(lines) \in Nat /\ S # {}
  <2>1. S # {}
    BY LevelLeft
  <2> QED
    BY <2>1 DEF TypeOK
<1>2. \E x \in S : \A y \in S : x <= y
  <2>1. CASE 0 \in S
    BY <1>1, <2>1
  <2>2. CASE 0 \notin S
    <3>1. S \in SUBSET (1..Len(lines))
      BY <1>1, <2>2
    <3> HIDE DEF S
    <3> QED
      BY <1>1, <3>1, LeastExists
  <2> QED
    BY <2>1, <2>2
<1>3. Min(S) \in S /\ \A y \in S : Min(S) <= y
  <2> HIDE DEF S
  <2> QED
    BY <1>2 DEF Min
<1>4. Level[a] = Min(S)
  BY LevelFacts DEF Given
<1>5. ASSUME NEW l \in Nat, l < Level[a] PROVE l \in Taken(Level, a)
  <2>1. l \in 0..Len(lines)
    BY <1>1, <1>3, <1>4, <1>5
  <2>2. l \notin S
    <3>1. Level[a] \in Int
      BY <1>3, <1>4
    <3> HIDE DEF S
    <3> QED
      BY <1>3, <1>4, <1>5, <3>1
  <2> QED
    BY <2>1, <2>2
<1> QED
  BY <1>3, <1>4, <1>5

\* Lemma: of two arrows that share a line, the one with the greater span gets another
\* level, and a greater one if the other lies within it.
LEMMA LevelsNest ==
  ASSUME TypeOK, NEW a \in RawArrows, NEW b \in RawArrows, Before(a, b), Overlap(a, b)
  PROVE  /\ Level[a] # Level[b]
         /\ Low(b) <= Low(a) /\ High(a) <= High(b) => Level[a] < Level[b]
<1>1. /\ Level[a] \in Nat /\ Level[b] \in Nat
      /\ Level[b] \notin Taken(Level, b)
      /\ \A l \in Nat : l < Level[a] => l \in Taken(Level, a)
  <2>1. Len(lines) \in Nat
    BY DEF TypeOK
  <2> QED
    BY <2>1, LeastLevel
<1>2. Level[a] \in Taken(Level, b)
  <2>1. Overlap(b, a)
    BY DEF Overlap
  <2> QED
    BY <2>1, TakenFacts
<1>3. ASSUME Low(b) <= Low(a), High(a) <= High(b) PROVE Taken(Level, a) \subseteq Taken(Level, b)
  <2> SUFFICES ASSUME NEW c \in RawArrows, Before(c, a), Overlap(a, c)
               PROVE  Before(c, b) /\ Overlap(b, c)
    BY TakenFacts
  <2>1. Before(c, b)
    BY BeforeFacts
  <2>2. /\ Low(a) \in Int /\ Low(b) \in Int /\ Low(c) \in Int
        /\ High(a) \in Int /\ High(b) \in Int /\ High(c) \in Int
    BY ArrowFacts
  <2>3. Overlap(b, c)
    BY <1>3, <2>2 DEF Overlap
  <2> QED
    BY <2>1, <2>3
<1>4. ASSUME Low(b) <= Low(a), High(a) <= High(b) PROVE Level[a] < Level[b]
  <2>1. \A l \in Nat : l <= Level[a] => l \in Taken(Level, b)
    BY <1>1, <1>2, <1>3, <1>4
  <2> QED
    BY <1>1, <2>1
<1> QED
  BY <1>1, <1>2, <1>4

\* Lemma: the arrows on display overlap and lie within each other as their jumps do.
LEMMA ArrowsNest == TypeOK => Nested
<1> SUFFICES ASSUME TypeOK, NEW x \in JumpArrows, NEW y \in JumpArrows, x # y, Overlap(x, y)
             PROVE  /\ x.level # y.level
                    /\ Low(y) <= Low(x) /\ High(x) <= High(y) /\ Span(x) < Span(y) => x.level < y.level
  BY DEF Nested
<1>1. PICK a \in RawArrows : x = [from |-> a.from, to |-> a.to, level |-> Level[a]]
  BY DEF JumpArrows
<1>2. PICK b \in RawArrows : y = [from |-> b.from, to |-> b.to, level |-> Level[b]]
  BY DEF JumpArrows
<1>3. /\ x.level = Level[a] /\ Low(x) = Low(a) /\ High(x) = High(a) /\ Span(x) = Span(a)
      /\ y.level = Level[b] /\ Low(y) = Low(b) /\ High(y) = High(b) /\ Span(y) = Span(b)
  BY <1>1, <1>2 DEF Low, High, Span
<1>4. a # b /\ Overlap(a, b) /\ Overlap(b, a)
  BY <1>1, <1>2, <1>3 DEF Overlap
<1>5. CASE Before(a, b)
  BY <1>3, <1>4, <1>5, LevelsNest
<1>6. CASE Before(b, a)
  <2>1. Level[b] # Level[a]
    BY <1>4, <1>6, LevelsNest
  <2>2. ~ (Span(a) < Span(b))
    <3>1. Span(a) \in Int /\ Span(b) \in Int
      BY ArrowFacts
    <3> QED
      BY <1>6, <3>1 DEF Before
  <2> QED
    BY <1>3, <2>1, <2>2
<1> QED
  BY <1>4, <1>5, <1>6, BeforeFacts

\* Lemma: an arrow leaves a jump at the start of a line when its label is defined.
LEMMA Drawn ==
  ASSUME NEW i \in DOMAIN lines, TypeOK, lines[i].op \in Jumps, lines[i].label = None
  PROVE  i \in { arrow.from : arrow \in JumpArrows } <=> Definitions(lines[i].to) # {}
<1> DEFINE drawn == { arrow.from : arrow \in JumpArrows }
           jump(j) == [from |-> j, to |-> LabelPosition(lines[j].to)]
<1>0. i \in 1..Len(lines)
  BY DEF TypeOK
<1>1. ASSUME Definitions(lines[i].to) # {} PROVE i \in drawn
  <2>1. jump(i) \in RawArrows
    BY <1>0, <1>1 DEF RawArrows
  <2> DEFINE arrow == [from |-> jump(i).from, to |-> jump(i).to, level |-> Level[jump(i)]]
  <2>2. arrow \in JumpArrows
    <3> HIDE DEF jump
    <3> QED
      BY <2>1 DEF JumpArrows
  <2>3. arrow.from = i
    OBVIOUS
  <2> HIDE DEF arrow
  <2> QED
    BY <2>2, <2>3
<1>2. ASSUME i \in drawn PROVE Definitions(lines[i].to) # {}
  <2>1. PICK arrow \in JumpArrows : arrow.from = i
    BY <1>2
  <2>2. PICK a \in RawArrows : arrow = [from |-> a.from, to |-> a.to, level |-> Level[a]]
    BY DEF JumpArrows
  <2>3. a.from = i
    BY <2>1, <2>2
  <2>4. PICK j \in 1..Len(lines) : a = jump(j) /\ Definitions(lines[j].to) # {}
    BY DEF RawArrows
  <2>5. j = i
    BY <2>3, <2>4
  <2> QED
    BY <2>4, <2>5
<1> QED
  BY <1>1, <1>2

LEMMA JumpsAccounted == TypeOK => Accounted
<1> SUFFICES ASSUME TypeOK, NEW i \in DOMAIN lines,
                    lines[i].op \in Jumps, lines[i].label = None, lines[i].to \in Name
             PROVE  i \in LintLines <=> /\ i \notin { arrow.from : arrow \in JumpArrows }
                                        /\ lines[i].to \notin DataNames \cup Register
  BY DEF Accounted
<1>1. i \in 1..Len(lines) /\ lines[i].op = "jump"
  BY DEF TypeOK, Jumps
<1>2. i \in LintLines <=> lines[i].to \notin LabelDefs \cup Register
  BY <1>1 DEF LintLines, UndefinedLabels, UnknownInstructions
<1>3. lines[i].to \in LabelDefs <=> Definitions(lines[i].to) # {} \/ lines[i].to \in DataNames
  BY DEF LabelDefs
<1> QED
  BY <1>2, <1>3, Drawn

\* Each jump is shown as what it is, drawn or complained of, and the arrows that are
\* drawn run apart and nest, in programs of any length with any number of jumps
\* (AsmEditor.tsx:491-517, linter.ts:116-124).
THEOREM JumpsAreShown == Spec => []JumpsShown
<1>1. TypeOK => JumpsShown
  BY ArrowsNest, JumpsAccounted DEF JumpsShown
<1> QED
  BY <1>1, TypeCorrect, PTL
=============================================================================
