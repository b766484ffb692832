---------------------------- MODULE WindowProofs ----------------------------
(***************************************************************************)
(* Proofs about the window, for a mouse that goes anywhere, any height, any *)
(* tour that prepares its targets and any palette: the sizes fit, and an    *)
(* open tour points at something.                                          *)
(***************************************************************************)
EXTENDS Window, TLAPS

\* What the step's preparation has left, for as long as the step is shown.
Meets(p, prepare) ==
  /\ prepare = "expand_right" => ~p.right
  /\ prepare = "open_console" => p.console
  /\ prepare \in Section => ~p.right /\ prepare \notin p.collapsed

Met == tour.open => Meets(panels, TourSteps[tour.step].prepare)

\* Lemma: the preparation of a step is one of those the workbench knows.
LEMMA Steps ==
  ASSUME NEW step \in 1..Len(TourSteps)
  PROVE  TourSteps[step].prepare \in Prepare
<1> DEFINE Step == [target : STRING, prepare : Prepare]
<1>1. TourSteps \in Seq(Step)
  BY TourAssumption
<1> HIDE DEF Step
<1>2. TourSteps[step] \in Step
  BY <1>1
<1> QED
  BY <1>2 DEF Step

\* Lemma: there is a first step.
LEMMA FirstStep == Len(TourSteps) \in Nat /\ 1 \in 1..Len(TourSteps)
BY TourAssumption

\* Lemma: preparing keeps the panels' type and brings about what it is for.
LEMMA PreparedMeets ==
  ASSUME NEW p \in Panels, NEW prepare \in Prepare
  PROVE  Prepared(p, prepare) \in Panels /\ Meets(Prepared(p, prepare), prepare)
<1> USE SectionAssumption DEF Panels, Meets
<1>1. CASE prepare = "none"
  BY <1>1 DEF Prepared
<1>2. CASE prepare = "open_console"
  BY <1>2 DEF Prepared
<1>3. CASE prepare = "close_console"
  BY <1>3 DEF Prepared
<1>4. CASE prepare = "expand_right"
  BY <1>4 DEF Prepared
<1>5. CASE prepare \in Section
  <2>1. prepare \notin {"none", "expand_right", "open_console", "close_console"}
    BY <1>5
  <2>2. Prepared(p, prepare) = [p EXCEPT !.right = FALSE, !.collapsed = @ \ {prepare}]
    BY <2>1, <1>5 DEF Prepared
  <2> QED
    BY <2>1, <2>2
<1> QED
  BY <1>1, <1>2, <1>3, <1>4, <1>5 DEF Prepare

\* Lemma: whatever the panels were, an open tour has its step prepared.
LEMMA SettledMeets ==
  ASSUME NEW p \in Panels, NEW t \in [open : BOOLEAN, step : 1..Len(TourSteps)]
  PROVE  /\ Settled(p, t) \in Panels
         /\ t.open => Meets(Settled(p, t), TourSteps[t.step].prepare)
<1>1. TourSteps[t.step].prepare \in Prepare
  BY Steps
<1> QED
  BY <1>1, PreparedMeets DEF Settled

----------------------------------------------------------------------------
(* Sizes                                                                   *)

\* Lemma: a drag of a column handle leaves three columns that fill the body.
LEMMA ColumnsFit ==
  ASSUME LayoutFits, NEW x \in Int
  PROVE  LET c == DraggedColumns(x)
         IN  /\ c \in [c0 : 15..70, c1 : 15..70, c2 : 15..70]
             /\ c.c0 + c.c1 + c.c2 = 100
<1>1. /\ cols \in [c0 : 15..70, c1 : 15..70, c2 : 15..70]
      /\ cols.c0 + cols.c1 + cols.c2 = 100
  BY DEF LayoutFits
<1> DEFINE Size == [c0 : 15..70, c1 : 15..70, c2 : 15..70]
<1>l. PICK l \in 15..70 : cols.c0 = l
  BY <1>1
<1>m. PICK m \in 15..70 : cols.c1 = m
  BY <1>1
<1>r. PICK r \in 15..70 : cols.c2 = r
  BY <1>1
<1>2. cols.c0 = l /\ cols.c1 = m /\ cols.c2 = r /\ l + m + r = 100
  BY <1>1, <1>l, <1>m, <1>r
<1>3. /\ \A u, v \in 15..70 : LET c == [cols EXCEPT !.c0 = u, !.c1 = v]
                              IN  c \in Size /\ c.c0 + c.c1 + c.c2 = u + v + r
      /\ \A u, v \in 15..70 : LET c == [cols EXCEPT !.c1 = u, !.c2 = v]
                              IN  c \in Size /\ c.c0 + c.c1 + c.c2 = l + u + v
  BY <1>1, <1>2
<1> DEFINE a == Greatest(15, Least(x, 100 - r - 15))
           b == Greatest(l + 15, Least(x, 85))
           d == 100 - a - r
           e == b - l
           f == 100 - b
<1>4. /\ a \in Int /\ 15 <= a /\ a <= 100 - r - 15
      /\ b \in Int /\ l + 15 <= b /\ b <= 85
  BY <1>2 DEF Least, Greatest
<1>5. /\ DraggedLeft(x) = IF 100 - a - r < 15 THEN [cols EXCEPT !.c0 = 100 - 15 - r, !.c1 = 15]
                                             ELSE [cols EXCEPT !.c0 = a, !.c1 = 100 - a - r]
      /\ DraggedRight(x) = IF 100 - b < 15 THEN [cols EXCEPT !.c1 = 100 - l - 15, !.c2 = 15]
                                           ELSE [cols EXCEPT !.c1 = b - l, !.c2 = 100 - b]
  BY <1>2 DEF DraggedLeft, DraggedRight
<1> HIDE DEF a, b, Size
<1>6. DraggedLeft(x) = [cols EXCEPT !.c0 = a, !.c1 = d]
  BY <1>2, <1>4, <1>5
<1>7. DraggedRight(x) = [cols EXCEPT !.c1 = e, !.c2 = f]
  BY <1>2, <1>4, <1>5
<1>8. a \in 15..70 /\ d \in 15..70 /\ e \in 15..70 /\ f \in 15..70
  BY <1>2, <1>4
<1>9. a + d + r = 100 /\ l + e + f = 100
  BY <1>2, <1>4
<1> HIDE DEF d, e, f
<1>10. DraggedLeft(x) \in Size /\ DraggedLeft(x).c0 + DraggedLeft(x).c1 + DraggedLeft(x).c2 = a + d + r
  <2>1. \A u, v \in 15..70 : [cols EXCEPT !.c0 = u, !.c1 = v] \in Size
    BY <1>3
  <2>2. \A u, v \in 15..70 : [cols EXCEPT !.c0 = u, !.c1 = v].c0
          + [cols EXCEPT !.c0 = u, !.c1 = v].c1 + [cols EXCEPT !.c0 = u, !.c1 = v].c2 = u + v + r
    BY <1>3
  <2>3. DraggedLeft(x) \in Size
    BY <2>1, <1>6, <1>8
  <2>4. DraggedLeft(x).c0 + DraggedLeft(x).c1 + DraggedLeft(x).c2 = a + d + r
    BY <2>2, <1>6, <1>8
  <2> QED
    BY <2>3, <2>4
<1>11. DraggedRight(x) \in Size /\ DraggedRight(x).c0 + DraggedRight(x).c1 + DraggedRight(x).c2 = l + e + f
  BY <1>3, <1>7, <1>8
<1>12. DraggedColumns(x) \in {DraggedLeft(x), DraggedRight(x), cols}
  BY DEF DraggedColumns
<1> QED
  BY <1>1, <1>9, <1>10, <1>11, <1>12 DEF Size

\* Lemma: sizes that do not change fit as before.
LEMMA SameLayout == LayoutFits /\ UNCHANGED layout => LayoutFits'
<1> SUFFICES ASSUME LayoutFits, UNCHANGED layout
             PROVE  LayoutFits'
  OBVIOUS
<1>1. cols' = cols /\ h' = h /\ split' = split /\ drags' = drags /\ cursor' = cursor
  BY DEF layout
<1> QED
  BY <1>1 DEF LayoutFits

\* Lemma: the sizes of a page that has just been loaded fit.
LEMMA FirstSizes == InitLayout => LayoutFits
<1> SUFFICES ASSUME InitLayout
             PROVE  LayoutFits
  OBVIOUS
<1>1. \A c : c = [c0 |-> 30, c1 |-> 36, c2 |-> 34] =>
        c \in [c0 : 15..70, c1 : 15..70, c2 : 15..70] /\ c.c0 + c.c1 + c.c2 = 100
  OBVIOUS
<1>2. 200 \in 60..Greatest(200, Height) /\ 50 \in 25..75
  BY HeightAssumption DEF Greatest
<1> QED
  BY <1>1, <1>2 DEF InitLayout, LayoutFits, Handle

\* Lemma: every event of the mouse leaves sizes that fit.
LEMMA MouseFits == LayoutFits /\ (Mouse \/ Reload) => LayoutFits'
<1> SUFFICES ASSUME LayoutFits, Mouse \/ Reload
             PROVE  LayoutFits'
  OBVIOUS
<1> USE HeightAssumption, MouseAssumption
<1>1. CASE \E handle \in Handle : MouseDown(handle)
  BY <1>1 DEF MouseDown, PressColumn, PressTerminal, PressSplit, LayoutFits, Handle
<1>2. ASSUME NEW x \in MouseX, NEW y \in MouseY, NEW p \in MouseSplit, MouseMove(x, y, p)
      PROVE  LayoutFits'
  <2>1. x \in Int /\ y \in Int /\ p \in Int
    OBVIOUS
  <2>2. /\ cols' \in [c0 : 15..70, c1 : 15..70, c2 : 15..70]
        /\ cols'.c0 + cols'.c1 + cols'.c2 = 100
    BY <2>1, <1>2, ColumnsFit DEF MouseMove
  <2>3. h' \in 60..Greatest(200, Height)
    <3> DEFINE n == (Height * 6) \div 10
    <3>1. h \in 60..Greatest(200, Height) /\ h' = IF "term" \in drags THEN Greatest(60, Least(y, n)) ELSE h
      BY <1>2 DEF MouseMove, DraggedTerminal, LayoutFits
    <3>2. n \in Int /\ n <= Height
      OBVIOUS
    <3> HIDE DEF n
    <3> QED
      BY <3>1, <3>2, <2>1 DEF Least, Greatest
  <2>4. split' \in 25..75
    <3>1. split \in 25..75 /\ split' = IF "stdin" \in drags THEN Greatest(25, Least(75, p)) ELSE split
      BY <1>2 DEF MouseMove, DraggedSplit, LayoutFits
    <3> QED
      BY <3>1, <2>1 DEF Least, Greatest
  <2> QED
    BY <2>2, <2>3, <2>4, <1>2 DEF MouseMove, LayoutFits
<1>3. CASE MouseUp
  BY <1>3 DEF MouseUp, LayoutFits, Handle
<1>4. CASE Reload
  <2>1. cols' = [c0 |-> 30, c1 |-> 36, c2 |-> 34] /\ h' = 200 /\ split' = 50 /\ drags' = {} /\ cursor' = ""
    BY <1>4 DEF Reload
  <2>2. 200 \in 60..Greatest(200, Height)
    BY DEF Greatest
  <2>3. /\ cols' \in [c0 : 15..70, c1 : 15..70, c2 : 15..70]
        /\ cols'.c0 + cols'.c1 + cols'.c2 = 100
    <3>1. \A c : c = [c0 |-> 30, c1 |-> 36, c2 |-> 34] =>
            c \in [c0 : 15..70, c1 : 15..70, c2 : 15..70] /\ c.c0 + c.c1 + c.c2 = 100
      OBVIOUS
    <3> QED
      BY <2>1, <3>1
  <2>4. 50 \in 25..75
    OBVIOUS
  <2> QED
    BY <2>1, <2>2, <2>3, <2>4 DEF LayoutFits, Handle
<1> QED
  BY <1>1, <1>2, <1>3, <1>4 DEF Mouse

----------------------------------------------------------------------------
(* Panels, tour and palette                                                *)

TypeTour == tour \in [open : BOOLEAN, step : 1..Len(TourSteps)]

TypePalette ==
  /\ palette \in [open : BOOLEAN, query : DOMAIN Results, index : Int]
  /\ \/ palette.index + 1 \in DOMAIN Results[palette.query]
     \/ Results[palette.query] = << >> /\ palette.index \in {-1, 0}

IInv == TypeOK /\ Met

\* Lemma: what an action leaves of panels and tour, when both have settled.
LEMMA SettledKeeps ==
  ASSUME NEW p \in Panels, TypeTour', panels' = Settled(p, tour')
  PROVE  panels' \in Panels /\ Met'
BY SettledMeets DEF TypeTour, Met

\* Lemma: a window that opens or is loaded again has settled.
LEMMA Fresh ==
  /\ InitPanels \in Panels
  /\ \A open \in BOOLEAN : [open |-> open, step |-> 1] \in [open : BOOLEAN, step : 1..Len(TourSteps)]
BY FirstStep DEF InitPanels, Panels

\* Lemma: the index into a list that has just been made is that of its first command,
\* if there is one.
LEMMA FreshPalette ==
  ASSUME NEW q \in DOMAIN Results, NEW p \in [open : BOOLEAN, query : DOMAIN Results, index : Int],
         p.query = q, p.index = 0
  PROVE  \/ p.index + 1 \in DOMAIN Results[p.query]
         \/ Results[p.query] = << >> /\ p.index \in {-1, 0}
<1>1. Results[q] \in Seq(Command)
  BY ResultsAssumption
<1>2. 0 + 1 \in DOMAIN Results[q] \/ Results[q] = << >>
  BY <1>1
<1> QED
  BY <1>2

\* Lemma: a palette made anew, or whose text has changed.
LEMMA PaletteRecords ==
  ASSUME NEW Q
  PROVE  /\ \A open \in BOOLEAN, q \in Q :
              LET p == [open |-> open, query |-> q, index |-> 0]
              IN  p \in [open : BOOLEAN, query : Q, index : Int] /\ p.query = q /\ p.index = 0
         /\ \A old \in [open : BOOLEAN, query : Q, index : Int], q \in Q :
              LET p == [old EXCEPT !.query = q, !.index = 0]
              IN  p \in [open : BOOLEAN, query : Q, index : Int] /\ p.query = q /\ p.index = 0
<1>1. ASSUME NEW open \in BOOLEAN, NEW q \in Q
      PROVE  [open |-> open, query |-> q, index |-> 0] \in [open : BOOLEAN, query : Q, index : Int]
  BY <1>1
<1>2. ASSUME NEW old \in [open : BOOLEAN, query : Q, index : Int], NEW q \in Q
      PROVE  /\ [old EXCEPT !.query = q, !.index = 0] \in [open : BOOLEAN, query : Q, index : Int]
             /\ [old EXCEPT !.query = q, !.index = 0].query = q
             /\ [old EXCEPT !.query = q, !.index = 0].index = 0
  <2> DEFINE Palette == [open : BOOLEAN, query : Q, index : Int]
             mid == [old EXCEPT !.query = q]
  <2>1. mid \in Palette /\ mid.query = q
    BY <1>2
  <2>2. [old EXCEPT !.query = q, !.index = 0] = [mid EXCEPT !.index = 0]
    OBVIOUS
  <2> HIDE DEF mid
  <2>3. [mid EXCEPT !.index = 0] \in Palette
    BY <2>1
  <2>4. [mid EXCEPT !.index = 0].query = q /\ [mid EXCEPT !.index = 0].index = 0
    BY <2>1
  <2> QED
    BY <2>2, <2>3, <2>4
<1> QED
  BY <1>1, <1>2

\* Lemma: the palette of a page that has just been loaded.
LEMMA FirstPalette ==
  LET p == [open |-> FALSE, query |-> "", index |-> 0]
  IN  /\ p \in [open : BOOLEAN, query : DOMAIN Results, index : Int]
      /\ \/ p.index + 1 \in DOMAIN Results[p.query]
         \/ Results[p.query] = << >> /\ p.index \in {-1, 0}
<1> DEFINE p == [open |-> FALSE, query |-> "", index |-> 0]
<1>1. "" \in DOMAIN Results
  BY ResultsAssumption
<1>2. p \in [open : BOOLEAN, query : DOMAIN Results, index : Int] /\ p.query = "" /\ p.index = 0
  BY <1>1, PaletteRecords
<1> HIDE DEF p
<1>3. p.index + 1 \in DOMAIN Results[p.query] \/ (Results[p.query] = << >> /\ p.index \in {-1, 0})
  BY <1>1, <1>2, FreshPalette
<1> QED
  BY <1>2, <1>3 DEF p

\* Lemma: the buttons leave panels.
LEMMA ButtonsKeep ==
  ASSUME panels \in Panels
  PROVE  TerminalButtons \cup ColumnButtons \cup ConsoleButtons \subseteq Panels
<1>1. TerminalButtons \subseteq Panels
  BY LiveAssumption DEF TerminalButtons, Panels
<1>2. ConsoleButtons \subseteq Panels
  BY LiveAssumption DEF ConsoleButtons, Panels
<1>3. ColumnButtons \subseteq Panels
  <2>1. [panels EXCEPT !.right = ~@] \in Panels
    BY DEF Panels
  <2>2. \A s \in Section :
          [panels EXCEPT !.collapsed = (@ \ {s}) \cup ({s} \ @)] \in Panels
    <3>1. \A s \in Section : (panels.collapsed \ {s}) \cup ({s} \ panels.collapsed) \in SUBSET Section
      BY DEF Panels
    <3>2. \A c \in SUBSET Section : [panels EXCEPT !.collapsed = c] \in Panels
      BY DEF Panels
    <3> QED
      BY <3>1, <3>2
  <2> QED
    BY <2>1, <2>2 DEF ColumnButtons
<1> QED
  BY <1>1, <1>2, <1>3

\* Lemma: a move of the tour, or its end, leaves its step prepared.
LEMMA TourKeeps ==
  ASSUME panels \in Panels, TypeTour, Met, Forward \/ Backward \/ Finish, tourDone \in BOOLEAN
  PROVE  panels' \in Panels /\ TypeTour' /\ Met' /\ tourDone' \in BOOLEAN
<1> USE DEF TypeTour
<1>1. CASE Finish
  BY <1>1 DEF Finish, Met
<1>2. ASSUME NEW step \in 1..Len(TourSteps), MoveTo([tour EXCEPT !.step = step]), UNCHANGED tourDone
      PROVE  panels' \in Panels /\ TypeTour' /\ Met' /\ tourDone' \in BOOLEAN
  <2>1. TypeTour' /\ panels' = Settled(panels, tour')
    BY <1>2 DEF MoveTo
  <2> QED
    BY <1>2, <2>1, SettledKeeps
<1>3. Len(TourSteps) \in Nat /\ tour.step \in 1..Len(TourSteps)
  BY FirstStep
<1>4. CASE Forward
  <2>1. CASE tour.step < Len(TourSteps)
    <3>1. tour.step + 1 \in 1..Len(TourSteps)
      BY <2>1, <1>3
    <3>2. MoveTo([tour EXCEPT !.step = tour.step + 1]) /\ UNCHANGED tourDone
      BY <2>1, <1>4 DEF Forward
    <3> QED
      BY <3>1, <3>2, <1>2
  <2> QED
    BY <2>1, <1>1, <1>4 DEF Forward
<1>5. CASE Backward
  <2>1. CASE tour.step > 1
    <3>1. tour.step - 1 \in 1..Len(TourSteps)
      BY <2>1, <1>3
    <3>2. MoveTo([tour EXCEPT !.step = tour.step - 1]) /\ UNCHANGED tourDone
      BY <2>1, <1>5 DEF Backward
    <3> QED
      BY <3>1, <3>2, <1>2
  <2> QED
    BY <2>1, <1>5 DEF Backward, Met
<1> QED
  BY <1>1, <1>4, <1>5

\* Lemma: keys and clicks in the palette leave an index into its list.
LEMMA PaletteKeeps ==
  ASSUME TypePalette, TogglePalette \/ TypeQuery \/ MoveIndex \/ UNCHANGED palette
                        \/ (\E open \in BOOLEAN : palette' = [palette EXCEPT !.open = open])
  PROVE  TypePalette'
<1> USE DEF TypePalette
<1> DEFINE Palette == [open : BOOLEAN, query : DOMAIN Results, index : Int]
<1>1. CASE TogglePalette
  <2>1. "" \in DOMAIN Results
    BY ResultsAssumption
  <2>2. CASE palette.open
    BY <1>1, <2>2 DEF TogglePalette
  <2>3. CASE ~palette.open
    <3>1. palette' \in Palette /\ palette'.query = "" /\ palette'.index = 0
      BY <1>1, <2>1, <2>3, PaletteRecords DEF TogglePalette
    <3> QED
      BY <2>1, <3>1, FreshPalette
  <2> QED
    BY <2>2, <2>3
<1>2. CASE TypeQuery
  <2>1. PICK q \in DOMAIN Results : palette' = [palette EXCEPT !.query = q, !.index = 0]
    BY <1>2 DEF TypeQuery
  <2>2. palette' \in Palette /\ palette'.query = q /\ palette'.index = 0
    BY <2>1, PaletteRecords
  <2> QED
    BY <2>2, FreshPalette
<1>3. CASE MoveIndex
  <2>1. Results[palette.query] \in Seq(Command)
    BY ResultsAssumption
  <2>2. /\ Len(Filtered) \in Nat /\ DOMAIN Filtered = 1..Len(Filtered)
        /\ Filtered = << >> <=> Len(Filtered) = 0
        /\ Filtered = Results[palette.query]
    BY <2>1 DEF Filtered
  <2>3. PICK i \in Int : /\ palette' = [palette EXCEPT !.index = i]
                         /\ \/ i = Least(palette.index + 1, Len(Filtered) - 1)
                            \/ i = Greatest(palette.index - 1, 0)
    BY <1>3, <2>2 DEF MoveIndex, Least, Greatest
  <2>4. palette.index + 1 \in 1..Len(Filtered) \/ (Len(Filtered) = 0 /\ palette.index \in {-1, 0})
    BY <2>2
  <2>5. i + 1 \in 1..Len(Filtered) \/ (Len(Filtered) = 0 /\ i \in {-1, 0})
    BY <2>2, <2>3, <2>4 DEF Least, Greatest
  <2>6. palette'.index = i /\ palette'.query = palette.query
        /\ palette' \in [open : BOOLEAN, query : DOMAIN Results, index : Int]
    BY <2>3
  <2> QED
    BY <2>2, <2>5, <2>6
<1>4. ASSUME NEW open \in BOOLEAN, palette' = [palette EXCEPT !.open = open]
      PROVE  TypePalette'
  BY <1>4
<1> QED
  BY <1>1, <1>2, <1>3, <1>4

\* Lemma: no step of the window disturbs the types, nor what the tour has prepared.
LEMMA StepKeeps == IInv /\ [Next]_vars => IInv'
<1> SUFFICES ASSUME IInv, [Next]_vars
             PROVE  IInv'
  OBVIOUS
<1>1. /\ LayoutFits /\ panels \in Panels /\ TypeTour /\ tourDone \in BOOLEAN /\ TypePalette /\ Met
  BY DEF IInv, TypeOK, TypeTour, TypePalette
<1>2. SUFFICES /\ LayoutFits' /\ panels' \in Panels /\ TypeTour' /\ tourDone' \in BOOLEAN
               /\ TypePalette' /\ Met'
  BY DEF IInv, TypeOK, TypeTour, TypePalette
<1>3. UNCHANGED layout => LayoutFits'
  BY <1>1, SameLayout
<1>4. UNCHANGED <<panels, tour, tourDone>> =>
        panels' \in Panels /\ TypeTour' /\ Met' /\ tourDone' \in BOOLEAN
  BY <1>1 DEF TypeTour, Met
<1>5. UNCHANGED palette => TypePalette'
  BY <1>1, PaletteKeeps
<1>6. CASE UNCHANGED vars
  BY <1>3, <1>4, <1>5, <1>6 DEF vars
<1>7. CASE TogglePanels
  <2>1. PICK p \in Panels : panels' = Settled(p, tour)
    BY <1>1, <1>7, ButtonsKeep DEF TogglePanels
  <2>2. UNCHANGED <<layout, tour, tourDone, palette>>
    BY <1>7 DEF TogglePanels
  <2>3. TypeTour'
    BY <1>1, <2>2 DEF TypeTour
  <2> QED
    BY <1>1, <1>3, <1>5, <2>1, <2>2, <2>3, SettledKeeps
<1>8. CASE Tour
  BY <1>1, <1>3, <1>5, <1>8, TourKeeps DEF Tour
<1>9. CASE TogglePalette \/ TypeQuery \/ MoveIndex
  <2>1. UNCHANGED <<layout, panels, tour, tourDone>>
    BY <1>9 DEF TogglePalette, TypeQuery, MoveIndex
  <2> QED
    BY <1>1, <1>3, <1>4, <1>9, <2>1, PaletteKeeps
<1>a. \A command : Ran(command) \in Panels
  BY <1>1 DEF Ran, Panels
<1>10. CASE Pick
  <2>1. UNCHANGED layout /\ palette' = [palette EXCEPT !.open = FALSE]
    BY <1>10 DEF Pick
  <2>2. TypePalette'
    BY <1>1, <2>1, PaletteKeeps
  <2>3. CASE OpenTour(panels)
    <3>1. CASE tour.open
      <4>1. panels' = Settled(panels, tour') /\ UNCHANGED <<tour, tourDone>>
        BY <2>3, <3>1 DEF OpenTour
      <4>2. TypeTour'
        BY <1>1, <4>1 DEF TypeTour
      <4> QED
        BY <1>1, <1>3, <2>1, <2>2, <4>1, <4>2, SettledKeeps
    <3>2. CASE ~tour.open
      <4> DEFINE p == Prepared(panels, TourSteps[tour.step].prepare)
      <4>1. p \in Panels
        BY <1>1, Steps, PreparedMeets DEF TypeTour
      <4>2. TypeTour' /\ panels' = Settled(p, tour') /\ UNCHANGED tourDone
        BY <2>3, <3>2, Fresh DEF OpenTour, TypeTour
      <4> HIDE DEF p
      <4> QED
        BY <1>1, <1>3, <2>1, <2>2, <4>1, <4>2, SettledKeeps
    <3> QED
      BY <3>1, <3>2
  <2>4. CASE /\ panels' = Settled(Ran(Filtered[palette.index + 1]), tour)
             /\ UNCHANGED <<tour, tourDone>>
    <3>1. TypeTour'
      BY <1>1, <2>4 DEF TypeTour
    <3> QED
      BY <1>1, <1>3, <1>a, <2>1, <2>2, <2>4, <3>1, SettledKeeps
  <2> QED
    BY <1>10, <2>3, <2>4 DEF Pick
<1>11. CASE Enter
  <2> DEFINE stays == palette.index + 1 \notin DOMAIN Filtered
             ends == tour.step = Len(TourSteps)
             p == IF palette'.open THEN panels ELSE Settled(Ran(Filtered[palette.index + 1]), tour)
  <2>1. /\ UNCHANGED layout /\ palette' = [palette EXCEPT !.open = stays]
        /\ tour' = IF ends THEN [tour EXCEPT !.open = FALSE] ELSE [tour EXCEPT !.step = @ + 1]
        /\ panels' = Settled(p, tour') /\ tourDone' = (tourDone \/ ends)
    BY <1>11 DEF Enter
  <2>2. stays \in BOOLEAN /\ TypePalette'
    BY <1>1, <2>1, PaletteKeeps
  <2>3. p \in Panels
    BY <1>1, <1>a, SettledMeets DEF TypeTour
  <2>4. TypeTour'
    <3>1. ~ends => tour.step + 1 \in 1..Len(TourSteps)
      BY <1>1, FirstStep DEF TypeTour
    <3> QED
      BY <1>1, <2>1, <3>1 DEF TypeTour
  <2>5. tourDone' \in BOOLEAN
    BY <1>1, <2>1
  <2> HIDE DEF p, stays, ends
  <2> QED
    BY <1>3, <2>1, <2>2, <2>3, <2>4, <2>5, SettledKeeps
<1>12. CASE Escape
  <2>1. UNCHANGED layout /\ palette' = [palette EXCEPT !.open = FALSE]
    BY <1>12 DEF Escape
  <2>2. TypePalette'
    BY <1>1, <2>1, PaletteKeeps
  <2>3. Finish \/ UNCHANGED <<tour, tourDone, panels>>
    BY <1>12 DEF Escape
  <2> QED
    BY <1>1, <1>3, <1>4, <2>1, <2>2, <2>3, TourKeeps
<1>13. CASE Mouse
  <2>1. UNCHANGED <<panels, tour, tourDone, palette>>
    BY <1>13 DEF Mouse
  <2> QED
    BY <1>1, <1>4, <1>5, <1>13, <2>1, MouseFits
<1>14. CASE Reload
  <2>1. /\ tour' = [open |-> ~tourDone, step |-> 1] /\ panels' = Settled(InitPanels, tour')
        /\ palette' = [open |-> FALSE, query |-> "", index |-> 0] /\ UNCHANGED tourDone
    BY <1>14 DEF Reload
  <2>2. TypeTour'
    BY <1>1, <2>1, Fresh DEF TypeTour
  <2>3. TypePalette'
    BY <2>1, FirstPalette DEF TypePalette
  <2> QED
    BY <1>1, <1>14, <2>1, <2>2, <2>3, MouseFits, SettledKeeps, Fresh
<1> QED
  BY <1>6, <1>7, <1>8, <1>9, <1>10, <1>11, <1>12, <1>13, <1>14 DEF Next

\* Theorem: the types, the sizes that fit, and what the tour has prepared, of every
\* behaviour.
THEOREM Inductive == Spec => []IInv
<1>1. Init => IInv
  <2> SUFFICES ASSUME Init
               PROVE  IInv
    OBVIOUS
  <2>1. TypeTour
    BY Fresh DEF Init, TypeTour
  <2>2. panels \in Panels /\ Met
    BY <2>1, SettledMeets, Fresh DEF Init, Met, TypeTour
  <2>3. TypePalette
    BY FirstPalette DEF Init, TypePalette
  <2>4. LayoutFits
    BY FirstSizes DEF Init
  <2> QED
    BY <2>1, <2>2, <2>3, <2>4 DEF Init, IInv, TypeOK, TypeTour, TypePalette
<1> QED
  BY <1>1, StepKeeps, PTL DEF Spec

\* Theorem: wherever the mouse goes and whatever is dragged at once, the columns fill
\* the body with none squeezed out, terminal and split keep their bounds, and the
\* cursor is given back; the palette's index stays in its list.
THEOREM TypeCorrect == Spec => []TypeOK
<1>1. IInv => TypeOK
  BY DEF IInv
<1> QED
  BY <1>1, Inductive, PTL

\* Theorem: an open tour points at something on display, for any tour whose steps
\* prepare targets that may be out of sight.
THEOREM TargetShown == Spec => []TourTargetShown
<1>1. IInv => TourTargetShown
  <2> SUFFICES ASSUME IInv, tour.open, Live,
                      ~(TourSteps[tour.step].target = "terminal" /\ panels.floating)
               PROVE  OnDisplay(TourSteps[tour.step].target)
    BY DEF TourTargetShown
  <2> DEFINE s == TourSteps[tour.step]
  <2>1. /\ s.target = "right" => s.prepare = "expand_right"
        /\ s.target = "console" => s.prepare = "open_console"
        /\ s.target \in Section => s.prepare = s.target
    <3>1. tour.step \in DOMAIN TourSteps
      BY TourAssumption DEF IInv, TypeOK
    <3> QED
      BY <3>1, MatchingAssumption
  <2>2. Meets(panels, s.prepare)
    BY DEF IInv, Met
  <2>3. s.target \in Section => s.target \notin {"right", "console", "terminal"}
    BY SectionAssumption
  <2> HIDE DEF s
  <2>4. OnDisplay(s.target)
    <3>1. CASE s.target = "right"
      BY <3>1, <2>1, <2>2 DEF OnDisplay, Meets
    <3>2. CASE s.target = "console"
      BY <3>2, <2>1, <2>2 DEF OnDisplay, Meets
    <3>3. CASE s.target \in Section
      BY <3>3, <2>1, <2>2, <2>3 DEF OnDisplay, Meets
    <3>4. CASE s.target = "terminal"
      BY <3>4, <2>3 DEF OnDisplay, s
    <3>5. CASE s.target \notin {"right", "console", "terminal"} \cup Section
      BY <3>5 DEF OnDisplay
    <3> QED
      BY <3>1, <3>2, <3>3, <3>4, <3>5
  <2> QED
    BY <2>4 DEF s
<1> QED
  BY <1>1, Inductive, PTL
=============================================================================
