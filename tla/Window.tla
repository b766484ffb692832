------------------------------- MODULE Window -------------------------------
(***************************************************************************)
(* The workbench's window (App.tsx): its sizes (Layout), the panels that    *)
(* open and collapse, the command palette (CommandPalette.tsx) and the      *)
(* guided tour (GuidedTour.tsx), which opens the panels it explains.        *)
(*                                                                         *)
(* The tour's effect depends on a callback the workbench makes anew each    *)
(* time it renders, so it prepares the current step again after every       *)
(* change of the workbench's state: that is Settled here.  Keys reach the   *)
(* tour through the window, also those typed in the palette.               *)
(***************************************************************************)
EXTENDS Layout, Sequences

CONSTANTS TourSteps,   \* the targets and preparations of the steps
          Section,     \* of the right panel
          Results,     \* for each text typed in the palette, the commands it lists
          Live         \* IS_LIVE

Prepare == {"none", "expand_right", "open_console", "close_console"} \cup Section
Command == {"terminal", "console", "right", "tour", "other"}

ASSUME TourAssumption ==
  TourSteps \in Seq([target : STRING, prepare : Prepare]) /\ TourSteps # << >>
ASSUME SectionAssumption ==
  Section \cap {"none", "expand_right", "open_console", "close_console", "right", "console", "terminal"} = {}
\* A step whose target may be out of sight prepares it.
ASSUME MatchingAssumption ==
  \A i \in DOMAIN TourSteps :
    LET s == TourSteps[i]
    IN  /\ s.target = "right" => s.prepare = "expand_right"
        /\ s.target = "console" => s.prepare = "open_console"
        /\ s.target \in Section => s.prepare = s.target
ASSUME LiveAssumption == Live \in BOOLEAN
ASSUME ResultsAssumption ==
  "" \in DOMAIN Results /\ \A q \in DOMAIN Results : Results[q] \in Seq(Command)

VARIABLES
  panels,    \* what is collapsed and what is open
  tour,      \* GuidedTour's step, and whether it is open
  tourDone,  \* asmble_tour_done, in localStorage
  palette    \* CommandPalette's query and index, and whether it is open

vars == <<layout, panels, tour, tourDone, palette>>

InitPanels == [right |-> FALSE, collapsed |-> Section \ {"security"}, console |-> FALSE,
               term |-> FALSE, floating |-> FALSE]

Panels == [right : BOOLEAN, collapsed : SUBSET Section, console : BOOLEAN,
           term : BOOLEAN, floating : BOOLEAN]

TypeOK ==
  /\ LayoutFits
  /\ panels \in Panels
  /\ tour \in [open : BOOLEAN, step : 1..Len(TourSteps)]
  /\ tourDone \in BOOLEAN
  /\ palette \in [open : BOOLEAN, query : DOMAIN Results, index : Int]
  /\ \/ palette.index + 1 \in DOMAIN Results[palette.query]
     \/ Results[palette.query] = << >> /\ palette.index \in {-1, 0}

----------------------------------------------------------------------------
(* Panels under the tour                                                   *)

\* onPrepare.
Prepared(p, prepare) ==
  CASE prepare = "none" -> p
    [] prepare = "open_console" -> [p EXCEPT !.console = TRUE]
    [] prepare = "close_console" -> [p EXCEPT !.console = FALSE]
    [] prepare = "expand_right" -> [p EXCEPT !.right = FALSE]
    [] prepare \in Section -> [p EXCEPT !.right = FALSE, !.collapsed = @ \ {prepare}]

\* Mutant: the effect runs only when the tour moves.
Settled_Once(p, t) == IF t.open /\ t # tour THEN Prepared(p, TourSteps[t.step].prepare) ELSE p

\* What a change of the panels comes to once the tour's effect has run.
Settled(p, t) == IF t.open THEN Prepared(p, TourSteps[t.step].prepare) ELSE p

Init ==
  /\ InitLayout
  /\ tour = [open |-> TRUE, step |-> 1]
  /\ panels = Settled(InitPanels, tour)
  /\ tourDone = FALSE
  /\ palette = [open |-> FALSE, query |-> "", index |-> 0]

\* The terminal's bar and the buttons elsewhere that do the same.
TerminalButtons ==
  { [panels EXCEPT !.term = ~@], [panels EXCEPT !.floating = TRUE, !.term = TRUE],
    [panels EXCEPT !.floating = @ /\ ~panels.term] }

\* The right column's, of which only one is left when it is collapsed.
ColumnButtons ==
  { [panels EXCEPT !.right = ~@] }
    \cup { [panels EXCEPT !.collapsed = (@ \ {s}) \cup ({s} \ @)] : s \in {t \in Section : ~panels.right} }

\* The drawer's, the floating button's and the right column's.
ConsoleButtons == { [panels EXCEPT !.console = Live /\ ~@] }

TogglePanels ==
  /\ \E p \in TerminalButtons \cup ColumnButtons \cup ConsoleButtons : panels' = Settled(p, tour)
  /\ UNCHANGED <<layout, tour, tourDone, palette>>

----------------------------------------------------------------------------
(* The guided tour                                                         *)

\* The tour as it is once a move of it has been rendered.
MoveTo(t) ==
  /\ tour' = t
  /\ panels' = Settled(panels, t)

\* finish: Escape, a click beside it, Skip, the end.
Finish == tourDone' = TRUE /\ tour' = [tour EXCEPT !.open = FALSE] /\ UNCHANGED panels

Forward ==
  IF tour.step < Len(TourSteps)
  THEN MoveTo([tour EXCEPT !.step = @ + 1]) /\ UNCHANGED tourDone
  ELSE Finish

Backward ==
  IF tour.step > 1
  THEN MoveTo([tour EXCEPT !.step = @ - 1]) /\ UNCHANGED tourDone
  ELSE UNCHANGED <<tour, panels, tourDone>>

Tour ==
  /\ tour.open
  /\ Forward \/ Backward \/ Finish
  /\ UNCHANGED <<layout, palette>>

\* Opened again, the step it was left at is prepared before the first.
OpenTour(p) ==
  IF tour.open THEN panels' = Settled(p, tour) /\ UNCHANGED <<tour, tourDone>>
  ELSE /\ tour' = [open |-> TRUE, step |-> 1]
       /\ panels' = Settled(Prepared(p, TourSteps[tour.step].prepare), [open |-> TRUE, step |-> 1])
       /\ UNCHANGED tourDone

----------------------------------------------------------------------------
(* The command palette                                                     *)

Filtered == Results[palette.query]

\* Ctrl+K, and a click beside the palette.
TogglePalette ==
  /\ palette' = IF palette.open THEN [palette EXCEPT !.open = FALSE]
                ELSE [open |-> TRUE, query |-> "", index |-> 0]
  /\ UNCHANGED <<layout, panels, tour, tourDone>>

TypeQuery ==
  /\ palette.open
  /\ \E q \in DOMAIN Results \ {palette.query} :
       palette' = [palette EXCEPT !.query = q, !.index = 0]
  /\ UNCHANGED <<layout, panels, tour, tourDone>>

MoveIndex ==
  /\ palette.open
  /\ \/ palette' = [palette EXCEPT !.index = Least(@ + 1, Len(Filtered) - 1)]
     \/ palette' = [palette EXCEPT !.index = Greatest(@ - 1, 0)]
  /\ UNCHANGED <<layout, panels, tour, tourDone>>

Ran(command) ==
  CASE command = "terminal" -> [panels EXCEPT !.term = ~@]
    [] command = "console" -> [panels EXCEPT !.console = ~@]
    [] command = "right" -> [panels EXCEPT !.right = ~@]
    [] OTHER -> panels

\* A click on a command.
Pick ==
  /\ palette.open
  /\ palette.index + 1 \in DOMAIN Filtered
  /\ palette' = [palette EXCEPT !.open = FALSE]
  /\ LET command == Filtered[palette.index + 1]
     IN  IF command = "tour" THEN OpenTour(panels)
         ELSE panels' = Settled(Ran(command), tour) /\ UNCHANGED <<tour, tourDone>>
  /\ UNCHANGED layout

\* Enter in the palette also moves a tour that is open, once the command is rendered.
Enter ==
  /\ palette.open /\ tour.open
  /\ palette' = [palette EXCEPT !.open = palette.index + 1 \notin DOMAIN Filtered]
  /\ LET p == IF palette'.open THEN panels ELSE Settled(Ran(Filtered[palette.index + 1]), tour)
         ends == tour.step = Len(TourSteps)
         t == IF ends THEN [tour EXCEPT !.open = FALSE] ELSE [tour EXCEPT !.step = @ + 1]
     IN  /\ tour' = t
         /\ panels' = Settled(p, t)
         /\ tourDone' = (tourDone \/ ends)
  /\ UNCHANGED layout

\* Escape closes the palette and ends the tour.
Escape ==
  /\ palette.open
  /\ palette' = [palette EXCEPT !.open = FALSE]
  /\ IF tour.open THEN Finish ELSE UNCHANGED <<tour, tourDone, panels>>
  /\ UNCHANGED layout

----------------------------------------------------------------------------
Shown(handle) ==
  CASE handle = "left"  -> TRUE
    [] handle = "right" -> ~panels.right
    [] handle = "term"  -> panels.term /\ ~panels.floating
    [] handle = "stdin" -> panels.term /\ Live

Mouse ==
  /\ \/ ~palette.open /\ \E handle \in Handle : Shown(handle) /\ MouseDown(handle)
     \/ drags # {} /\ \E x \in MouseX, y \in MouseY, p \in MouseSplit : MouseMove(x, y, p)
     \/ MouseUp
  /\ UNCHANGED <<panels, tour, tourDone, palette>>

\* The page is loaded again; shouldShowTour.
Reload ==
  /\ cols' = [c0 |-> 30, c1 |-> 36, c2 |-> 34] /\ h' = 200 /\ split' = 50
  /\ drags' = {} /\ cursor' = ""
  /\ tour' = [open |-> ~tourDone, step |-> 1]
  /\ panels' = Settled(InitPanels, tour')
  /\ palette' = [open |-> FALSE, query |-> "", index |-> 0]
  /\ UNCHANGED tourDone

Next == \/ TogglePanels \/ Tour
        \/ TogglePalette \/ TypeQuery \/ MoveIndex \/ Pick \/ Enter \/ Escape
        \/ Mouse \/ Reload

Spec == Init /\ [][Next]_vars

----------------------------------------------------------------------------
(* Properties                                                              *)

OnDisplay(target) ==
  CASE target = "right" -> ~panels.right
    [] target = "console" -> IF Live THEN panels.console ELSE ~panels.right
    [] target = "terminal" -> ~panels.floating
    [] target \in Section -> (target = "security" => Live) /\ ~panels.right /\ target \notin panels.collapsed
    [] OTHER -> TRUE

\* In live mode the tour points at something: whatever is toggled, collapsed or
\* run from the palette while it is open, and wherever it was left and opened
\* again, its target is on display, except for a terminal that floats
\* (GuidedTour.tsx:101-127).
TourTargetShown ==
  tour.open /\ Live =>
    LET target == TourSteps[tour.step].target
    IN  OnDisplay(target) \/ (target = "terminal" /\ panels.floating)
=============================================================================
