------------------------------- MODULE Offline -------------------------------
(***************************************************************************)
(* The workbench without a live session (App.tsx): programs are traced by   *)
(* the build server, the steps of the last trace that arrived are walked by *)
(* hand, played by an interval, or run to a breakpoint.                     *)
(*                                                                         *)
(* Steps are counted from 0.  The interval of a play keeps the trace and    *)
(* the breakpoints of the moment it was started.  Only the Build & Run      *)
(* button looks at isTracing: F5, the palette and the action menu do not,   *)
(* so that traces overlap and are answered in any order.                   *)
(***************************************************************************)
EXTENDS TraceServer

CONSTANTS BreakLine,    \* lines on which breakpoints are set
          Program,      \* texts in the editor
          Blank,        \* a text of nothing but white space
          HISTORY_MAX

ASSUME HistoryMaxAssumption == HISTORY_MAX \in Nat
ASSUME BlankAssumption == Blank \notin Program

VARIABLES
  traceSteps,   \* the trace on display
  step,         \* the step asked for; the display clamps it
  breakpoints,
  isTracing,
  play,         \* the interval: what its callback captured, or NoPlay
  history,      \* the programs that were run, in localStorage
  overtaken     \* ghost: the trace came while an older one was played

workbench == <<traceSteps, step, breakpoints, isTracing, play, overtaken, history>>
vars == <<server, workbench>>

NoPlay   == [on |-> FALSE, steps |-> << >>, stops |-> {}]
EmptySnap == << 1 >>

TypeOK ==
  /\ TypeOKServer
  /\ traceSteps \in (Trace \ {<< >>}) \cup {EmptySnap}
  /\ step \in 0..MaxSteps
  /\ breakpoints \subseteq BreakLine
  /\ play \in {NoPlay} \cup [on : {TRUE}, steps : Trace \cup {EmptySnap}, stops : SUBSET BreakLine]
  /\ isTracing \in BOOLEAN /\ overtaken \in BOOLEAN
  /\ history \in Seq(Program) /\ Len(history) <= HISTORY_MAX /\ IsInjective(history)

Init ==
  /\ InitServer
  /\ traceSteps = EmptySnap /\ step = 0 /\ breakpoints = {}
  /\ isTracing = FALSE /\ play = NoPlay /\ overtaken = FALSE
  /\ history = << >>

At(steps, s) == steps[s + 1]
End == Len(traceSteps) - 1

----------------------------------------------------------------------------
(* Running and its answers                                                 *)

Kept(programs) == SubSeq(programs, 1, Min({Len(programs), HISTORY_MAX}))

\* Mutant: a program that was run before is not taken out first.
Saved_Twice(code) ==
  IF code = Blank THEN history ELSE Kept(<< code >> \o history)

\* saveToHistory.
Saved(code) ==
  IF code = Blank THEN history ELSE Kept(<< code >> \o Those(history, Program \ {code}))

\* handleRun up to the fetch.
HandleRun(r, code) ==
  /\ Receive(r)
  /\ history' = Saved(code)
  /\ play' = NoPlay
  /\ isTracing' = TRUE
  /\ UNCHANGED <<traceSteps, step, breakpoints, overtaken>>

\* Mutant: the busy flag is reset only when there is a trace.
AnswerArrives_BusyOnFailure(r) ==
  LET steps == answer[r].steps
  IN  /\ answer[r].kind # "none"
      /\ answer' = [answer EXCEPT ![r] = NoAnswer]
      /\ isTracing' = (isTracing /\ answer[r].kind # "traced")
      /\ IF steps # << >>
         THEN traceSteps' = steps /\ step' = 0 /\ overtaken' = play.on
         ELSE UNCHANGED <<traceSteps, step, overtaken>>
      /\ UNCHANGED <<phase, made, removing, given, up, breakpoints, play, history>>

\* Mutant: a new trace keeps the step of the old one.
AnswerArrives_KeepsStep(r) ==
  LET steps == answer[r].steps
  IN  /\ answer[r].kind # "none"
      /\ answer' = [answer EXCEPT ![r] = NoAnswer]
      /\ isTracing' = FALSE
      /\ IF steps # << >>
         THEN traceSteps' = steps /\ overtaken' = play.on /\ UNCHANGED step
         ELSE UNCHANGED <<traceSteps, step, overtaken>>
      /\ UNCHANGED <<phase, made, removing, given, up, breakpoints, play, history>>

\* handleRun after the fetch: a failed build and a lost connection only report;
\* a trace without steps leaves the one on display.
AnswerArrives(r) ==
  LET steps == answer[r].steps
  IN  /\ answer[r].kind # "none"
      /\ answer' = [answer EXCEPT ![r] = NoAnswer]
      /\ isTracing' = FALSE
      /\ IF steps # << >>
         THEN traceSteps' = steps /\ step' = 0 /\ overtaken' = play.on
         ELSE UNCHANGED <<traceSteps, step, overtaken>>
      /\ UNCHANGED <<phase, made, removing, given, up, breakpoints, play, history>>

----------------------------------------------------------------------------
(* Walking the trace                                                       *)

\* F10, F11 and the palette clamp; so does the Next button by its guard.
StepNext ==
  /\ step' = IF step < End THEN step + 1 ELSE End
  /\ UNCHANGED <<server, traceSteps, breakpoints, isTracing, play, overtaken, history>>

StepBack ==
  /\ step > 0 /\ step' = step - 1
  /\ UNCHANGED <<server, traceSteps, breakpoints, isTracing, play, overtaken, history>>

\* Shift+F5.
Reset ==
  /\ step' = 0 /\ play' = NoPlay /\ overtaken' = FALSE
  /\ UNCHANGED <<server, traceSteps, breakpoints, isTracing, history>>

\* Without a breakpoint to stop at, the walk goes to the last step; only without
\* any breakpoint does it stop a play.
HandleRunToBreakpoint ==
  LET stops == { s \in (step + 1)..End : At(traceSteps, s) \in breakpoints }
  IN  /\ step' = IF stops = {} THEN End ELSE CHOOSE s \in stops : \A t \in stops : s <= t
      /\ play' = IF breakpoints = {} THEN NoPlay ELSE play
      /\ UNCHANGED <<server, traceSteps, breakpoints, isTracing, overtaken, history>>

ToggleBreakpoint ==
  /\ \E line \in BreakLine :
       breakpoints' = (breakpoints \ {line}) \cup ({line} \ breakpoints)
  /\ UNCHANGED <<server, traceSteps, step, isTracing, play, overtaken, history>>

StartAutoStep ==
  /\ play' = [on |-> TRUE, steps |-> traceSteps, stops |-> breakpoints]
  /\ UNCHANGED <<server, traceSteps, step, breakpoints, isTracing, overtaken, history>>

StopAutoStep ==
  /\ play' = NoPlay
  /\ UNCHANGED <<server, traceSteps, step, breakpoints, isTracing, overtaken, history>>

\* The interval's callback.
AutoStepTick ==
  LET next == step + 1
      ends == next >= Len(play.steps)
  IN  /\ play.on
      /\ step' = IF ends THEN step ELSE next
      /\ play' = IF ends \/ At(play.steps, next) \in play.stops THEN NoPlay ELSE play
      /\ UNCHANGED <<server, traceSteps, breakpoints, isTracing, overtaken, history>>

Walk == StepNext \/ StepBack \/ Reset \/ HandleRunToBreakpoint \/ ToggleBreakpoint
          \/ StartAutoStep \/ StopAutoStep \/ AutoStepTick

Next ==
  \/ Walk
  \/ \E r \in Request, code \in Program \cup {Blank} : HandleRun(r, code)
  \/ \E r \in Request : AnswerArrives(r)
  \/ (ServerNext \/ Restart) /\ UNCHANGED workbench

\* Handlers run on: a tool ends or is killed at its timeout (a program that blocks
\* SIGTERM is left aside, vite-plugin-asm-runner.ts:10), and the operations
\* on files settle.  Nobody has to run, walk, play or restart anything.
Fairness ==
  \A r \in Request :
    /\ WF_vars(Serve(r) /\ UNCHANGED workbench)
    /\ WF_vars(RemoveDirectory(r) /\ UNCHANGED workbench)
    /\ WF_vars(AnswerArrives(r))

Spec == Init /\ [][Next]_vars /\ Fairness

----------------------------------------------------------------------------
(* Properties                                                              *)

\* Tracing ends: whatever fails or is killed on the way (assembler, linker, GDB,
\* the program, a file operation, the process of the build server), the button
\* becomes usable again (App.tsx:274).
TracingEnds == isTracing ~> ~isTracing

\* No request leaves its directory behind: each is removed, unless the removal
\* itself fails or the process ends (vite-plugin-asm-runner.ts:219, 274).
DirectoriesGo == \A r \in Request : (r \in made) ~> (r \notin made \/ r \in given)

\* The step asked for is one of the trace on display, whatever was walked and
\* whichever answers came, except after one that came during the play of an older
\* trace, whose interval walks on to that one's length (App.tsx:226-232).
StepInTrace == ~overtaken => step <= End
=============================================================================
