------------------------------- MODULE Client -------------------------------
(***************************************************************************)
(* The browser's side of a debug session: the hook useGdbSession and the    *)
(* auto-step of App.tsx, against the endpoint of backend/app/main.py behind *)
(* the two ordered channels of one WebSocket.                              *)
(*                                                                         *)
(* One action is one event of the browser (a key, a button, a timer, an     *)
(* event of the socket) with the rendering and the effects it causes, or    *)
(* one message served by the endpoint.  Moving the view in the history      *)
(* sends nothing and is no event here; of the history the model keeps its   *)
(* last snapshot.  Answers that no state below depends on (session,         *)
(* checksec, eval_result, ...) are left out.                               *)
(***************************************************************************)
EXTENDS Naturals, Sequences

CONSTANTS MaxUp,    \* bound: messages sent and not served, when one more is sent
          MaxDown,  \* bound: answers made and not delivered
          MaxDeferred   \* bound: steps in a setTimeout(0)

ASSUME MaxUpAssumption   == MaxUp \in Nat \ {0}
ASSUME MaxDownAssumption == MaxDown \in Nat /\ MaxDown > 1
ASSUME MaxDeferredAssumption == MaxDeferred \in Nat \ {0}

VARIABLES
  socket,          \* ws.current: "none", "connecting" or "open"
  state,           \* state
  stepping,        \* stepping
  programExited,   \* programExited
  pending,         \* pendingStepAfterReset
  deferred,        \* steps in a setTimeout(0) of the snapshot handler
  shown,           \* the last snapshot of history
  isAutoStepping,  \* isAutoStepping of App.tsx
  timer,           \* autoStepTimerRef, and what its captured gdb.step will do
  up,              \* messages on their way to the endpoint
  down,            \* answers on their way to the browser
  program,         \* what session_id of the endpoint leads to
  reborn,          \* history: the endpoint's session was made by a reset
  resetFailed      \* history: the last reset served was answered by no snapshot

hook     == <<socket, state, stepping, programExited, pending, deferred, shown>>
autoStep == <<isAutoStepping, timer>>
endpoint == <<program, reborn, resetFailed>>
vars     == <<hook, autoStep, up, down, endpoint>>

\* "exec" stands for step, step_over and step_out, "set" for set_register,
\* "ask" for every message that is answered by data or by an error.
Request  == {"run", "exec", "continue", "reset", "set", "ask"}
Snapshot == {"plain", "finished"}
Answer   == Snapshot \cup {"exit", "error"}

\* "dead" is a session whose bridge knows that the program has exited, "gone"
\* one that is no longer in the manager.
Program == {"none", "alive", "dead", "gone"}

TypeOK ==
  /\ socket \in {"none", "connecting", "open"}
  /\ state \in {"disconnected", "connecting", "connected", "error"}
  /\ stepping \in BOOLEAN
  /\ programExited \in BOOLEAN
  /\ pending \in BOOLEAN
  /\ deferred \in Nat
  /\ shown \in Snapshot \cup {"none"}
  /\ isAutoStepping \in BOOLEAN
  /\ timer \in {"none", "step", "restart"}
  /\ up \in Seq(Request)
  /\ down \in Seq(Answer)
  /\ program \in Program
  /\ reborn \in BOOLEAN
  /\ resetFailed \in BOOLEAN

Init ==
  /\ socket = "none"
  /\ state = "disconnected"
  /\ stepping = FALSE
  /\ programExited = FALSE
  /\ pending = FALSE
  /\ deferred = 0
  /\ shown = "none"
  /\ isAutoStepping = FALSE
  /\ timer = "none"
  /\ up = << >>
  /\ down = << >>
  /\ program = "none"
  /\ reborn = FALSE
  /\ resetFailed = FALSE

----------------------------------------------------------------------------
(* Sending, and the effect that drives the auto-step                       *)

\* A message for a socket that is not open is dropped.
Room == socket = "open" => Len(up) < MaxUp

Send(msg) == up' = IF socket = "open" THEN Append(up, msg) ELSE up

\* Mutant: history.length is missing from the dependencies.
Rerun_IgnoresHistory(on, resized) ==
  on # isAutoStepping \/ stepping' # stepping \/ state' # state

\* A dependency of the effect has changed: isAutoStepping, which the event makes
\* `on`, stepping, state, or history.length.
Rerun(on, resized) ==
  on # isAutoStepping \/ stepping' # stepping \/ state' # state \/ resized

\* When the effect runs again its cleanup clears the timer, and its body stops
\* at the snapshot of a finished program or sets a timer that captures the
\* gdb.step of this rendering.  `left` is the timer before the effect.  It is the
\* last conjunct of its actions: it reads what they assign.
AutoStep(on, resized, left) ==
  LET rerun == Rerun(on, resized)
      ready == on /\ state' = "connected" /\ ~stepping'
      ended == shown' = "finished"
  IN  /\ isAutoStepping' = (on /\ ~(rerun /\ ready /\ ended))
      /\ timer' = CASE ~rerun                     -> left
                    [] rerun /\ ready /\ ~ended   ->
                         IF programExited' THEN "restart" ELSE "step"
                    [] OTHER                      -> "none"

\* An event that leaves isAutoStepping to the effect.
Render(resized) == AutoStep(isAutoStepping, resized, timer)

Cleared == shown # "none"

\* step(), whose programExited is the one of the rendering it was made in.
StepCall(exited) ==
  /\ Room
  /\ IF exited
     THEN /\ pending' = TRUE
          /\ programExited' = FALSE
          /\ shown' = "none"
          /\ Send("reset")
          /\ UNCHANGED stepping
     ELSE /\ stepping' = TRUE
          /\ Send("exec")
          /\ UNCHANGED <<pending, programExited, shown>>
  /\ UNCHANGED <<socket, state, deferred, down, endpoint>>

----------------------------------------------------------------------------
(* The user                                                                *)

\* Mutant: the deferred step is not forgotten.
Run_KeepsPending ==
  /\ socket' = "connecting"
  /\ state' = "connecting"
  /\ programExited' = FALSE
  /\ shown' = "none"
  /\ up' = << >>
  /\ down' = << >>
  /\ program' = "none"
  /\ reborn' = FALSE
  /\ resetFailed' = FALSE
  /\ UNCHANGED <<stepping, deferred, pending>>
  /\ AutoStep(FALSE, Cleared, timer)

\* Build & Run: the old socket's handlers are detached, so its answers are lost.
Run ==
  /\ socket' = "connecting"
  /\ state' = "connecting"
  /\ programExited' = FALSE
  /\ pending' = FALSE
  /\ shown' = "none"
  /\ up' = << >>
  /\ down' = << >>
  /\ program' = "none"
  /\ reborn' = FALSE
  /\ resetFailed' = FALSE
  /\ UNCHANGED <<stepping, deferred>>
  /\ AutoStep(FALSE, Cleared, timer)

Step == StepCall(programExited) /\ Render(programExited /\ Cleared)

\* step_over and step_out, continue: the shortcuts do not look at stepping.
Execute(msg) ==
  /\ Room
  /\ stepping' = TRUE
  /\ Send(msg)
  /\ UNCHANGED <<socket, state, programExited, pending, deferred, shown, down, endpoint>>
  /\ Render(FALSE)

Reset ==
  /\ Room
  /\ programExited' = FALSE
  /\ pending' = FALSE
  /\ shown' = "none"
  /\ Send("reset")
  /\ UNCHANGED <<socket, state, stepping, deferred, down, endpoint>>
  /\ AutoStep(FALSE, Cleared, timer)

\* set_register, and the messages that change nothing here before their answer.
Inspect(msg) ==
  /\ Room
  /\ Send(msg)
  /\ UNCHANGED <<hook, autoStep, down, endpoint>>

Play == /\ ~isAutoStepping
        /\ UNCHANGED <<hook, up, down, endpoint>>
        /\ AutoStep(TRUE, FALSE, timer)

Pause == /\ isAutoStepping
         /\ UNCHANGED <<hook, up, down, endpoint>>
         /\ AutoStep(FALSE, FALSE, timer)

\* The slider is a dependency of the effect as well.
ChangeSpeed == UNCHANGED <<hook, up, down, endpoint>> /\ Render(TRUE)

User == \/ Run \/ Step \/ Reset \/ Play \/ Pause \/ ChangeSpeed
        \/ \E msg \in {"exec", "continue"} : Execute(msg)
        \/ \E msg \in {"set", "ask"} : Inspect(msg)

----------------------------------------------------------------------------
(* Timers and the socket                                                   *)

AutoStepFires ==
  /\ timer # "none"
  /\ StepCall(timer = "restart")
  /\ AutoStep(isAutoStepping, timer = "restart" /\ Cleared, "none")

\* Mutant: the callback runs without having been set.
DeferredFires_Unguarded ==
  /\ deferred' = deferred - 1
  /\ stepping' = TRUE
  /\ Send("exec")
  /\ UNCHANGED <<socket, state, programExited, pending, shown, down, endpoint>>
  /\ Render(FALSE)

DeferredFires ==
  /\ deferred > 0
  /\ deferred' = deferred - 1
  /\ stepping' = TRUE
  /\ Send("exec")
  /\ UNCHANGED <<socket, state, programExited, pending, shown, down, endpoint>>
  /\ Render(FALSE)

Opened ==
  /\ socket = "connecting"
  /\ state = "connecting"
  /\ socket' = "open"
  /\ state' = "connected"
  /\ up' = << "run" >>
  /\ UNCHANGED <<stepping, programExited, pending, deferred, shown, down, endpoint>>
  /\ Render(FALSE)

Errored ==
  /\ socket # "none"
  /\ state # "error"
  /\ state' = "error"
  /\ UNCHANGED <<socket, stepping, programExited, pending, deferred, shown, up, down, endpoint>>
  /\ Render(FALSE)

Closed ==
  /\ socket # "none"
  /\ socket' = "none"
  /\ state' = "disconnected"
  /\ up' = << >>
  /\ down' = << >>
  /\ program' = "none"
  /\ reborn' = FALSE
  /\ resetFailed' = FALSE
  /\ UNCHANGED <<stepping, programExited, pending, deferred, shown>>
  /\ Render(FALSE)

\* Mutant: the snapshot handler forgets setProgramExited(false).
OnSnapshot_KeepsExited(msg) ==
  /\ msg \in Snapshot
  /\ pending => deferred < MaxDeferred
  /\ shown' = msg
  /\ stepping' = FALSE
  /\ pending' = FALSE
  /\ deferred' = IF pending THEN deferred + 1 ELSE deferred
  /\ UNCHANGED <<socket, state, programExited>>
  /\ Render(TRUE)

OnSnapshot(msg) ==
  /\ msg \in Snapshot
  /\ pending => deferred < MaxDeferred
  /\ shown' = msg
  /\ stepping' = FALSE
  /\ programExited' = FALSE
  /\ pending' = FALSE
  /\ deferred' = IF pending THEN deferred + 1 ELSE deferred
  /\ UNCHANGED <<socket, state>>
  /\ Render(TRUE)

\* Mutant: an error leaves the buttons disabled.
OnError_KeepsStepping(msg) ==
  msg = "error" /\ UNCHANGED <<hook, autoStep>>

OnError(msg) ==
  /\ msg = "error"
  /\ stepping' = FALSE
  /\ UNCHANGED <<socket, state, programExited, pending, deferred, shown>>
  /\ Render(FALSE)

OnExit(msg) ==
  /\ msg = "exit"
  /\ programExited' = TRUE
  /\ UNCHANGED <<socket, state, stepping, pending, deferred, shown>>
  /\ Render(FALSE)

\* handleMessage
Deliver ==
  /\ down # << >>
  /\ down' = Tail(down)
  /\ \/ OnSnapshot(Head(down))
     \/ OnError(Head(down))
     \/ OnExit(Head(down))
  /\ UNCHANGED <<up, endpoint>>

----------------------------------------------------------------------------
(* The endpoint                                                            *)

\* What the handler of a message may send, and what it leaves.  run announces
\* program_exit after any snapshot whose line is 0, which a live program that
\* stopped outside the source has too; every wait on GDB may end in an error.
Outcome(out, left) == [out |-> out, program |-> left]

Ran ==
  { Outcome(<< "plain" >>, "alive"), Outcome(<< "plain", "exit" >>, "alive"),
    Outcome(<< "finished", "exit" >>, "dead"), Outcome(<< "error" >>, "none") }

Executed ==
  IF program = "alive"
  THEN { Outcome(<< msg >>, left) : msg \in {"plain", "error"}, left \in {"alive", "dead"} }
  ELSE { Outcome(<< "error" >>, program) }

Continued ==
  IF program = "alive"
  THEN { Outcome(<< "plain" >>, "alive"), Outcome(<< "finished" >>, "dead"),
         Outcome(<< "error" >>, "alive") }
  ELSE { Outcome(<< "error" >>, program) }

IsReset ==
  IF program \in {"alive", "dead"}
  THEN { Outcome(<< "plain" >>, "alive"), Outcome(<< "error" >>, "alive"),
         Outcome(<< "error" >>, "gone"), Outcome(<< >>, "gone") }
  ELSE { Outcome(<< >>, program) }

WasSet ==
  { Outcome(<< "error" >>, program) }
    \cup { Outcome(<< "plain" >>, left) : left \in {program} \cap {"alive", "dead"} }

Asked == { Outcome(<< >>, program), Outcome(<< "error" >>, program) }

Handled(msg) ==
  CASE msg = "run"      -> Ran
    [] msg = "exec"     -> Executed
    [] msg = "continue" -> Continued
    [] msg = "reset"    -> IsReset
    [] msg = "set"      -> WasSet
    [] msg = "ask"      -> Asked

Serve ==
  /\ up # << >>
  /\ up' = Tail(up)
  /\ \E outcome \in Handled(Head(up)) :
       /\ Len(down) + Len(outcome.out) <= MaxDown
       /\ down' = down \o outcome.out
       /\ program' = outcome.program
       /\ resetFailed' = IF Head(up) = "reset" THEN outcome.out # << "plain" >> ELSE resetFailed
  /\ reborn' = (IF Head(up) = "reset" THEN reborn \/ program' = "alive" ELSE reborn)
  /\ UNCHANGED <<hook, autoStep>>

\* Mutant: the rate limiter drops the message without an answer.
Refuse_Silent ==
  /\ up # << >>
  /\ up' = Tail(up)
  /\ resetFailed' = (resetFailed \/ Head(up) = "reset")
  /\ UNCHANGED <<hook, autoStep, down, program, reborn>>

\* The rate limiter answers an error in the handler's place.
Refuse ==
  /\ up # << >>
  /\ Len(down) < MaxDown
  /\ up' = Tail(up)
  /\ down' = Append(down, "error")
  /\ resetFailed' = (resetFailed \/ Head(up) = "reset")
  /\ UNCHANGED <<hook, autoStep, program, reborn>>

\* Another connection's create_session evicts the session, or it was idle.
Evict ==
  /\ program \in {"alive", "dead"}
  /\ program' = "gone"
  /\ UNCHANGED <<hook, autoStep, up, down, reborn, resetFailed>>

Next == \/ User
        \/ AutoStepFires \/ DeferredFires
        \/ Opened \/ Errored \/ Closed \/ Deliver
        \/ Serve \/ Refuse \/ Evict

Spec == Init /\ [][Next]_vars

\* The browser runs timers and delivers what has arrived; the endpoint takes a
\* message after the other, and its handlers wait on GDB for a bounded time.
FairSpec ==
  /\ Spec
  /\ WF_vars(AutoStepFires) /\ WF_vars(DeferredFires)
  /\ WF_vars(Deliver) /\ WF_vars(Serve)

----------------------------------------------------------------------------
(* Properties                                                              *)

IsIn(msgs, queue) == \E i \in 1..Len(queue) : queue[i] \in msgs

\* Buttons are disabled while `stepping` (App.tsx:387): on an open socket an
\* answer that enables them again is always on its way, whatever was refused,
\* failed, pressed twice or typed before the socket opened.
SteppingAnswered ==
  socket = "open" /\ stepping =>
    \/ IsIn({"run", "exec", "continue", "set"}, up)
    \/ IsIn(Snapshot \cup {"error"}, down)

ResetUnderway == IsIn({"reset"}, up) \/ IsIn(Snapshot, down)

\* The step kept for after a reset (useGdbSession.ts:243) waits for a snapshot
\* that is coming: it is never left to be sent by a snapshot the user asks for
\* later, unless the reset failed or the connection was lost.
PendingHasReset ==
  pending => ResetUnderway \/ resetFailed \/ socket = "none"

\* A program_exit of the run that a reset has replaced, delivered after the
\* reset was asked for, does not stay: programExited never says of the new
\* program that it has exited, once the reset's snapshot is there.
ExitOfThisSession ==
  programExited /\ reborn => ResetUnderway \/ resetFailed

Due == isAutoStepping /\ state = "connected" /\ ~stepping

\* Auto-step neither stalls nor outlives its pause: its timer is set exactly
\* when it is on, connected and no step is awaited, except while its own step
\* waits for a reset (App.tsx:331-338).  After a reset that failed, that step
\* waits until the user sends something, and auto-step with it.
AutoStepArmed == (timer # "none" => Due) /\ (Due => timer # "none" \/ pending)

\* The buttons come back, or the connection is lost.
SteppingEnds == stepping ~> (~stepping \/ socket # "open")

\* docs/USER_GUIDE.md:104: "L'auto-step s'arrête automatiquement aux breakpoints
\* et à la fin du programme."
AutoStepEnds ==
  LET atEnd == program = "dead" /\ state = "connected" /\ shown # "none"
  IN  atEnd /\ isAutoStepping ~> ~isAutoStepping \/ ~atEnd
=============================================================================
