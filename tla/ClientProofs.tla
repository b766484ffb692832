---------------------------- MODULE ClientProofs ----------------------------
(***************************************************************************)
(* Proofs about the browser's side of a session (Client.tla), for channels *)
(* of every length: the type invariant, and that the buttons come back, the *)
(* deferred step has its reset, and a late program_exit does not stay.      *)
(***************************************************************************)
EXTENDS Client, TLAPS

\* What the socket's state says of the rest.
SocketInv ==
  /\ state = "connected" => socket = "open"
  /\ socket # "open" => up = << >>
  /\ socket = "connecting" => /\ ~reborn
                              /\ down = << >>
                              /\ shown = "none"
                              /\ ~programExited
                              /\ ~pending

\* run is the first message of a connection.
RunFirst ==
  \A i \in 1..Len(up) : up[i] = "run" => i = 1 /\ ~reborn

\* A program_exit on its way to a browser whose session was made by a reset is
\* followed by what will clear it.
ExitFollowed ==
  \A i \in 1..Len(down) : down[i] = "exit" /\ reborn =>
    \/ IsIn({"reset"}, up)
    \/ \E j \in i+1..Len(down) : down[j] \in Snapshot
    \/ resetFailed

\* The invariant without the auto-step, which only reads the rest.
Base ==
  /\ socket \in {"none", "connecting", "open"}
  /\ state \in {"disconnected", "connecting", "connected", "error"}
  /\ stepping \in BOOLEAN
  /\ programExited \in BOOLEAN
  /\ pending \in BOOLEAN
  /\ deferred \in Nat
  /\ shown \in Snapshot \cup {"none"}
  /\ up \in Seq(Request)
  /\ down \in Seq(Answer)
  /\ program \in Program
  /\ reborn \in BOOLEAN
  /\ resetFailed \in BOOLEAN
  /\ SocketInv
  /\ SteppingAnswered
  /\ PendingHasReset
  /\ RunFirst
  /\ ExitFollowed
  /\ ExitOfThisSession

IInv == TypeOK /\ Base /\ AutoStepArmed

Clearing == {"run", "exec", "continue", "set"}

----------------------------------------------------------------------------
(* Queues                                                                  *)

\* What is in a queue stays there when something is appended, and what is
\* appended is in it (Send).
LEMMA AppendIn ==
  ASSUME NEW T, NEW q \in Seq(T), NEW m \in T, NEW S
  PROVE  /\ Append(q, m) \in Seq(T)
         /\ Len(Append(q, m)) = Len(q) + 1
         /\ \A i \in 1..Len(q) : Append(q, m)[i] = q[i]
         /\ Append(q, m)[Len(q) + 1] = m
         /\ IsIn(S, q) => IsIn(S, Append(q, m))
         /\ m \in S => IsIn(S, Append(q, m))
<1>1. /\ Append(q, m) \in Seq(T)
      /\ Len(Append(q, m)) = Len(q) + 1
      /\ \A i \in 1..Len(q) : Append(q, m)[i] = q[i]
      /\ Append(q, m)[Len(q) + 1] = m
  OBVIOUS
<1>2. Len(q) \in Nat
  OBVIOUS
<1>3. IsIn(S, q) => IsIn(S, Append(q, m))
  BY <1>1, <1>2 DEF IsIn
<1>4. m \in S => IsIn(S, Append(q, m))
  BY <1>1, <1>2 DEF IsIn
<1> QED BY <1>1, <1>3, <1>4

\* Taking the head of a queue removes nothing else (Deliver, Serve).
LEMMA TailIn ==
  ASSUME NEW T, NEW q \in Seq(T), q # << >>, NEW S
  PROVE  /\ Tail(q) \in Seq(T)
         /\ Head(q) \in T
         /\ Head(q) = q[1]
         /\ Len(q) \in Nat \ {0}
         /\ Len(Tail(q)) = Len(q) - 1
         /\ \A i \in 1..Len(q) - 1 : Tail(q)[i] = q[i + 1]
         /\ IsIn(S, q) /\ Head(q) \notin S => IsIn(S, Tail(q))
<1>1. /\ Tail(q) \in Seq(T)
      /\ Head(q) \in T
      /\ Head(q) = q[1]
      /\ Len(q) \in Nat \ {0}
      /\ Len(Tail(q)) = Len(q) - 1
      /\ \A i \in 1..Len(q) - 1 : Tail(q)[i] = q[i + 1]
  OBVIOUS
<1>2. ASSUME IsIn(S, q), Head(q) \notin S  PROVE IsIn(S, Tail(q))
  <2>1. PICK i \in 1..Len(q) : q[i] \in S
    BY <1>2 DEF IsIn
  <2>2. i # 1
    BY <1>1, <1>2, <2>1
  <2>3. i - 1 \in 1..Len(q) - 1 /\ Tail(q)[i - 1] = q[(i - 1) + 1]
    BY <1>1, <2>1, <2>2
  <2> QED BY <1>1, <2>1, <2>3 DEF IsIn
<1> QED BY <1>1, <1>2

\* A queue extended by the answers of a handler holds both (Serve).
LEMMA ConcatIn ==
  ASSUME NEW T, NEW q \in Seq(T), NEW r \in Seq(T), NEW S
  PROVE  /\ q \o r \in Seq(T)
         /\ Len(q) \in Nat /\ Len(r) \in Nat
         /\ Len(q \o r) = Len(q) + Len(r)
         /\ \A i \in 1..Len(q) : (q \o r)[i] = q[i]
         /\ \A i \in 1..Len(r) : (q \o r)[Len(q) + i] = r[i]
         /\ IsIn(S, q) => IsIn(S, q \o r)
         /\ IsIn(S, r) => IsIn(S, q \o r)
<1>1. /\ q \o r \in Seq(T)
      /\ Len(q) \in Nat /\ Len(r) \in Nat
      /\ Len(q \o r) = Len(q) + Len(r)
      /\ \A i \in 1..Len(q) : (q \o r)[i] = q[i]
      /\ \A i \in 1..Len(r) : (q \o r)[Len(q) + i] = r[i]
  OBVIOUS
<1>2. IsIn(S, q) => IsIn(S, q \o r)
  BY <1>1 DEF IsIn
<1>3. ASSUME IsIn(S, r)  PROVE IsIn(S, q \o r)
  <2>1. PICK i \in 1..Len(r) : r[i] \in S
    BY <1>3 DEF IsIn
  <2>2. Len(q) + i \in 1..Len(q \o r) /\ (q \o r)[Len(q) + i] \in S
    BY <1>1, <2>1
  <2> QED BY <2>2 DEF IsIn
<1> QED BY <1>1, <1>2, <1>3

----------------------------------------------------------------------------
(* The effect of the auto-step                                             *)

\* Whatever an event did, the effect leaves the timer armed exactly when it
\* should be, if it was so before (App.tsx:331-338).
LEMMA Effect ==
  ASSUME TypeOK, NEW on \in BOOLEAN, NEW resized \in BOOLEAN,
         NEW left \in {"none", "step", "restart"},
         stepping' \in BOOLEAN, AutoStep(on, resized, left),
         left # "none" => Due,
         Due /\ ~Rerun(on, resized) => left # "none" \/ pending'
  PROVE  /\ isAutoStepping' \in BOOLEAN
         /\ timer' \in {"none", "step", "restart"}
         /\ AutoStepArmed'
<1>0. isAutoStepping \in BOOLEAN /\ stepping \in BOOLEAN
  BY DEF TypeOK
<1>1. CASE Rerun(on, resized)
  <2>1. CASE on /\ state' = "connected" /\ ~stepping' /\ ~(shown' = "finished")
    <3>1. isAutoStepping' = TRUE
      BY <2>1 DEF AutoStep
    <3>2. timer' = IF programExited' THEN "restart" ELSE "step"
      BY <1>1, <2>1 DEF AutoStep
    <3> QED BY <2>1, <3>1, <3>2 DEF AutoStepArmed, Due
  <2>2. CASE ~(on /\ state' = "connected" /\ ~stepping' /\ ~(shown' = "finished"))
    <3>1. timer' = "none"
      BY <1>1, <2>2 DEF AutoStep
    <3>2. isAutoStepping' = (on /\ ~(on /\ state' = "connected" /\ ~stepping' /\ shown' = "finished"))
      BY <1>1 DEF AutoStep
    <3> QED BY <2>2, <3>1, <3>2 DEF AutoStepArmed, Due
  <2> QED BY <2>1, <2>2
<1>2. CASE ~Rerun(on, resized)
  <2>1. on = isAutoStepping /\ stepping' = stepping /\ state' = state
    BY <1>2 DEF Rerun
  <2>2. timer' = left /\ isAutoStepping' = on
    BY <1>2 DEF AutoStep
  <2> QED BY <1>0, <1>2, <2>1, <2>2 DEF AutoStepArmed, Due
<1> QED BY <1>1, <1>2

\* An event that leaves the connection, the deferred step and the buttons alone
\* leaves the auto-step as it was.
LEMMA EffectKept ==
  ASSUME IInv, UNCHANGED <<isAutoStepping, timer, state, stepping, pending>>
  PROVE  /\ isAutoStepping' \in BOOLEAN
         /\ timer' \in {"none", "step", "restart"}
         /\ AutoStepArmed'
BY DEF IInv, TypeOK, AutoStepArmed, Due

\* The two halves of the invariant.
LEMMA Halves ==
  ASSUME Base', isAutoStepping' \in BOOLEAN, timer' \in {"none", "step", "restart"},
         AutoStepArmed'
  PROVE  IInv'
BY DEF IInv, TypeOK, Base

----------------------------------------------------------------------------
(* What the browser sends                                                  *)

\* A message sent disturbs nothing that the invariant says of the channels.
LEMMA SendKeeps ==
  ASSUME Base, NEW msg \in Request \ {"run"}, Send(msg), socket' = socket,
         UNCHANGED <<down, endpoint>>
  PROVE  /\ up' \in Seq(Request)
         /\ socket' # "open" => up' = << >>
         /\ RunFirst'
         /\ ExitFollowed'
         /\ IsIn({"reset"}, up) => IsIn({"reset"}, up')
         /\ IsIn(Clearing, up) => IsIn(Clearing, up')
         /\ socket = "open" /\ msg = "reset" => IsIn({"reset"}, up')
         /\ socket = "open" /\ msg \in Clearing => IsIn(Clearing, up')
<1>0. up \in Seq(Request) /\ Len(up) \in Nat /\ (socket # "open" => up = << >>)
  BY DEF Base, SocketInv
<1>1. CASE socket # "open"
  <2>1. up' = up /\ reborn' = reborn /\ resetFailed' = resetFailed /\ down' = down
    BY <1>1 DEF Send, endpoint
  <2>2. RunFirst'
    BY <2>1 DEF Base, RunFirst
  <2>3. ExitFollowed'
    BY <2>1 DEF Base, ExitFollowed
  <2> QED BY <1>0, <1>1, <2>1, <2>2, <2>3
<1>2. CASE socket = "open"
  <2>1. up' = Append(up, msg) /\ reborn' = reborn /\ resetFailed' = resetFailed /\ down' = down
    BY <1>2 DEF Send, endpoint
  <2>2. /\ up' \in Seq(Request)
        /\ Len(up') = Len(up) + 1
        /\ \A i \in 1..Len(up) : up'[i] = up[i]
        /\ up'[Len(up) + 1] = msg
    BY <1>0, <2>1, AppendIn
  <2>3. /\ IsIn({"reset"}, up) => IsIn({"reset"}, up')
        /\ msg \in {"reset"} => IsIn({"reset"}, up')
    BY <1>0, <2>1, AppendIn
  <2>4. /\ IsIn(Clearing, up) => IsIn(Clearing, up')
        /\ msg \in Clearing => IsIn(Clearing, up')
    BY <1>0, <2>1, AppendIn
  <2>5. RunFirst'
    <3>1. ASSUME NEW i \in 1..Len(up'), up'[i] = "run"  PROVE i = 1 /\ ~reborn'
      <4>1. i \in 1..Len(up)
        BY <1>0, <2>2, <3>1
      <4> QED BY <2>1, <2>2, <3>1, <4>1 DEF Base, RunFirst
    <3> QED BY <3>1 DEF RunFirst
  <2>6. ExitFollowed'
    BY <2>1, <2>3 DEF Base, ExitFollowed
  <2> QED BY <1>2, <2>2, <2>3, <2>4, <2>5, <2>6
<1> QED BY <1>1, <1>2

\* A command other than reset: what it sets is answered.
LEMMA CommandKeeps ==
  ASSUME Base, NEW msg \in {"exec", "continue", "set", "ask"}, Send(msg),
         stepping' = stepping \/ (stepping' = TRUE /\ msg \in Clearing),
         deferred' \in Nat,
         UNCHANGED <<socket, state, programExited, pending, shown, down, endpoint>>
  PROVE  Base'
<1>1. /\ socket' = socket /\ state' = state /\ programExited' = programExited
      /\ pending' = pending /\ shown' = shown /\ down' = down
      /\ program' = program /\ reborn' = reborn /\ resetFailed' = resetFailed
  BY DEF endpoint
<1>2. msg \in Request \ {"run"} /\ UNCHANGED <<down, endpoint>>
  BY DEF Request
<1>3. /\ up' \in Seq(Request)
      /\ socket' # "open" => up' = << >>
      /\ RunFirst' /\ ExitFollowed'
      /\ IsIn({"reset"}, up) => IsIn({"reset"}, up')
      /\ IsIn(Clearing, up) => IsIn(Clearing, up')
      /\ socket = "open" /\ msg \in Clearing => IsIn(Clearing, up')
  BY <1>1, <1>2, SendKeeps
<1>4. SocketInv'
  BY <1>1, <1>3 DEF Base, SocketInv
<1>5. SteppingAnswered'
  BY <1>1, <1>3 DEF Base, SteppingAnswered, Clearing
<1>6. PendingHasReset'
  BY <1>1, <1>3 DEF Base, PendingHasReset, ResetUnderway
<1>7. ExitOfThisSession'
  BY <1>1, <1>3 DEF Base, ExitOfThisSession, ResetUnderway
<1> QED BY <1>1, <1>3, <1>4, <1>5, <1>6, <1>7 DEF Base

\* step() keeps the invariant, in whichever rendering it was captured: it asks
\* for a reset only when the connection is not being made.
LEMMA StepCallKeeps ==
  ASSUME Base, NEW exited \in BOOLEAN, StepCall(exited), exited => socket # "connecting"
  PROVE  Base'
<1>1. CASE exited
  <2>1. /\ pending' = TRUE /\ programExited' = FALSE /\ shown' = "none"
        /\ Send("reset") /\ stepping' = stepping
        /\ socket' = socket /\ state' = state /\ deferred' = deferred /\ down' = down
        /\ program' = program /\ reborn' = reborn /\ resetFailed' = resetFailed
    BY <1>1 DEF StepCall, endpoint
  <2>2. /\ up' \in Seq(Request)
        /\ socket' # "open" => up' = << >>
        /\ RunFirst' /\ ExitFollowed'
        /\ IsIn(Clearing, up) => IsIn(Clearing, up')
        /\ socket = "open" => IsIn({"reset"}, up')
    <3>1. "reset" \in Request \ {"run"} /\ UNCHANGED <<down, endpoint>>
      BY <2>1 DEF Request, endpoint
    <3> QED BY <2>1, <3>1, SendKeeps
  <2>3. SocketInv'
    BY <1>1, <2>1, <2>2 DEF Base, SocketInv
  <2>4. SteppingAnswered'
    BY <2>1, <2>2 DEF Base, SteppingAnswered, Clearing
  <2>5. PendingHasReset'
    BY <1>1, <2>1, <2>2 DEF Base, PendingHasReset, ResetUnderway
  <2>6. ExitOfThisSession'
    BY <2>1 DEF ExitOfThisSession
  <2> QED BY <2>1, <2>2, <2>3, <2>4, <2>5, <2>6 DEF Base
<1>2. CASE ~exited
  <2>1. /\ stepping' = TRUE /\ Send("exec")
        /\ pending' = pending /\ programExited' = programExited /\ shown' = shown
        /\ socket' = socket /\ state' = state /\ deferred' = deferred /\ down' = down
        /\ program' = program /\ reborn' = reborn /\ resetFailed' = resetFailed
    BY <1>2 DEF StepCall, endpoint
  <2>2. "exec" \in Clearing /\ deferred' \in Nat
    BY <2>1 DEF Clearing, Base
  <2>3. UNCHANGED <<socket, state, programExited, pending, shown, down, endpoint>>
    BY <2>1 DEF endpoint
  <2> QED BY <2>1, <2>2, <2>3, CommandKeeps
<1> QED BY <1>1, <1>2

----------------------------------------------------------------------------
(* The user and the timers                                                 *)

LEMMA RunKeeps == ASSUME IInv, Run PROVE IInv'
<1>1. /\ socket' = "connecting" /\ state' = "connecting" /\ programExited' = FALSE
      /\ pending' = FALSE /\ shown' = "none" /\ up' = << >> /\ down' = << >>
      /\ program' = "none" /\ reborn' = FALSE /\ resetFailed' = FALSE
      /\ stepping' = stepping /\ deferred' = deferred
  BY DEF Run
<1>2. Base'
  <2>1. /\ up' \in Seq(Request) /\ down' \in Seq(Answer) /\ program' \in Program
        /\ stepping' \in BOOLEAN /\ deferred' \in Nat
    BY <1>1 DEF IInv, Base, Program
  <2>2. SocketInv' /\ SteppingAnswered' /\ PendingHasReset' /\ ExitOfThisSession'
    BY <1>1 DEF SocketInv, SteppingAnswered, PendingHasReset, ExitOfThisSession
  <2>3. RunFirst' /\ ExitFollowed'
    BY <1>1 DEF RunFirst, ExitFollowed
  <2> QED BY <1>1, <2>1, <2>2, <2>3 DEF Base
<1>3. /\ isAutoStepping' \in BOOLEAN
      /\ timer' \in {"none", "step", "restart"}
      /\ AutoStepArmed'
  <2>1. AutoStep(FALSE, Cleared, timer) /\ Cleared \in BOOLEAN
    BY DEF Run, Cleared
  <2>2. Due => Rerun(FALSE, Cleared)
    BY <1>1 DEF Due, Rerun
  <2>3. timer \in {"none", "step", "restart"} /\ (timer # "none" => Due) /\ stepping' \in BOOLEAN /\ TypeOK
    BY <1>1 DEF IInv, TypeOK, AutoStepArmed
  <2> QED BY <2>1, <2>2, <2>3, Effect
<1> QED BY <1>2, <1>3, Halves

\* What gives step() its rendering when a key is pressed.
LEMMA StepKeeps == ASSUME IInv, Step PROVE IInv'
<1>1. StepCall(programExited) /\ AutoStep(isAutoStepping, programExited /\ Cleared, timer)
  BY DEF Step, Render
<1>2. Base /\ TypeOK /\ programExited \in BOOLEAN /\ (programExited => socket # "connecting")
  BY DEF IInv, Base, SocketInv
<1>3. Base'
  BY <1>1, <1>2, StepCallKeeps
<1>4. (programExited /\ Cleared) \in BOOLEAN /\ isAutoStepping \in BOOLEAN /\ stepping' \in BOOLEAN
  BY <1>2, <1>3 DEF TypeOK, Base
<1>5. timer \in {"none", "step", "restart"} /\ (timer # "none" => Due)
  BY DEF IInv, TypeOK, AutoStepArmed
<1>6. Due => timer # "none" \/ pending'
  BY <1>1 DEF IInv, AutoStepArmed, StepCall
<1>7. /\ isAutoStepping' \in BOOLEAN
      /\ timer' \in {"none", "step", "restart"}
      /\ AutoStepArmed'
  BY <1>1, <1>2, <1>4, <1>5, <1>6, Effect
<1> QED BY <1>3, <1>7, Halves

LEMMA ExecuteKeeps == ASSUME IInv, NEW msg \in {"exec", "continue"}, Execute(msg) PROVE IInv'
<1>1. /\ Base /\ TypeOK
      /\ msg \in {"exec", "continue", "set", "ask"} /\ msg \in Clearing
      /\ Send(msg) /\ stepping' = TRUE /\ deferred' \in Nat
      /\ UNCHANGED <<socket, state, programExited, pending, shown, down, endpoint>>
      /\ AutoStep(isAutoStepping, FALSE, timer)
  BY DEF IInv, TypeOK, Execute, Render, Clearing
<1>2. Base'
  BY <1>1, CommandKeeps
<1>3. /\ timer \in {"none", "step", "restart"} /\ isAutoStepping \in BOOLEAN
      /\ timer # "none" => Due
      /\ Due => timer # "none" \/ pending'
      /\ stepping' \in BOOLEAN
  BY <1>1 DEF IInv, TypeOK, AutoStepArmed
<1>4. /\ isAutoStepping' \in BOOLEAN
      /\ timer' \in {"none", "step", "restart"}
      /\ AutoStepArmed'
  BY <1>1, <1>3, Effect
<1> QED BY <1>2, <1>4, Halves

LEMMA ResetKeeps == ASSUME IInv, Reset PROVE IInv'
<1>1. /\ programExited' = FALSE /\ pending' = FALSE /\ shown' = "none" /\ Send("reset")
      /\ socket' = socket /\ state' = state /\ stepping' = stepping /\ deferred' = deferred
      /\ down' = down /\ program' = program /\ reborn' = reborn /\ resetFailed' = resetFailed
  BY DEF Reset, endpoint
<1>2. Base
  BY DEF IInv
<1>3. /\ up' \in Seq(Request)
      /\ socket' # "open" => up' = << >>
      /\ RunFirst' /\ ExitFollowed'
      /\ IsIn(Clearing, up) => IsIn(Clearing, up')
  <2>1. "reset" \in Request \ {"run"} /\ UNCHANGED <<down, endpoint>>
    BY <1>1 DEF Request, endpoint
  <2> QED BY <1>1, <1>2, <2>1, SendKeeps
<1>4. SteppingAnswered'
  BY <1>1, <1>2, <1>3 DEF Base, SteppingAnswered, Clearing
<1>5. SocketInv'
  BY <1>1, <1>2, <1>3 DEF Base, SocketInv
<1>6. PendingHasReset' /\ ExitOfThisSession'
  BY <1>1 DEF PendingHasReset, ExitOfThisSession
<1>7. Base'
  BY <1>1, <1>2, <1>3, <1>4, <1>5, <1>6 DEF Base
<1>8. /\ isAutoStepping' \in BOOLEAN
      /\ timer' \in {"none", "step", "restart"}
      /\ AutoStepArmed'
  <2>1. AutoStep(FALSE, Cleared, timer) /\ Cleared \in BOOLEAN
    BY DEF Reset, Cleared
  <2>2. Due => Rerun(FALSE, Cleared)
    BY DEF Due, Rerun
  <2>3. timer \in {"none", "step", "restart"} /\ (timer # "none" => Due) /\ stepping' \in BOOLEAN /\ TypeOK
    BY <1>1 DEF IInv, TypeOK, AutoStepArmed
  <2> QED BY <2>1, <2>2, <2>3, Effect
<1> QED BY <1>7, <1>8, Halves

LEMMA InspectKeeps == ASSUME IInv, NEW msg \in {"set", "ask"}, Inspect(msg) PROVE IInv'
<1>1. /\ Base /\ msg \in {"exec", "continue", "set", "ask"}
      /\ Send(msg) /\ stepping' = stepping /\ deferred' \in Nat
      /\ UNCHANGED <<socket, state, programExited, pending, shown, down, endpoint>>
      /\ UNCHANGED <<isAutoStepping, timer, state, stepping, pending>>
  BY DEF IInv, TypeOK, Inspect, hook, autoStep
<1>2. Base'
  BY <1>1, CommandKeeps
<1> QED BY <1>1, <1>2, EffectKept, Halves

\* Play, Pause and the slider touch the auto-step only.
LEMMA Untouched ==
  ASSUME IInv, UNCHANGED <<hook, up, down, endpoint>>, NEW on \in BOOLEAN,
         NEW resized \in BOOLEAN, AutoStep(on, resized, timer)
  PROVE  IInv'
<1>1. /\ socket' = socket /\ state' = state /\ stepping' = stepping
      /\ programExited' = programExited /\ pending' = pending /\ deferred' = deferred
      /\ shown' = shown /\ up' = up /\ down' = down
      /\ program' = program /\ reborn' = reborn /\ resetFailed' = resetFailed
  BY DEF hook, endpoint
<1>2. Base'
  BY <1>1 DEF IInv, Base, SocketInv, SteppingAnswered, PendingHasReset, RunFirst,
              ExitFollowed, ExitOfThisSession, ResetUnderway
<1>3. /\ timer \in {"none", "step", "restart"}
      /\ timer # "none" => Due
      /\ Due => timer # "none" \/ pending'
      /\ stepping' \in BOOLEAN /\ TypeOK
  BY <1>1 DEF IInv, TypeOK, AutoStepArmed
<1>4. /\ isAutoStepping' \in BOOLEAN
      /\ timer' \in {"none", "step", "restart"}
      /\ AutoStepArmed'
  BY <1>3, Effect
<1> QED BY <1>2, <1>4, Halves

LEMMA UserKeeps == ASSUME IInv, User PROVE IInv'
<1>1. CASE Run
  BY <1>1, RunKeeps
<1>2. CASE Step
  BY <1>2, StepKeeps
<1>3. CASE Reset
  BY <1>3, ResetKeeps
<1>4. CASE Play
  BY <1>4, Untouched DEF Play
<1>5. CASE Pause
  BY <1>5, Untouched DEF Pause
<1>6. CASE ChangeSpeed
  <2>1. isAutoStepping \in BOOLEAN
    BY DEF IInv, TypeOK
  <2> QED BY <1>6, <2>1, Untouched DEF ChangeSpeed, Render
<1>7. CASE \E msg \in {"exec", "continue"} : Execute(msg)
  BY <1>7, ExecuteKeeps
<1>8. CASE \E msg \in {"set", "ask"} : Inspect(msg)
  BY <1>8, InspectKeeps
<1> QED BY <1>1, <1>2, <1>3, <1>4, <1>5, <1>6, <1>7, <1>8 DEF User

\* The timer was set while connected, so the step it captured is not called
\* while a connection is being made.
LEMMA AutoStepFiresKeeps == ASSUME IInv, AutoStepFires PROVE IInv'
<1> DEFINE exited == timer = "restart"
<1>1. /\ timer # "none" /\ StepCall(exited)
      /\ AutoStep(isAutoStepping, exited /\ Cleared, "none")
  BY DEF AutoStepFires
<1>2. Base /\ TypeOK /\ exited \in BOOLEAN
  BY DEF IInv
<1>3. Due /\ socket = "open"
  BY <1>1 DEF IInv, Base, AutoStepArmed, Due, SocketInv
<1>4. Base'
  BY <1>1, <1>2, <1>3, StepCallKeeps
<1>5. (exited /\ Cleared) \in BOOLEAN /\ isAutoStepping \in BOOLEAN /\ stepping' \in BOOLEAN
  BY <1>2, <1>4 DEF TypeOK, Base
<1>6. ~Rerun(isAutoStepping, exited /\ Cleared) => pending'
  <2>1. CASE exited
    BY <1>1, <2>1 DEF StepCall
  <2>2. CASE ~exited
    <3>1. stepping' = TRUE /\ stepping = FALSE
      BY <1>1, <1>2, <1>3, <2>2 DEF StepCall, Due, TypeOK
    <3> QED BY <3>1 DEF Rerun
  <2> QED BY <2>1, <2>2
<1> HIDE DEF exited
<1>7. /\ isAutoStepping' \in BOOLEAN
      /\ timer' \in {"none", "step", "restart"}
      /\ AutoStepArmed'
  BY <1>1, <1>2, <1>5, <1>6, Effect
<1> QED BY <1>4, <1>7, Halves

LEMMA DeferredFiresKeeps == ASSUME IInv, DeferredFires PROVE IInv'
<1>0. deferred' \in Nat
  BY DEF IInv, TypeOK, DeferredFires
<1>1. /\ Base /\ TypeOK
      /\ "exec" \in {"exec", "continue", "set", "ask"} /\ "exec" \in Clearing
      /\ Send("exec") /\ stepping' = TRUE /\ deferred' \in Nat
      /\ UNCHANGED <<socket, state, programExited, pending, shown, down, endpoint>>
      /\ AutoStep(isAutoStepping, FALSE, timer)
  BY <1>0 DEF IInv, DeferredFires, Render, Clearing
<1>2. Base'
  BY <1>1, CommandKeeps
<1>3. /\ timer \in {"none", "step", "restart"} /\ isAutoStepping \in BOOLEAN
      /\ timer # "none" => Due
      /\ Due => timer # "none" \/ pending'
      /\ stepping' \in BOOLEAN
  BY <1>1 DEF IInv, TypeOK, AutoStepArmed
<1>4. /\ isAutoStepping' \in BOOLEAN
      /\ timer' \in {"none", "step", "restart"}
      /\ AutoStepArmed'
  BY <1>1, <1>3, Effect
<1> QED BY <1>2, <1>4, Halves

----------------------------------------------------------------------------
(* The socket                                                              *)

LEMMA OpenedKeeps == ASSUME IInv, Opened PROVE IInv'
<1>1. /\ socket = "connecting" /\ socket' = "open" /\ state' = "connected" /\ up' = << "run" >>
      /\ stepping' = stepping /\ programExited' = programExited /\ pending' = pending
      /\ deferred' = deferred /\ shown' = shown /\ down' = down
      /\ program' = program /\ reborn' = reborn /\ resetFailed' = resetFailed
      /\ state = "connecting"
  BY DEF Opened, endpoint
<1>2. /\ Base /\ TypeOK /\ down = << >> /\ ~programExited /\ ~pending
  BY <1>1 DEF IInv, Base, SocketInv
<1>3. up' \in Seq(Request) /\ Len(up') = 1 /\ up'[1] = "run"
  BY <1>1 DEF Request
<1>4. SteppingAnswered'
  BY <1>3 DEF SteppingAnswered, IsIn
<1>5. ~reborn
  BY <1>1, <1>2 DEF Base, SocketInv
<1>6. RunFirst' /\ ExitFollowed'
  BY <1>1, <1>2, <1>3, <1>5 DEF RunFirst, ExitFollowed
<1>7. SocketInv' /\ PendingHasReset' /\ ExitOfThisSession'
  BY <1>1, <1>2 DEF SocketInv, PendingHasReset, ExitOfThisSession
<1>8. Base'
  BY <1>1, <1>2, <1>3, <1>4, <1>6, <1>7 DEF Base
<1>9. /\ isAutoStepping' \in BOOLEAN
      /\ timer' \in {"none", "step", "restart"}
      /\ AutoStepArmed'
  <2>1. AutoStep(isAutoStepping, FALSE, timer) /\ isAutoStepping \in BOOLEAN /\ stepping' \in BOOLEAN
    BY <1>1, <1>2 DEF Opened, Render, TypeOK
  <2>2. ~Due /\ timer = "none"
    BY <1>1 DEF IInv, AutoStepArmed, Due
  <2> QED BY <1>2, <2>1, <2>2, Effect
<1> QED BY <1>8, <1>9, Halves

LEMMA ErroredKeeps == ASSUME IInv, Errored PROVE IInv'
<1>1. /\ socket' = socket /\ state' = "error" /\ socket # "none" /\ state # "error"
      /\ stepping' = stepping /\ programExited' = programExited /\ pending' = pending
      /\ deferred' = deferred /\ shown' = shown /\ down' = down /\ up' = up
      /\ program' = program /\ reborn' = reborn /\ resetFailed' = resetFailed
  BY DEF Errored, endpoint
<1>2. Base'
  BY <1>1 DEF IInv, Base, SocketInv, SteppingAnswered, PendingHasReset, RunFirst,
              ExitFollowed, ExitOfThisSession, ResetUnderway
<1>3. /\ isAutoStepping' \in BOOLEAN
      /\ timer' \in {"none", "step", "restart"}
      /\ AutoStepArmed'
  <2>1. /\ AutoStep(isAutoStepping, FALSE, timer) /\ isAutoStepping \in BOOLEAN
        /\ stepping' \in BOOLEAN /\ TypeOK
        /\ timer \in {"none", "step", "restart"} /\ (timer # "none" => Due)
    BY <1>1 DEF Errored, Render, TypeOK, IInv, AutoStepArmed
  <2>2. Rerun(isAutoStepping, FALSE)
    BY <1>1 DEF Rerun
  <2> QED BY <2>1, <2>2, Effect
<1> QED BY <1>2, <1>3, Halves

LEMMA ClosedKeeps == ASSUME IInv, Closed PROVE IInv'
<1>1. /\ socket' = "none" /\ state' = "disconnected" /\ up' = << >> /\ down' = << >>
      /\ program' = "none" /\ reborn' = FALSE /\ resetFailed' = FALSE
      /\ stepping' = stepping /\ programExited' = programExited /\ pending' = pending
      /\ deferred' = deferred /\ shown' = shown
  BY DEF Closed
<1>2. Base'
  <2>1. /\ up' \in Seq(Request) /\ down' \in Seq(Answer) /\ program' \in Program
    BY <1>1 DEF Program
  <2>2. SocketInv' /\ SteppingAnswered' /\ PendingHasReset' /\ ExitOfThisSession'
    BY <1>1 DEF SocketInv, SteppingAnswered, PendingHasReset, ExitOfThisSession
  <2>3. RunFirst' /\ ExitFollowed'
    BY <1>1 DEF RunFirst, ExitFollowed
  <2> QED BY <1>1, <2>1, <2>2, <2>3 DEF IInv, Base
<1>3. /\ isAutoStepping' \in BOOLEAN
      /\ timer' \in {"none", "step", "restart"}
      /\ AutoStepArmed'
  <2>1. /\ AutoStep(isAutoStepping, FALSE, timer) /\ isAutoStepping \in BOOLEAN
        /\ stepping' \in BOOLEAN /\ TypeOK
        /\ timer \in {"none", "step", "restart"} /\ (timer # "none" => Due)
    BY <1>1 DEF Closed, Render, TypeOK, IInv, AutoStepArmed
  <2>2. Due => Rerun(isAutoStepping, FALSE)
    BY <1>1 DEF Rerun, Due
  <2> QED BY <2>1, <2>2, Effect
<1> QED BY <1>2, <1>3, Halves

----------------------------------------------------------------------------
(* Answers                                                                 *)

\* Taking an answer off the channel: a program_exit behind it is still followed
\* by what will clear it.
LEMMA TailFollowed ==
  ASSUME Base, down # << >>, down' = Tail(down), UNCHANGED <<up, endpoint>>
  PROVE  /\ down' \in Seq(Answer)
         /\ ExitFollowed'
         /\ Head(down) = "exit" /\ reborn => ResetUnderway' \/ resetFailed'
         /\ Head(down) \notin Snapshot /\ IsIn(Snapshot, down) => IsIn(Snapshot, down')
         /\ Head(down) \notin Snapshot \cup {"error"} /\ IsIn(Snapshot \cup {"error"}, down)
              => IsIn(Snapshot \cup {"error"}, down')
<1>1. down \in Seq(Answer)
  BY DEF Base
<1>2. /\ down' \in Seq(Answer)
      /\ Head(down) = down[1]
      /\ Len(down) \in Nat \ {0}
      /\ Len(down') = Len(down) - 1
      /\ \A i \in 1..Len(down) - 1 : down'[i] = down[i + 1]
      /\ IsIn(Snapshot, down) /\ Head(down) \notin Snapshot => IsIn(Snapshot, down')
  BY <1>1, TailIn
<1>3. IsIn(Snapshot \cup {"error"}, down) /\ Head(down) \notin Snapshot \cup {"error"}
        => IsIn(Snapshot \cup {"error"}, down')
  BY <1>1, TailIn
<1>4. up' = up /\ reborn' = reborn /\ resetFailed' = resetFailed
  BY DEF endpoint
<1>5. ASSUME NEW i \in 1..Len(down), down[i] = "exit", reborn
      PROVE  \/ IsIn({"reset"}, up')
             \/ \E j \in i..Len(down') : down'[j] \in Snapshot
             \/ resetFailed'
  <2>1. \/ IsIn({"reset"}, up)
        \/ \E j \in i+1..Len(down) : down[j] \in Snapshot
        \/ resetFailed
    BY <1>5 DEF Base, ExitFollowed
  <2>2. ASSUME NEW j \in i+1..Len(down), down[j] \in Snapshot
        PROVE  \E k \in i..Len(down') : down'[k] \in Snapshot
    <3>1. j - 1 \in i..Len(down') /\ j - 1 \in 1..Len(down) - 1 /\ (j - 1) + 1 = j
      BY <1>2, <1>5
    <3>2. down'[j - 1] = down[j]
      BY <1>2, <3>1
    <3> QED BY <2>2, <3>1, <3>2
  <2> QED BY <1>4, <2>1, <2>2
<1>6. ExitFollowed'
  <2>1. ASSUME NEW i \in 1..Len(down'), down'[i] = "exit", reborn'
        PROVE  \/ IsIn({"reset"}, up')
               \/ \E j \in i+1..Len(down') : down'[j] \in Snapshot
               \/ resetFailed'
    <3>1. i + 1 \in 1..Len(down) /\ down[i + 1] = "exit"
      BY <1>2, <2>1
    <3> QED BY <1>4, <1>5, <2>1, <3>1
  <2> QED BY <2>1 DEF ExitFollowed
<1>7. ASSUME Head(down) = "exit", reborn  PROVE ResetUnderway' \/ resetFailed'
  <2>1. 1 \in 1..Len(down) /\ down[1] = "exit"
    BY <1>2, <1>7
  <2>2. \/ IsIn({"reset"}, up')
        \/ \E j \in 1..Len(down') : down'[j] \in Snapshot
        \/ resetFailed'
    BY <1>5, <1>7, <2>1
  <2> QED BY <2>2 DEF ResetUnderway, IsIn
<1> QED BY <1>2, <1>3, <1>6, <1>7

LEMMA DeliverKeeps == ASSUME IInv, Deliver PROVE IInv'
<1>1. /\ Base /\ TypeOK /\ down # << >> /\ down' = Tail(down)
      /\ UNCHANGED <<up, endpoint>>
      /\ OnSnapshot(Head(down)) \/ OnError(Head(down)) \/ OnExit(Head(down))
  BY DEF IInv, Deliver
<1>2. /\ up' = up /\ program' = program /\ reborn' = reborn /\ resetFailed' = resetFailed
  BY <1>1 DEF endpoint
<1>3. /\ down' \in Seq(Answer)
      /\ ExitFollowed'
      /\ Head(down) = "exit" /\ reborn => ResetUnderway' \/ resetFailed'
      /\ Head(down) \notin Snapshot /\ IsIn(Snapshot, down) => IsIn(Snapshot, down')
      /\ Head(down) \notin Snapshot \cup {"error"} /\ IsIn(Snapshot \cup {"error"}, down)
           => IsIn(Snapshot \cup {"error"}, down')
  BY <1>1, TailFollowed
<1>4. RunFirst'
  BY <1>1, <1>2 DEF Base, RunFirst
<1>5. socket # "connecting"
  BY <1>1 DEF Base, SocketInv
<1>6. /\ timer \in {"none", "step", "restart"} /\ isAutoStepping \in BOOLEAN
      /\ timer # "none" => Due
      /\ Due => timer # "none" \/ pending
  BY DEF IInv, TypeOK, AutoStepArmed
<1>7. CASE OnSnapshot(Head(down))
  <2>1. /\ shown' = Head(down) /\ Head(down) \in Snapshot /\ stepping' = FALSE
        /\ programExited' = FALSE /\ pending' = FALSE
        /\ deferred' = (IF pending THEN deferred + 1 ELSE deferred)
        /\ socket' = socket /\ state' = state
        /\ AutoStep(isAutoStepping, TRUE, timer)
    BY <1>7 DEF OnSnapshot, Render
  <2>2. deferred' \in Nat
    BY <1>1, <2>1 DEF Base
  <2>3. SocketInv' /\ SteppingAnswered' /\ PendingHasReset' /\ ExitOfThisSession'
    BY <1>1, <1>2, <1>5, <2>1 DEF Base, SocketInv, SteppingAnswered, PendingHasReset,
                                  ExitOfThisSession
  <2>4. Base'
    BY <1>1, <1>2, <1>3, <1>4, <2>1, <2>2, <2>3 DEF Base
  <2>5. Rerun(isAutoStepping, TRUE) /\ stepping' \in BOOLEAN
    BY <2>1 DEF Rerun
  <2>6. /\ isAutoStepping' \in BOOLEAN
        /\ timer' \in {"none", "step", "restart"}
        /\ AutoStepArmed'
    BY <1>1, <1>6, <2>1, <2>5, Effect
  <2> QED BY <2>4, <2>6, Halves
<1>8. CASE OnError(Head(down))
  <2>1. /\ Head(down) = "error" /\ stepping' = FALSE
        /\ socket' = socket /\ state' = state /\ programExited' = programExited
        /\ pending' = pending /\ deferred' = deferred /\ shown' = shown
        /\ AutoStep(isAutoStepping, FALSE, timer)
    BY <1>8 DEF OnError, Render
  <2>2. IsIn(Snapshot, down) => IsIn(Snapshot, down')
    BY <1>3, <2>1 DEF Snapshot
  <2>3. SocketInv' /\ SteppingAnswered' /\ PendingHasReset' /\ ExitOfThisSession'
    BY <1>1, <1>2, <1>5, <2>1, <2>2 DEF Base, SocketInv, SteppingAnswered, PendingHasReset,
                                  ExitOfThisSession, ResetUnderway
  <2>4. Base'
    BY <1>1, <1>2, <1>3, <1>4, <2>1, <2>3 DEF Base
  <2>5. /\ isAutoStepping' \in BOOLEAN
        /\ timer' \in {"none", "step", "restart"}
        /\ AutoStepArmed'
    BY <1>1, <1>6, <2>1, Effect
  <2> QED BY <2>4, <2>5, Halves
<1>9. CASE OnExit(Head(down))
  <2>1. /\ Head(down) = "exit" /\ programExited' = TRUE
        /\ socket' = socket /\ state' = state /\ stepping' = stepping
        /\ pending' = pending /\ deferred' = deferred /\ shown' = shown
        /\ AutoStep(isAutoStepping, FALSE, timer)
    BY <1>9 DEF OnExit, Render
  <2>2. /\ IsIn(Snapshot, down) => IsIn(Snapshot, down')
        /\ IsIn(Snapshot \cup {"error"}, down) => IsIn(Snapshot \cup {"error"}, down')
    BY <1>3, <2>1 DEF Snapshot
  <2>3. SocketInv' /\ SteppingAnswered' /\ PendingHasReset'
    BY <1>1, <1>2, <1>5, <2>1, <2>2 DEF Base, SocketInv, SteppingAnswered, PendingHasReset,
                                  ResetUnderway
  <2>4. ExitOfThisSession'
    BY <1>2, <1>3, <2>1 DEF ExitOfThisSession
  <2>5. Base'
    BY <1>1, <1>2, <1>3, <1>4, <2>1, <2>3, <2>4 DEF Base
  <2>6. stepping' \in BOOLEAN
    BY <1>1, <2>1 DEF TypeOK
  <2>7. /\ isAutoStepping' \in BOOLEAN
        /\ timer' \in {"none", "step", "restart"}
        /\ AutoStepArmed'
    BY <1>1, <1>6, <2>1, <2>6, Effect
  <2> QED BY <2>5, <2>7, Halves
<1> QED BY <1>1, <1>7, <1>8, <1>9

----------------------------------------------------------------------------
(* The endpoint                                                            *)

\* What a handler's answers are worth to the browser.
LEMMA Outcomes ==
  ASSUME program \in Program, NEW msg \in Request, NEW outcome \in Handled(msg)
  PROVE  /\ outcome.out \in Seq(Answer)
         /\ outcome.program \in Program
         /\ msg \in Clearing => IsIn(Snapshot \cup {"error"}, outcome.out)
         /\ msg # "run" => \A i \in 1..Len(outcome.out) : outcome.out[i] # "exit"
         /\ outcome.out = << "plain" >> => IsIn(Snapshot, outcome.out)
<1>1. ASSUME NEW a \in Answer
      PROVE  /\ << a >> \in Seq(Answer) /\ Len(<< a >>) = 1 /\ << a >>[1] = a
  OBVIOUS
<1>2. ASSUME NEW a \in Answer, NEW b \in Answer
      PROVE  /\ << a, b >> \in Seq(Answer) /\ Len(<< a, b >>) = 2 /\ << a, b >>[1] = a
  OBVIOUS
<1>3. /\ "plain" \in Answer /\ "finished" \in Answer /\ "exit" \in Answer /\ "error" \in Answer
      /\ "plain" \in Snapshot /\ "finished" \in Snapshot
  BY DEF Answer, Snapshot
<1>4. /\ << >> \in Seq(Answer) /\ Len(<< >>) = 0
      /\ \A i \in 1..0 : FALSE
  OBVIOUS
<1>5. outcome.out = << "plain" >> => IsIn(Snapshot, outcome.out)
  BY <1>1, <1>3 DEF IsIn
<1>6. ASSUME NEW a \in {"plain", "finished", "error"}, outcome.out = << a >>
      PROVE  /\ outcome.out \in Seq(Answer)
             /\ IsIn(Snapshot \cup {"error"}, outcome.out)
             /\ \A i \in 1..Len(outcome.out) : outcome.out[i] # "exit"
  BY <1>1, <1>3, <1>6 DEF IsIn
<1>7. ASSUME NEW a \in {"plain", "finished"}, outcome.out = << a, "exit" >>
      PROVE  /\ outcome.out \in Seq(Answer)
             /\ IsIn(Snapshot \cup {"error"}, outcome.out)
  BY <1>2, <1>3, <1>7 DEF IsIn
<1>8. ASSUME outcome.out = << >>
      PROVE  /\ outcome.out \in Seq(Answer)
             /\ \A i \in 1..Len(outcome.out) : outcome.out[i] # "exit"
  BY <1>4, <1>8
<1>9. CASE msg = "run"
  <2>1. outcome \in Ran
    BY <1>9 DEF Handled
  <2>2. /\ outcome.program \in Program
        /\ \/ \E a \in {"plain", "finished", "error"} : outcome.out = << a >>
           \/ \E a \in {"plain", "finished"} : outcome.out = << a, "exit" >>
    BY <2>1 DEF Ran, Outcome, Program
  <2> QED BY <1>5, <1>6, <1>7, <1>9, <2>2
<1>10. CASE msg = "exec"
  <2>1. outcome \in Executed
    BY <1>10 DEF Handled
  <2>2. /\ outcome.program \in Program
        /\ \E a \in {"plain", "finished", "error"} : outcome.out = << a >>
    BY <2>1 DEF Executed, Outcome, Program
  <2> QED BY <1>5, <1>6, <1>10, <2>2
<1>11. CASE msg = "continue"
  <2>1. outcome \in Continued
    BY <1>11 DEF Handled
  <2>2. /\ outcome.program \in Program
        /\ \E a \in {"plain", "finished", "error"} : outcome.out = << a >>
    BY <2>1 DEF Continued, Outcome, Program
  <2> QED BY <1>5, <1>6, <1>11, <2>2
<1>12. CASE msg = "reset"
  <2>1. outcome \in IsReset
    BY <1>12 DEF Handled
  <2>2. /\ outcome.program \in Program
        /\ \/ \E a \in {"plain", "finished", "error"} : outcome.out = << a >>
           \/ outcome.out = << >>
    BY <2>1 DEF IsReset, Outcome, Program
  <2> QED BY <1>5, <1>6, <1>8, <1>12, <2>2 DEF Clearing
<1>13. CASE msg = "set"
  <2>1. outcome \in WasSet
    BY <1>13 DEF Handled
  <2>2. /\ outcome.program \in Program
        /\ \E a \in {"plain", "finished", "error"} : outcome.out = << a >>
    BY <2>1 DEF WasSet, Outcome, Program
  <2> QED BY <1>5, <1>6, <1>13, <2>2
<1>14. CASE msg = "ask"
  <2>1. outcome \in Asked
    BY <1>14 DEF Handled
  <2>2. /\ outcome.program \in Program
        /\ \/ \E a \in {"plain", "finished", "error"} : outcome.out = << a >>
           \/ outcome.out = << >>
    BY <2>1 DEF Asked, Outcome, Program
  <2> QED BY <1>5, <1>6, <1>8, <1>14, <2>2 DEF Clearing
<1> QED BY <1>9, <1>10, <1>11, <1>12, <1>13, <1>14 DEF Request

\* A message served: what it was awaited for is answered, what is behind it
\* stays, and a reset that gave a snapshot has put it behind every program_exit.
LEMMA Served ==
  ASSUME Base, up # << >>, up' = Tail(up), NEW out \in Seq(Answer), down' = down \o out,
         program' \in Program, reborn' \in BOOLEAN, resetFailed' \in BOOLEAN,
         Head(up) \in Clearing => IsIn(Snapshot \cup {"error"}, out),
         Head(up) # "run" => \A i \in 1..Len(out) : out[i] # "exit",
         Head(up) # "reset" => reborn' = reborn /\ (resetFailed => resetFailed'),
         Head(up) = "reset" => IsIn(Snapshot, out) \/ resetFailed',
         UNCHANGED hook
  PROVE  Base'
<1>1. /\ socket' = socket /\ state' = state /\ stepping' = stepping
      /\ programExited' = programExited /\ pending' = pending /\ deferred' = deferred
      /\ shown' = shown
  BY DEF hook
<1>2. up \in Seq(Request) /\ down \in Seq(Answer)
  BY DEF Base
<1>3. /\ up' \in Seq(Request) /\ Head(up) \in Request /\ Head(up) = up[1]
      /\ Len(up) \in Nat \ {0} /\ Len(up') = Len(up) - 1
      /\ \A i \in 1..Len(up) - 1 : up'[i] = up[i + 1]
      /\ IsIn({"reset"}, up) /\ Head(up) \notin {"reset"} => IsIn({"reset"}, up')
  BY <1>2, TailIn
<1>4. IsIn(Clearing, up) /\ Head(up) \notin Clearing => IsIn(Clearing, up')
  BY <1>2, TailIn
<1>5. /\ down' \in Seq(Answer)
      /\ Len(down) \in Nat /\ Len(out) \in Nat /\ Len(down') = Len(down) + Len(out)
      /\ \A i \in 1..Len(down) : down'[i] = down[i]
      /\ \A i \in 1..Len(out) : down'[Len(down) + i] = out[i]
      /\ IsIn(Snapshot, down) => IsIn(Snapshot, down')
      /\ IsIn(Snapshot, out) => IsIn(Snapshot, down')
  BY <1>2, ConcatIn
<1>6. /\ IsIn(Snapshot \cup {"error"}, down) => IsIn(Snapshot \cup {"error"}, down')
      /\ IsIn(Snapshot \cup {"error"}, out) => IsIn(Snapshot \cup {"error"}, down')
  BY <1>2, ConcatIn
<1>7. socket = "open"
  BY DEF Base, SocketInv
<1>8. SocketInv'
  BY <1>1, <1>7 DEF Base, SocketInv
<1>9. SteppingAnswered'
  BY <1>1, <1>4, <1>6 DEF Base, SteppingAnswered, Clearing
<1>10. ResetUnderway \/ resetFailed => ResetUnderway' \/ resetFailed'
  BY <1>3, <1>5 DEF ResetUnderway
<1>11. PendingHasReset'
  BY <1>1, <1>10 DEF Base, PendingHasReset
<1>12. ExitOfThisSession'
  <2>1. CASE Head(up) = "reset"
    BY <1>5, <2>1 DEF ExitOfThisSession, ResetUnderway
  <2>2. CASE Head(up) # "reset"
    BY <1>1, <1>10, <2>2 DEF Base, ExitOfThisSession
  <2> QED BY <2>1, <2>2
<1>13. RunFirst'
  <2>1. ASSUME NEW i \in 1..Len(up'), up'[i] = "run"  PROVE FALSE
    <3>1. i + 1 \in 1..Len(up) /\ up[i + 1] = "run"
      BY <1>3, <2>1
    <3>2. i + 1 = 1
      BY <3>1 DEF Base, RunFirst
    <3> QED BY <1>3, <2>1, <3>2
  <2> QED BY <2>1 DEF RunFirst
<1>14. ExitFollowed'
  <2>1. ASSUME NEW i \in 1..Len(down'), down'[i] = "exit", reborn'
        PROVE  \/ IsIn({"reset"}, up')
               \/ \E j \in i+1..Len(down') : down'[j] \in Snapshot
               \/ resetFailed'
    <3>1. i \in 1..Len(down) /\ down[i] = "exit"
      <4>1. ASSUME i \notin 1..Len(down)  PROVE FALSE
        <5>1. i - Len(down) \in 1..Len(out) /\ Len(down) + (i - Len(down)) = i
          BY <1>5, <2>1, <4>1
        <5>2. out[i - Len(down)] = "exit"
          BY <1>5, <2>1, <5>1
        <5>3. Head(up) = "run"
          BY <5>1, <5>2
        <5>4. ~reborn
          BY <1>3, <5>3 DEF Base, RunFirst
        <5> QED BY <2>1, <5>3, <5>4
      <4> QED BY <1>5, <2>1, <4>1
    <3>2. CASE Head(up) = "reset"
      <4>1. CASE resetFailed'
        BY <4>1
      <4>2. CASE IsIn(Snapshot, out)
        <5>1. PICK k \in 1..Len(out) : out[k] \in Snapshot
          BY <4>2 DEF IsIn
        <5>2. Len(down) + k \in i+1..Len(down') /\ down'[Len(down) + k] \in Snapshot
          BY <1>5, <3>1, <5>1
        <5> QED BY <5>2
      <4> QED BY <3>2, <4>1, <4>2
    <3>3. CASE Head(up) # "reset"
      <4>1. \/ IsIn({"reset"}, up)
            \/ \E j \in i+1..Len(down) : down[j] \in Snapshot
            \/ resetFailed
        BY <2>1, <3>1, <3>3 DEF Base, ExitFollowed
      <4>2. ASSUME NEW j \in i+1..Len(down), down[j] \in Snapshot
            PROVE  j \in i+1..Len(down') /\ down'[j] \in Snapshot
        BY <1>5, <3>1, <4>2
      <4> QED BY <1>3, <3>3, <4>1, <4>2
    <3> QED BY <3>2, <3>3
  <2> QED BY <2>1 DEF ExitFollowed
<1> QED BY <1>1, <1>3, <1>5, <1>8, <1>9, <1>11, <1>12, <1>13, <1>14 DEF Base

LEMMA ServeKeeps == ASSUME IInv, Serve PROVE IInv'
<1>1. Base /\ up # << >> /\ up' = Tail(up) /\ UNCHANGED hook /\ UNCHANGED autoStep
  BY DEF IInv, Serve
<1>2. PICK outcome \in Handled(Head(up)) :
        /\ down' = down \o outcome.out
        /\ program' = outcome.program
        /\ resetFailed' = IF Head(up) = "reset" THEN outcome.out # << "plain" >> ELSE resetFailed
  BY DEF Serve
<1>3. Head(up) \in Request /\ program \in Program /\ reborn \in BOOLEAN /\ resetFailed \in BOOLEAN
  BY <1>1 DEF Base
<1>4. /\ outcome.out \in Seq(Answer)
      /\ outcome.program \in Program
      /\ Head(up) \in Clearing => IsIn(Snapshot \cup {"error"}, outcome.out)
      /\ Head(up) # "run" => \A i \in 1..Len(outcome.out) : outcome.out[i] # "exit"
      /\ outcome.out = << "plain" >> => IsIn(Snapshot, outcome.out)
  BY <1>3, Outcomes
<1>5. /\ resetFailed' \in BOOLEAN
      /\ Head(up) # "reset" => (resetFailed => resetFailed')
      /\ Head(up) = "reset" => IsIn(Snapshot, outcome.out) \/ resetFailed'
  BY <1>2, <1>3, <1>4
<1>6. /\ reborn' \in BOOLEAN
      /\ Head(up) # "reset" => reborn' = reborn
  <2>1. reborn' = (IF Head(up) = "reset" THEN reborn \/ program' = "alive" ELSE reborn)
    BY DEF Serve
  <2> QED BY <1>3, <2>1
<1>7. Base'
  BY <1>1, <1>2, <1>4, <1>5, <1>6, Served
<1>8. UNCHANGED <<isAutoStepping, timer, state, stepping, pending>>
  BY <1>1 DEF hook, autoStep
<1> QED BY <1>7, <1>8, EffectKept, Halves

LEMMA RefuseKeeps == ASSUME IInv, Refuse PROVE IInv'
<1> DEFINE out == << "error" >>
<1>1. /\ Base /\ up # << >> /\ up' = Tail(up) /\ UNCHANGED hook /\ UNCHANGED autoStep
      /\ down' = Append(down, "error") /\ program' = program /\ reborn' = reborn
      /\ resetFailed' = (resetFailed \/ Head(up) = "reset")
  BY DEF IInv, Refuse
<1>2. /\ out \in Seq(Answer) /\ Len(out) = 1 /\ out[1] = "error"
  BY DEF Answer
<1>3. down' = down \o out
  BY <1>1 DEF Base
<1>4. /\ IsIn(Snapshot \cup {"error"}, out)
      /\ \A i \in 1..Len(out) : out[i] # "exit"
  BY <1>2 DEF IsIn
<1>5. /\ program' \in Program /\ reborn' \in BOOLEAN /\ resetFailed' \in BOOLEAN
      /\ resetFailed => resetFailed'
      /\ Head(up) = "reset" => resetFailed'
  BY <1>1 DEF Base
<1> HIDE DEF out
<1>6. Base'
  BY <1>1, <1>2, <1>3, <1>4, <1>5, Served
<1>7. UNCHANGED <<isAutoStepping, timer, state, stepping, pending>>
  BY <1>1 DEF hook, autoStep
<1> QED BY <1>6, <1>7, EffectKept, Halves

LEMMA EvictKeeps == ASSUME IInv, Evict PROVE IInv'
<1>1. /\ UNCHANGED <<hook, autoStep, up, down, reborn, resetFailed>> /\ program' = "gone"
  BY DEF Evict
<1>2. Base'
  BY <1>1 DEF IInv, Base, SocketInv, SteppingAnswered, PendingHasReset, RunFirst,
              ExitFollowed, ExitOfThisSession, ResetUnderway, hook, Program
<1> QED BY <1>1, <1>2, EffectKept, Halves DEF hook, autoStep

LEMMA StutterKeeps == ASSUME IInv, UNCHANGED vars PROVE IInv'
<1>1. UNCHANGED <<hook, autoStep, up, down, program, reborn, resetFailed>>
  BY DEF vars, endpoint
<1>2. Base'
  BY <1>1 DEF IInv, Base, SocketInv, SteppingAnswered, PendingHasReset, RunFirst,
              ExitFollowed, ExitOfThisSession, ResetUnderway, hook
<1> QED BY <1>1, <1>2, EffectKept, Halves DEF hook, autoStep

----------------------------------------------------------------------------
(* Theorems                                                                *)

\* The browser and its endpoint keep the inductive invariant, for channels of
\* every length (useGdbSession.ts, App.tsx:329-338, main.py:396-440).
THEOREM Inductive == Spec => []IInv
<1>1. Init => IInv
  <2>1. SUFFICES ASSUME Init  PROVE IInv
    OBVIOUS
  <2>2. up = << >> /\ down = << >> /\ Len(<< >>) = 0
    BY <2>1 DEF Init
  <2>3. TypeOK
    <3>1. up \in Seq(Request) /\ down \in Seq(Answer)
      BY <2>2
    <3>2. program \in Program /\ shown \in Snapshot \cup {"none"} /\ deferred \in Nat
      BY <2>1 DEF Init, Program
    <3> QED BY <2>1, <3>1, <3>2 DEF Init, TypeOK
  <2>4. SocketInv /\ SteppingAnswered /\ PendingHasReset /\ ExitOfThisSession
    BY <2>1 DEF Init, SocketInv, SteppingAnswered, PendingHasReset, ExitOfThisSession
  <2>5. RunFirst /\ ExitFollowed
    BY <2>2 DEF RunFirst, ExitFollowed
  <2>6. AutoStepArmed
    BY <2>1 DEF Init, AutoStepArmed, Due
  <2> QED BY <2>3, <2>4, <2>5, <2>6 DEF IInv, Base, TypeOK
<1>2. ASSUME IInv, [Next]_vars  PROVE IInv'
  BY <1>2, UserKeeps, AutoStepFiresKeeps, DeferredFiresKeeps, OpenedKeeps, ErroredKeeps,
     ClosedKeeps, DeliverKeeps, ServeKeeps, RefuseKeeps, EvictKeeps, StutterKeeps DEF Next
<1> QED BY <1>1, <1>2, PTL DEF Spec

\* Every variable keeps its type, the channels and the deferred steps included.
THEOREM TypeCorrect == Spec => []TypeOK
<1>1. IInv => TypeOK
  BY DEF IInv
<1> QED BY <1>1, Inductive, PTL

\* On an open socket, disabled buttons always await an answer that enables them
\* (useGdbSession.ts:110-132).
THEOREM ButtonsAwaitAnswer == Spec => []SteppingAnswered
<1>1. IInv => SteppingAnswered
  BY DEF IInv, Base
<1> QED BY <1>1, Inductive, PTL

\* The deferred step waits for the snapshot of the reset it asked for, or the
\* reset failed, or the connection is lost (useGdbSession.ts:118-122, 238-246).
THEOREM DeferredStepHasReset == Spec => []PendingHasReset
<1>1. IInv => PendingHasReset
  BY DEF IInv, Base
<1> QED BY <1>1, Inductive, PTL

\* A program_exit of the replaced run does not stay on the new program
\* (useGdbSession.ts:117, 168-171).
THEOREM LateExitCleared == Spec => []ExitOfThisSession
<1>1. IInv => ExitOfThisSession
  BY DEF IInv, Base
<1> QED BY <1>1, Inductive, PTL

\* The auto-step's timer is set exactly when a step of it is due
\* (App.tsx:331-338).
THEOREM AutoStepTimer == Spec => []AutoStepArmed
<1>1. IInv => AutoStepArmed
  BY DEF IInv
<1> QED BY <1>1, Inductive, PTL
=============================================================================
