# Verification of ASMBLE

ASMBLE is a debugger for teaching x86-64 assembly. A React workbench in the browser talks over a
WebSocket to a FastAPI server, which assembles the program and drives it with GDB. This directory
holds TLA+ models of the parts whose behaviour is hard to test, TLC configurations that check them
on small instances, and TLAPS proofs of the most important results for every instance.
`PROJECT.json` maps every definition to the lines it models and lists runs, mutants, hazards and
theorems. Paths below are relative to the repository.

## 1. The system

    browser                          server (one event loop + threads)            processes
    App.tsx ── useGdbSession ══WS══ websocket_endpoint ── SessionManager ── Session ── GdbBridge ══MI══ gdb ── inferior
       │                              rate limiter          (idle cleanup)    (workdir)
       └── fetch /api/run, /api/trace ── vite-plugin-asm-runner (development server, without a session)

| component | code | state | operations |
|---|---|---|---|
| Session manager | `backend/app/session_manager.py` | ordered table of sessions; per session a directory, a GDB, `last_activity` | `create_session`, `destroy_session`, `cleanup_stale`, `cleanup_all`, `get` |
| WebSocket endpoint | `backend/app/main.py` | per connection: `session_id`, the coroutine's position | connect, assemble/run, reset, commands, disconnect; lifespan and cleanup loop |
| Rate limiter | `backend/app/main.py:391-415` | tokens, time of the last refill | one refill-and-charge per message |
| GDB bridge | `backend/app/gdb_bridge.py` | `_exited`, `_cur_ip`, `_prev_regs`, caches, breakpoint table, output buffers | start, four steps, reverse step, continue, read_state, breakpoints, watchpoints, set_register, console, cleanup |
| Sandbox | `backend/app/sandbox.py` | none | command line and limits of GDB |
| Debugging client | `src/hooks/useGdbSession.ts` | socket, snapshot, history, `stepping`, `programExited`, pending step | send, handle message, connect, step…, reset, disconnect |
| Workbench | `src/App.tsx` | auto-step, breakpoints, watchpoints, trace and position in it, recent programs, what is open and collapsed | toggles, run, play, run to breakpoint, keyboard |
| Panels, tour, palette | `src/components/panels/`, `GuidedTour.tsx`, `CommandPalette.tsx` | answers kept, step of the tour, query and index | ask, evaluate, clear, move, pick |
| Resizable panes | `src/hooks/useColResize.ts`, `useTermResize.ts` | three widths, a height, what is dragged | press, move, release |
| Editor | `src/components/editor/` | undo/redo, debounce, folds, search | edit, undo, redo, fold, replace |
| Offline trace server | `vite-plugin-asm-runner.ts` | temporary directories, requests under way | build, run, trace, parse |
| Cyclic patterns, ROP | `backend/app/exploit_tools.py` | none | patterns, lookup, filter |
| Annotations, flag hints, registers data, tokenizer, security inspection, reference data | see `PROJECT.json` | none or presentation | pure functions of their input |

How they interact. The browser sends JSON messages; the endpoint handles them strictly one after the
other and answers with snapshots, errors and events. Handlers run blocking work (assembling, GDB) on
threads, so two connections interleave at every `await`, and the table of sessions is shared by all
of them and by the cleanup loop. One session's bridge is driven by one thread at a time. GDB is an
independent process: it answers on a pipe, stops when the program stops, and reads no command while
the program runs.

What is hard, and what makes each part correct:

* **Session manager and endpoint** — check-then-act across awaits, eviction of somebody else's
  session, idle collection under a live connection, a client that vanishes in the middle of an
  open, failures half way through an open. Correct: bounded table, no dead entry, no leaked process
  or directory beyond the known paths, no session shared by two connections, no session lost without
  a reason, every orphan eventually collected.
* **Rate limiter** — boundaries of the bucket. Correct: the bound holds in every window of time, and no message is refused
  that burst and refill still pay for.
* **GDB bridge** — a synchronous API over an asynchronous process: deadlines, late answers, exits
  noticed by the wrong reader, caches. Correct: the displayed line is the cause of the displayed
  registers, the end of the program is known and never invented, the stack on display belongs to the
  registers on display, every method returns.
* **Client and workbench** — answers of earlier commands, dropped commands, deferred steps,
  auto-step. Correct: `stepping` is eventually cleared, auto-step ends, one step after a reset.
* **Editor** — a debounce between a keystroke and its entry in the undo stack, folds remembered by
  line number under lines that move, arrows and a breadcrumb computed from text that is being edited.
  Correct: undo and redo are those of a linear history when the debounce is given its time, they are
  bounded and lose nothing otherwise; what is folded can be unfolded; arrows that overlap run apart and nest.
* **Offline mode** — traces that overlap, are answered in any order and replace one another under a
  walk or a play; tools that fail or are killed; a process that dies. Correct: the busy flag is
  cleared, the step is one of the trace's, the directories go.
* **Panels and panes** — answers and breakpoints that outlive their session, a tour whose target is
  collapsed under it, drags that overlap. Correct: the gutter and GDB agree, no answer is of another
  connection, the tour points at something, the sizes fit.

`PROJECT.json` lists the hazards one by one with the line where each bites and the properties that
cover it; where there is none, it says why.

## 2. Modules

| module | what it is |
|---|---|
| `SessionPool` | abstract specification: sessions that are built, published and destroyed exactly once, within a capacity |
| `SessionServer` | manager + endpoints of all connections; implements `SessionPool` |
| `MCSessionServer` | model values and symmetry for TLC |
| `RateLimiter` | token bucket |
| `ServerProofs` | the server's inductive invariant, its safety theorems and the refinement; the token bucket's theorems |
| `GdbBridge`, `GdbBridgeProofs` | one bridge against GDB, and its proofs |
| `Client`, `ClientProofs` | the browser's hook and auto-step against the endpoint behind two channels, and its proofs |
| `LivePanels`, `LivePanelsProofs` | gutter and panels of a live session against the endpoint, the bridge's table and GDB's breakpoints |
| `EditorUndo` | the editor's two stacks and their debounce, beside an ideal linear history |
| `EditorView` | folds, labels, jump arrows, replacing, breadcrumb |
| `EditorProofs` | the theorems of both |
| `TraceServer` | the development server's traces, their directories and failures |
| `Offline`, `OfflineProofs` | the workbench without a session, composed with `TraceServer`, and its proofs |
| `Layout` | sizes and drags of columns, terminal and split |
| `Window`, `WindowProofs` | panels, tour and palette, composed with `Layout` |
| `Recurrence` | lemmas on induction over an interval and on recursive functions, for the proofs |
| `MC…` | model values, small inputs and symmetry of the module of that name |

### SessionServer

An action is the code of a coroutine between two points where it can be suspended. That is exact for
asyncio, which runs one coroutine at a time: `destroy_session` never suspends, so eviction plus the
allocation of the new directory is one action (`BeginCreate`), while the check of the capacity and
the insertion are two (`BeginCreate`, `DebugStarted`). An endpoint's program counter names the await
it is in. A connection's disconnection, a failure of the assembler, an exception of any step of an
open, an answer that cannot be delivered, the cleanup loop and the shutdown are actions of their own.
Messages that change nothing (rate-limited or unknown ones, errors, a reset without a session) are
stutters. Identifiers are fresh uuids in the code; the model reuses an identifier once nobody refers
to it, which keeps the state finite. `GoesIdle` is the passing of the configurable idle timeout.
`blocked` is the one thing that stops everything: `_h_cyclic` and `_h_cyclic_find` compute their
pattern on the event loop (`main.py:300`, `315`), and for an `n` of 0 that computation never ends
(`CyclicLoops`). From then on only what is outside the loop moves (`Outside`: clients, the clock);
`LoopStep` is all the rest.

### RateLimiter

Time is counted in ticks and tokens in fractions 1/`Second`, so that the code's floating-point refill
is an integer; `now`, `tokens`, `last` are the code's variables. `from` and `taken` are history: they
watch a window of time that may begin at any moment (`Watch`).

### GdbBridge

The thread that runs a bridge method is a process with a program counter that names the answer it
waits for; GDB with the inferior is an external process that consumes `input` and produces `output`.
A method is the sequence of its GDB commands: `Execute`/`StepBack` (→ `RecordAnswered` for the first
reverse step) → `ExecAnswered` (or `Deadline`) → `RegsAnswered` → `MemAnswered` when the stack must be
read → `FrameAnswered`. Answers are parsed as the code does: `_wait_for_stop` takes the first `*stopped`
or `^error` of a response, the register parser the last values, the memory and frame parsers the first
that fit, whichever command they answer. `Deadline` is the 10 s of `_wait_for_stop`, `TimedOut`
pygdbmi's exception after 5 s of silence, which `step_back` swallows for its `record full`.

GDB may refuse whatever it is asked. An execution command can fail on a live program as on a finished
one: a finish in the outermost frame, a reverse step that is not recorded (`ServeExec`). The bridge
sets `record_enabled` whatever GDB answers to `record full`. Memory may be unreadable: `bytes` is
`NoMemory` when nothing is mapped at rsp. A read there fails, or returns what is readable further up,
which the bridge labels as if it began at rsp, since it does not look at the answer's offset
(`Memory`, and `base` and `from` of the cache). An rsp of 0 is a value like any other, and also what
the bridge takes a missing register for; it reads no stack there.

Values are abstracted to the line of rip, rsp, and a version of the stack's bytes. `Init` is where
`start()` leaves the bridge: the program is stopped at the entry or by something else, has ended, or
still runs because the wait for its first stop was given up. The queries that follow the same pattern
without touching this state (backtrace, disassembly, sections) are left out; the three forward steps
are one action, since they differ in where the program stops and `InferiorStops` may stop it anywhere.
`_read_pty` reads what the program printed, in a loop without an overall deadline (`gdb_bridge.py:446-453`):
it ends when the terminal has been silent for 50 ms, and is reached only when the end was seen or GDB
has answered, when the program prints no more; only a process it left running could keep it.
`disturbed` is history: it remembers that a wait was given up or that the console moved the program,
and the properties that hold only without that say so.

### Client

One action is one event of the browser (a key, a button, a timer, an event of the socket) together
with the rendering and the effects it causes, taken as completed before the next event (React may
batch two answers that arrive together), or one message served by the endpoint. The WebSocket is two FIFO channels, `up` and `down`; opening a new
connection empties both, since `connect` detaches the old socket's handlers. Messages are kept as far
as the client tells them apart: "exec" is any of the three steps, "set" is `set_register`, "ask" every
message answered by data or by an error. Answers that no state of the model depends on are left out.
`program` is what the endpoint's `session_id` leads to; `Evict` is what the other connections of
`SessionServer` may do to it. `timer` records more than that the auto-step's timer is set: it records
what the `gdb.step` captured by that rendering will do, because a callback that was made before an
answer arrived acts on the state of its own rendering. `AutoStep` is the effect of `App.tsx`, with
its list of dependencies, its cleanup and its body. `reborn` and `resetFailed` are history, for the
properties about resets. Of the history of snapshots the model keeps the last one; moving the view in
it sends nothing. `disconnect()` of the hook is left out: no component calls it.

### LivePanels

The same hook and endpoint seen from what `Client` leaves out: the gutter's breakpoints, which
`toggleBreakpoint` changes at once and sends, and the answers that the hook (`results`) and the panels
(`kept`) hold. Every answer carries the number of the connection that asked, which the code does not
know. `table` is the bridge's `_breakpoints`, `inserted` how many breakpoints GDB has at a line; an
insertion or deletion may succeed, be refused, or have its answer given up, and a message may be
refused by the rate limiter, come after the session is gone, or fail with it. `doubt` is history: the
lines for which something failed, and those marked before the session started, of which the session
was never told. `BreakpointsAgree` is claimed of the others: in a session, of the lines toggled since
its reset or its connection. What the panels keep on purpose across
connections (the history of evaluations and of the console, the sections) is in `kept`, and no
property says that it is of the present connection: it is not, a section read before Build & Run
stays on display, because `MemoryPanel` asks only for what is missing.

### EditorUndo, EditorView

`EditorUndo` has one action per event that changes the text: a keystroke, the debounce's timer, Ctrl+Z,
Ctrl+Y, what enters the text before it at once (completion, Tab, the two replacements), and what the
editor's stacks never see (a snippet, an import, a program of the history). Texts are only compared.
`trail` and `pos` are an ideal linear history that moves with the keystrokes, undos and redos;
`UndoIsExact` compares it with the text as long as every change was typed and followed by its 400 ms,
in a text that is the editor's own from the start: restoring the last program when the workbench
opens (`App.tsx:188-191`) is a change the stacks do not see.
Without these pauses an undo goes back to some earlier text, not the last: that is what a debounce is for, and
the model makes no claim of it but `RedoKept` and `StacksBounded`. `EditorView` reduces a line to what the regular
expressions tell apart: a label and its indentation, then a section directive, a jump and its target, data
and its name, or a word that is no instruction. `section` itself is no label, so that a line is a directive or has
a label, never both. The arrows and the linter find labels by different
expressions (the linter also before `db`, and looks at jumps behind a label); `JumpsShown` compares them,
and says of the arrows what the levels achieve: two that overlap are apart, and an enclosed one is
inside. Two that interlace cross all the same.
`Level` is the level of each arrow in the order of the sort (`Before`), `Breadcrumb` the walk down the lines; both
are recursive functions, which the proofs can expand.
Identifiers are whole: a search for a part of one, which the code allows, is an edit of the lines.
`folded` holds line numbers, as the code does, and is not adjusted when lines move. `HandleReplaceOne`
loses a single empty line above the match, as `AsmEditor.tsx:274` does.

### TraceServer, Offline

A request to `/api/trace` goes through the phases between two awaits of its handler; `run()` never
rejects, so a tool that fails or is killed is an exit code, while a file operation that fails is a
rejection that nobody handles and ends the process (`FileFails`), with all the requests it was
serving. GDB's recording is a sequence of blocks, which `ParseGdbTrace` turns into steps. `Offline`
adds the workbench: `HandleRun` does not look at `isTracing` (only the button does; F5, the palette and
the action menu do not), so traces overlap; the interval of a play keeps the trace and the
breakpoints it was started with. `overtaken` is history: a trace came during the play of an older one.

### Layout, Window

`Layout` is the arithmetic of the two resize hooks and of the split, in whole per cents and pixels
(the code's numbers are real; the clamps compare and subtract, and divide only by the size of the
body). A release outside the window is never seen, so a press may follow a press. `Window` adds the
panels, the palette and the tour. The tour's effect depends on a callback that the workbench makes
anew on each rendering, so the current step is prepared again after every change of the workbench:
`Settled` is what a change comes to after that. Keys of an open palette also reach the tour, which
listens to the window: `Enter` and `Escape` do both things.

## 3. Runs

The longest run, `bridge`, takes two to three minutes, `server_live`, `window` and `panels` less than
one, the others seconds.

| run | instance | what it shows |
|---|---|---|
| `server_safety` | 2 connections, max 2 sessions | types, capacity overshoot bound, private sessions, justified losses, refinement of `SessionPool` |
| `server_live` | 2 connections | orphans are collected and an abandoned server drains, unless a handler keeps the event loop |
| `rate_limiter` | burst 3, 2 per 5 ticks, horizon 14 | window bound, refusals only when burst and refill are spent |
| `bridge` | a line and none, rsp 0 and another, an address above, 2 unread commands | line = cause, exit known and not invented, stack at rsp or none, nothing left to read, whatever GDB refuses; every method returns although the program may run for ever |
| `client` | 2 messages, 2 answers under way, 1 deferred step | `stepping` is answered, a deferred step has its reset, a late exit is cleared, auto-step armed exactly when due; the buttons come back |
| `panels` | 2 lines, 2 connections, 2 messages and 1 answer under way | the gutter and GDB agree; no answer outlives its connection in the hook |
| `editor_undo` | 3 texts, `UNDO_MAX` 3 | undo and redo follow a linear history, are bounded, and what is undone can be redone |
| `editor_view` | up to 4 lines of 11 kinds, 2 labels, one of them local, a register | what is hidden can be shown; arrows and linter agree on every jump, and arrows nest; the breadcrumb encloses |
| `offline` | 2 requests, recordings of up to 3 blocks, history of 2 | the step is one of the trace's; tracing ends; directories go |
| `window` | 2 places for the mouse, 5 steps of the tour, 1 section | the sizes fit; the tour points at something |
| `server_max_sessions` | as `server_safety` | the statement about the number of sessions that the server does not keep |
| `client_auto_step` | as `client` | the statement about the end of auto-step that the client does not keep |

Why the bounds are enough. The races of the server need two connections and one session more than the
table holds; the theorems cover any number of connections. The bucket needs to
be drained, refused, partly refilled and filled to the ceiling within the horizon, which 14 ticks
allow twice. For the bridge, a line and the lack of one (line 0), and an rsp of 0 and another, tell
"changed" from "unchanged", and an address above rsp lets a read begin higher; two unread commands let a
method be retried while GDB still owes the answers of one that was given up. How many lines and addresses
there are makes no difference to the proofs, and one version of the bytes is enough where no property
compares them. For the
client, two messages and two answers under way are enough for an exit of the old program to cross a
reset and for a command to be sent before the answer of the last; one step in a `setTimeout(0)` is
what the code creates unless a timer is starved for a whole round trip. The theorems hold for
channels of any length. For `panels`, two messages let a line be toggled back before the first toggle is
served, and a message about the other line or a reset come in between; `LivePanelsProofs` covers any
number. For the editor, three texts let a text come back with another in between, and three entries
make the stack overflow; four lines hold a section, a label and a jump over another. For `offline`, two
requests are enough to be answered in the wrong order, and recordings of one, two and no usable
steps make the trace on display grow and shrink under a walk. For `window`, the corners are where the
clamps act; `WindowProofs` covers every position.

Violation runs. Each checks one statement of the documentation against the code:
`MaxSessionsRespected` (docs/ARCHITECTURE.md:276) and `AutoStepEnds` (docs/USER_GUIDE.md:104).
`findings` in `PROJECT.json` explains what each counterexample does.

Other disagreements were met while modelling. They are in the models, and no run is devoted to them:
the session of a client that vanishes while it is opened outlives its connection until the cleanup
loop (docs/ARCHITECTURE.md:368 says the session is cleaned up at the disconnection; `OrphansAreCollected`
checks what remains true); a run that stops in code without source lines is announced as ended
(docs/TECHNICAL.md:180); the stack's entries keep old bytes when a store goes through an unchanged rsp,
keep another rsp's when their reading is given up half way, and are labelled from an rsp that cannot be
read (:296); two jump arrows that interlace cross (:337, `AsmEditor.tsx:492`); idle sessions stay when a
handler keeps the event loop (docs/BACKLOG.md:458); `programExited` is cleared by the snapshot of the
very continue that ended the program (docs/TECHNICAL.md:223).

Fairness. `SessionServer`: fairness is claimed only for what waits for nobody, and only while no handler
keeps the event loop. A handler whose client has gone goes on: the assemblers run under a timeout, the
bridge's waits are bounded, and a send to a closed socket raises. (A client that is there may leave
its socket full and the send waiting, and a write to a program's full terminal waits as long as that
program's session exists, so a command is only fair once its session is gone.) A closed socket is
noticed by the receive that waits for it, the clock passes the timeout of a session nobody uses, and
the cleanup loop wakes every 60 s. It is assumed besides that the pool of threads has one free.
Nothing is assumed of clients: one of them may ask for the pattern that never ends, which is why
`OrphansAreCollected` and `AbandonedServerDrains` say "or `blocked`".
`GdbBridge`: GDB serves commands
while it may, and a worker thread does not stop for ever (each of its waits has a timeout). The
inferior owes nothing: it may run for ever, which is the case `MethodsReturn` is about. `Client`: the
browser runs its timers and delivers what has arrived, and the endpoint serves the messages it has
received, since its handlers wait on GDB for a bounded time. Nothing is assumed of the user, who may
press keys for ever, nor of the connection, the rate limiter or eviction. `Offline`: the handlers of the
development server go on (each tool ends or is killed at its timeout), an answer that was sent arrives
or is lost at once, and a directory's removal settles. A traced program that blocks SIGTERM survives
its timeout (`vite-plugin-asm-runner.ts:10`) and is left aside. The user owes nothing. `EditorUndo`,
`EditorView`, `LivePanels` and `Window` have no liveness to state: nothing in them happens by itself.

## 4. Proofs

Every theorem holds for all values of the constants, from the assumptions named in the modules.

* `ServerProofs`, the session server: `Inductive` (`IInv`) ties each program counter to what the endpoint holds
  there, the order of the table to its contents, the capacity to the number of endpoints past their
  check, and each directory or GDB to its owner. From it follow `TypeCorrect`, `BoundedOvershoot`,
  `NoDeadSessions`, `ResourcesAccounted`, `SessionsArePrivate`, the action property `LossesJustified`, and
  `Refinement` of the abstract pool. The overshoot bound is not inductive alone: a session that is
  about to be inserted must be counted with the endpoint that carries it. `OrphansStay` is the
  safety that `OrphansAreCollected` rests on: no step gives an orphan an owner again, or touches it, so that
  the passing of time and the cleanup loop, which fairness promises as long as the event loop turns, are
  all that is left.
* `ServerProofs`, the rate limiter: `WindowsBounded` follows from a potential, `Budget`: messages dispatched in the
  window plus the tokens left never exceed a full bucket and the refill since the window began.
  `RefusalsEarned` is the other half: an exact account since the bucket was last full shows that refusals lose no refill. The bounds of the clock (`Horizon`)
  play no part in the proofs. `LimiterTypeCorrect` is the bucket's type and bounds.
* `GdbBridgeProofs`: `TypeCorrect` needs that what the parsers find in an arbitrary response is of the
  right type, hence the lemmas about first and last positions. `ExitNotInvented` needs only
  `EndIsFinal` and holds with any number of late answers. The rest holds for undisturbed histories and
  needs to know the whole conversation: `InTurn` says which command is under way or which answer is
  due at each program counter, `Informed` what the bridge remembers there; together they are inductive
  (`Inductive`) and give `HighlightsAreCauses`, `ExitKnown`, `StackIsAtRsp`, `InStepBetweenMethods`. A
  command that GDB refuses on a live program leaves it, and what the bridge knows of it, where it was:
  `Asked` is that state of the conversation, and `Settled` extends to it what holds between methods.
  `StackOf` is what the cache may hold for an rsp: entries labelled from it and read there or above, or
  nothing, if rsp is 0 or nothing is readable.
* `ClientProofs`: the safety properties of the run say what is on its way in one of two queues, so the
  lemmas first settle how membership in a queue changes when a message is appended or taken. The
  invariant adds to the properties what the socket's state implies (`SocketInv`: nothing is under way
  without a connection, and no program before the first message is served), that `run` is the first
  message of its connection (`RunFirst`), and that an exit still under way for a program that a reset
  has replaced is followed by that reset's snapshot (`ExitFollowed`), without which
  `ExitOfThisSession` is not inductive. `Effect` is the lemma about the auto-step's effect that every
  action shares.

* `LivePanelsProofs`: `BreakpointsAgree` speaks only of lines that nothing is on its way about, and is
  not inductive. The invariant says what is on its way: the messages about a line alternate between add
  and remove (`Alternating`), the last one asks for what the gutter shows (`LastTold`), and the first,
  if it is an add, finds no breakpoint in the table (`AwaitsAdd` in `InGdb`). That is why the bridge's
  unguarded overwriting of a number does no harm. With what a queue keeps of its messages when one is
  sent or served as lemmas, `Inductive` gives `TypeCorrect`, `Agreement` and `AnswersOfConnection`.
* `EditorProofs`, undo and redo: `BothStacksBounded` needs that the redo stack only grows by what leaves the undo
  stack, except for the text on display; `UndoneCanBeRedone` is an action property of the same
  invariant; `QuietUndoIsIdeal` relates both stacks to the ideal history entry by entry, with the
  pending debounce as the entry that is still missing.
* `EditorProofs`, the view: `HiddenCanBeShown` follows from the shape of regions alone: of the folded regions
  that hide a line, the one that begins first is not itself hidden. `JumpsAreShown` first settles that
  every arrow gets a level: `Before` is a total order, and each arrow takes the least level that no
  overlapping earlier one has (`LevelFacts`); there always is one, since no two arrows leave the same line
  (`LevelLeft`, by counting). Two arrows that overlap then differ, and of two that nest the shorter comes
  first and further in (`LevelsNest`). That a jump is drawn or complained of (`Drawn`, `JumpsAccounted`)
  compares the two definitions of a label line by line. `BreadcrumbIsEnclosing` carries down the lines what
  the walk knows: the last section, and the last label since then that is not local. All hold for any
  number of lines, any names and any folds.
* `OfflineProofs`: `StepInTrace` is not inductive, since the interval of a play walks the trace it captured:
  `PlayInTrace` adds that this is the trace on display, unless one came meanwhile (`overtaken`). `TypeCorrect`
  contains that the history is bounded and has no program twice (`SavedFacts`) and that a trace has no more
  steps than the GDB script asks for (`TraceFacts`). `TracingIsAwaited` and `DirectoriesAreAccounted` are the
  safety that `TracingEnds` and `DirectoriesGo` rest on: the busy button always waits for a request that is
  being served or answered, and no handler ends without its directory being removed or given up.
* `Recurrence`: the library states induction for an operator given as a parameter, which the provers here
  cannot instantiate. `Induction` states it for the set of the numbers at which a fact holds, and
  `Recursion` that a function given step by step exists and stays within given sets; both come from
  the least element of a set of numbers (`LeastExists`), and that from the inclusion of finite sets. What `Those` and `Breadcrumb` compute is proved from
  `Recursion`, for every input; `Level` recurs on an order of arrows, and the same argument is made for it.
* `WindowProofs`: `TypeCorrect` contains `LayoutFits`, for a mouse that goes anywhere: of the two clamps
  of each column handle, the second never acts. `TargetShown` needs that an open tour has its step
  prepared (`Met`), for every way into and out of it, and of the tour that a step whose target may be out of sight
  prepares it (`MatchingAssumption`, which `TOUR_STEPS` satisfies).

Every invariant and action property of the passing runs, and the refinement, is stated by a theorem. Only
model-checked are liveness, for which the prover has no rule of fairness — `OrphansAreCollected`,
`AbandonedServerDrains`, `MethodsReturn`, `SteppingEnds`, `TracingEnds`, `DirectoriesGo` —, and the violation runs.

## 5. Not modelled

* The server's own crash: nothing is persisted and the code does not handle it. A concurrent
  `destroy_session` during a method of the bridge belongs to `SessionServer`, where a command in flight
  on an evicted session is an action.
* Of the bridge: the output buffers, labels of stack entries, the guess of jumps from two values of rip, the
  logged command and the octal exit code decorate a snapshot and no state depends on them. What GDB
  records is not modelled: a reverse step may succeed or be refused at any time.
* Watchpoints: the workbench stores an empty identifier that is never filled in, so the removal of one is
  never sent (`App.tsx:489`). There is no protocol to check.
* `disconnect()` of the hook, which no component calls.
* `/api/run`, which no component calls; it is a part of the chain of `/api/trace`.
* Cyclic patterns: recursion over an alphabet of 26 letters is out of the model checker's reach at the
  lengths that matter and out of the prover's at any; a small alphabet would check the textbook algorithm.
  That their computation may not end is in `SessionServer`.
* Of the linter: operand counts and brackets, which look at one line each.
* The tokenizer, completions, annotations, flag hints, register views and the parsers of external
  tools' text: functions of a string, without state, whose whole content is the text they recognise or
  produce.
* The sandbox's command line and limits, reference texts, rendering and packaging.

What each module leaves out is said at its head and in the components of `PROJECT.json`.
