----------------------------- MODULE TraceServer -----------------------------
(***************************************************************************)
(* The build server of the offline mode (vite-plugin-asm-runner.ts): each   *)
(* request to /api/trace assembles and links a program in a directory of    *)
(* its own, lets GDB record its steps, runs it once more for its output,    *)
(* answers, and removes the directory without waiting for that.            *)
(*                                                                         *)
(* run() never rejects, so that a failing or killed tool is an exit code; a *)
(* failing file operation is a rejection nobody handles, which ends the     *)
(* process with every request it was serving.                              *)
(***************************************************************************)
EXTENDS Integers, Sequences, SequencesExt

CONSTANTS Request,   \* the requests that are ever made
          Recording, \* what GDB may print: sequences of blocks
          NoLine,    \* a block in which GDB names no source line
          MaxSteps   \* maxSteps: the blocks of the GDB script

\* Between two ===STEP=== marks: whether GDB could read the registers, and the
\* source line of rip.
Block == [regs : BOOLEAN, line : (Nat \ {0}) \cup {NoLine}]

ASSUME MaxStepsAssumption == MaxSteps \in Nat
ASSUME RecordingAssumption ==
  \A recording \in Recording : recording \in Seq(Block) /\ Len(recording) <= MaxSteps

VARIABLES
  phase,     \* where the handler of each request stands
  made,      \* requests whose directory exists
  removing,  \* requests whose directory is being removed
  given,     \* requests whose directory was given up: removal failed, process ended
  answer,    \* the answer on its way to the workbench
  up         \* the process runs

server == <<phase, made, removing, given, answer, up>>

Phase   == {"idle", "received", "source", "assembling", "linking", "script", "tracing", "running", "over"}
Working == Phase \ {"idle", "over"}

NoAnswer == [kind |-> "none", steps |-> << >>]
Failed   == [kind |-> "failed", steps |-> << >>]
Lost     == [kind |-> "lost", steps |-> << >>]
Traced(steps) == [kind |-> "traced", steps |-> steps]

\* The elements of a sequence that are in a set, in their order: SelectSeq, in a
\* form the proofs can expand.
Those(s, S) ==
  LET kept[i \in 0..Len(s)] ==
        IF i = 0 THEN << >>
        ELSE IF s[i] \in S THEN Append(kept[i - 1], s[i]) ELSE kept[i - 1]
  IN  kept[Len(s)]

\* parseGdbTrace: a step for each block with registers; a line GDB does not name
\* is taken for the first.
ParseGdbTrace(raw) ==
  LET steps == Those(raw, { block \in Block : block.regs })
  IN  [i \in 1..Len(steps) |-> IF steps[i].line = NoLine THEN 1 ELSE steps[i].line]

Trace == { ParseGdbTrace(recording) : recording \in Recording }

TypeOKServer ==
  /\ phase \in [Request -> Phase]
  /\ made \subseteq Request /\ removing \subseteq Request /\ given \subseteq Request
  /\ answer \in [Request -> {NoAnswer, Failed, Lost} \cup { Traced(steps) : steps \in Trace }]
  /\ up \in BOOLEAN

InitServer ==
  /\ phase = [r \in Request |-> "idle"]
  /\ made = {} /\ removing = {} /\ given = {}
  /\ answer = [r \in Request |-> NoAnswer]
  /\ up = TRUE

----------------------------------------------------------------------------
Becomes(r, from, to) == phase[r] = from /\ phase' = [phase EXCEPT ![r] = to]

\* Mutant: an answer without its rm.
Respond_KeepsDirectory(r, from, reply) ==
  /\ Becomes(r, from, "over")
  /\ answer' = [answer EXCEPT ![r] = reply]
  /\ removing' = IF r \in made /\ reply # Failed THEN removing \cup {r} ELSE removing
  /\ UNCHANGED <<made, given, up>>

\* res.end, then rm(dir) if there is one.
Respond(r, from, reply) ==
  /\ Becomes(r, from, "over")
  /\ answer' = [answer EXCEPT ![r] = reply]
  /\ removing' = IF r \in made THEN removing \cup {r} ELSE removing
  /\ UNCHANGED <<made, given, up>>

\* fetch: a connection that nobody accepts is refused at once.
Receive(r) ==
  /\ phase[r] = "idle"
  /\ IF up THEN phase' = [phase EXCEPT ![r] = "received"] /\ UNCHANGED answer
     ELSE phase' = [phase EXCEPT ![r] = "over"] /\ answer' = [answer EXCEPT ![r] = Lost]
  /\ UNCHANGED <<made, removing, given, up>>

\* No program in the body.
Refuse(r) == Respond(r, "received", Failed)

\* mkdtemp.
MakeDirectory(r) ==
  /\ Becomes(r, "received", "source")
  /\ made' = made \cup {r}
  /\ UNCHANGED <<removing, given, answer, up>>

Advance(r, from, to) ==
  /\ Becomes(r, from, to)
  /\ UNCHANGED <<made, removing, given, answer, up>>

\* assemble.  Each tool ends by itself, or is killed at its timeout and counts as
\* failed.
WriteSource(r) == Advance(r, "source", "assembling")
Assemble(r)    == Advance(r, "assembling", "linking") \/ Respond(r, "assembling", Failed)
Link(r)        == Advance(r, "linking", "script") \/ Respond(r, "linking", Failed)

\* Whether GDB failed is not looked at.
WriteScript(r) == Advance(r, "script", "tracing")
RunGdb(r)      == Advance(r, "tracing", "running")

\* The program has run again, for its output; its exit code is only reported.
Answer(r) ==
  \E recording \in Recording : Respond(r, "running", Traced(ParseGdbTrace(recording)))

\* rm with its errors ignored.
RemoveDirectory(r) ==
  /\ r \in removing
  /\ removing' = removing \ {r}
  /\ \/ made' = made \ {r} /\ UNCHANGED given
     \/ given' = given \cup {r} /\ UNCHANGED made
  /\ UNCHANGED <<phase, answer, up>>

\* mkdtemp or writeFile rejects: Node ends the process.
FileFails(r) ==
  /\ phase[r] \in {"received", "source", "script"}
  /\ up' = FALSE
  /\ phase' = [q \in Request |-> IF phase[q] \in Working THEN "over" ELSE phase[q]]
  /\ answer' = [q \in Request |-> IF phase[q] \in Working THEN Lost ELSE answer[q]]
  /\ given' = given \cup made
  /\ removing' = {}
  /\ UNCHANGED made

\* npm run dev, again.
Restart == ~up /\ up' = TRUE /\ UNCHANGED <<phase, made, removing, given, answer>>

Serve(r) == \/ Refuse(r) \/ MakeDirectory(r) \/ WriteSource(r) \/ Assemble(r) \/ Link(r)
            \/ WriteScript(r) \/ RunGdb(r) \/ Answer(r)

ServerNext == \E r \in Request : Serve(r) \/ RemoveDirectory(r) \/ FileFails(r)
=============================================================================
