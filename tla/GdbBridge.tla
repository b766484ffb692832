----------------------------- MODULE GdbBridge -----------------------------
(***************************************************************************)
(* One GdbBridge (backend/app/gdb_bridge.py) driving GDB over MI.          *)
(*                                                                         *)
(* The bridge's methods run one at a time on a worker thread.  GDB is      *)
(* external: a process that takes commands in order from `input` while the *)
(* inferior is stopped, leaves them unread while it runs (mi-async is off), *)
(* and appends records to `output`; *stopped arrives when the inferior      *)
(* stops.  A method that gives up waiting leaves its command in `input` and *)
(* its answer to whoever reads next.                                       *)
(*                                                                         *)
(* Of the registers the model keeps rsp and the line of rip; of the stack,  *)
(* the address it was read at and a version of its bytes.  0 is a value of  *)
(* rsp like any other, what a register without value is read as, and the   *)
(* line of an address without debug information.                           *)
(***************************************************************************)
EXTENDS Naturals, Sequences

CONSTANTS Line,      \* source lines that assemble to an instruction
          Sp,        \* values of rsp
          Address,   \* where readable memory may begin
          Bytes,     \* versions of the stack's contents
          NoMemory,  \* no contents: nothing is mapped there
          MaxInput   \* bound: commands GDB may have left unread

ASSUME LineAssumption     == Line # {} /\ Line \subseteq Nat \ {0}
ASSUME SpAssumption       == Sp # {} /\ Sp \subseteq Address /\ Address \subseteq Nat
ASSUME BytesAssumption    == Bytes # {} /\ NoMemory \notin Bytes
ASSUME MaxInputAssumption == MaxInput \in Nat \ {0}

VARIABLES
  life,       \* the inferior: "stopped", "running" or "dead"
  at,         \* the line it would execute next
  sp,         \* its rsp
  bytes,      \* what a read at rsp finds
  input,      \* commands GDB has not read
  output,     \* records the bridge has not read
  pc,         \* which answer the running method waits for
  op,         \* the running method
  pre_ip,     \* local of _step_and_read
  record_enabled, \* _record_enabled
  exited,     \* _exited
  cur_ip,     \* _cur_ip
  prev_rsp,   \* rsp in _prev_regs
  stack,      \* _stack_cache
  reply,      \* what the last method gave its caller
  cause,      \* history: the line at which the last execution began
  disturbed   \* history: a wait that was given up, a console command

inferior == <<life, at, sp, bytes>>
queues   == <<input, output>>
bridge   == <<pc, op, pre_ip, record_enabled, exited, cur_ip, prev_rsp, stack, reply>>
history  == <<cause, disturbed>>
vars     == <<inferior, queues, bridge, history>>

Ip == Line \cup {0}

Command ==
  [cmd : {"exec", "record", "set", "regs", "frame", "rerun", "look"}]
    \cup [cmd : {"mem"}, from : Sp \ {0}]

Record ==
  [type : {"stopped", "exited", "running", "done", "error"}]
    \cup [type : {"regs"}, rsp : Sp]
    \cup [type : {"mem"}, from : Address, bytes : Bytes]
    \cup [type : {"frame"}, line : Ip]

\* An empty list of entries, and entries labelled from `base` with the bytes
\* read at `from`.
NoStack == [base |-> 0]
Stack   == {NoStack} \cup [base : Sp \cup {0}, from : Address, bytes : Bytes]

PC == {"idle",
       "record",                   \* in step_back's first _write
       "exec", "wait",             \* in _wait_for_stop
       "set", "console",           \* in _write of set_register, gdb_command
       "regs", "mem", "frame"}     \* in _read_state

Op == {"step", "continue", "back", "read", "set", "console"}

\* "snapshot" with its ip, the snapshot of a finished program, an exception
Reply == [kind : {"none", "finished", "refused", "raised", "console"}]
           \cup [kind : {"snapshot"}, ip : Ip]

TypeOK ==
  /\ life \in {"stopped", "running", "dead"}
  /\ at \in Ip
  /\ sp \in Sp
  /\ bytes \in Bytes \cup {NoMemory}
  /\ input \in Seq(Command)
  /\ output \in Seq(Record)
  /\ pc \in PC
  /\ op \in Op
  /\ pre_ip \in Ip
  /\ record_enabled \in BOOLEAN
  /\ exited \in BOOLEAN
  /\ cur_ip \in Ip
  /\ prev_rsp \in Sp \cup {0}
  /\ stack \in Stack
  /\ reply \in Reply
  /\ cause \in Ip
  /\ disturbed \subseteq {"late", "console"}

\* start() has returned and the first method called is read_state.  The
\* program is stopped, at _start or where a signal or another breakpoint
\* caught it, has ended, or still runs after the 10 s that start() waits.
Init ==
  /\ life \in {"stopped", "running", "dead"}
  /\ exited = (life = "dead")
  /\ disturbed = IF life = "running" THEN {"late"} ELSE {}
  /\ at \in Ip
  /\ sp \in Sp
  /\ bytes \in Bytes \cup {NoMemory}
  /\ input = << [cmd |-> "regs"] >>
  /\ output = << >>
  /\ pc = "regs"
  /\ op = "read"
  /\ pre_ip = 0
  /\ record_enabled = FALSE
  /\ cur_ip = 0
  /\ prev_rsp = 0
  /\ stack = NoStack
  /\ reply = [kind |-> "none"]
  /\ cause = 0

----------------------------------------------------------------------------
(* GDB and the inferior (external)                                         *)

Emits(record) == output' = Append(output, record)

\* An execution command, or `run` in the console, which also restarts a
\* program that has ended.  GDB may refuse either on a live program: a finish
\* in the outermost frame, a reverse step that is not recorded, a breakpoint
\* that cannot be inserted.
ServeExec ==
  /\ life # "running"
  /\ input # << >>
  /\ Head(input).cmd \in {"exec", "rerun"}
  /\ input' = Tail(input)
  /\ \/ /\ Emits([type |-> "error"])
        /\ UNCHANGED <<life, cause>>
     \/ /\ life # "dead" \/ Head(input).cmd = "rerun"
        /\ Emits([type |-> "running"])
        /\ life' = "running"
        /\ cause' = at
  /\ UNCHANGED <<at, sp, bytes, bridge, disturbed>>

\* -gdb-set $reg: the bridge does not look at the answer.  Another rsp points
\* at other memory.
ServeSet ==
  /\ life # "running"
  /\ input # << >>
  /\ Head(input).cmd = "set"
  /\ input' = Tail(input)
  /\ \/ /\ Emits([type |-> "error"])
        /\ UNCHANGED <<at, sp, bytes>>
     \/ /\ life # "dead"
        /\ Emits([type |-> "done"])
        /\ at' \in Ip
        /\ sp' \in Sp
        /\ bytes' \in Bytes \cup {NoMemory}
        /\ sp' = sp => bytes' = bytes
  /\ UNCHANGED <<life, bridge, history>>

\* What a read that starts at address a finds: the bytes there, or else those
\* of the first readable address above it, or nothing.
Memory(a) ==
  IF a = sp /\ bytes # NoMemory
  THEN {[type |-> "mem", from |-> a, bytes |-> bytes]}
  ELSE {[type |-> "error"]}
         \cup [type : {"mem"},
               from : {b \in Address : b >= a /\ (bytes = NoMemory => b # sp)},
               bytes : Bytes]

\* `record full` succeeds or is refused; the bridge does not look.
Answers(c) ==
  CASE c.cmd = "look"                     -> {[type |-> "done"]}
    [] c.cmd # "look" /\ life = "dead"    -> {[type |-> "error"]}
    [] c.cmd = "record" /\ life # "dead"  -> [type : {"done", "error"}]
    [] c.cmd = "regs" /\ life # "dead"    -> {[type |-> "regs", rsp |-> sp]}
    [] c.cmd = "mem" /\ life # "dead"     -> Memory(c.from)
    [] c.cmd = "frame" /\ life # "dead"   -> {[type |-> "frame", line |-> at]}

ServeQuery ==
  /\ life # "running"
  /\ input # << >>
  /\ Head(input).cmd \in {"record", "regs", "mem", "frame", "look"}
  /\ \E answer \in Answers(Head(input)) : Emits(answer)
  /\ input' = Tail(input)
  /\ UNCHANGED <<inferior, bridge, history>>

\* A step, a breakpoint, a signal: the program may be anywhere, also where
\* there is no source line.
InferiorStops ==
  /\ life = "running"
  /\ life' = "stopped"
  /\ at' \in Ip
  /\ sp' \in Sp
  /\ bytes' \in Bytes \cup {NoMemory}
  /\ Emits([type |-> "stopped"])
  /\ UNCHANGED <<input, bridge, history>>

InferiorExits ==
  /\ life = "running"
  /\ life' = "dead"
  /\ Emits([type |-> "exited"])
  /\ UNCHANGED <<at, sp, bytes, input, bridge, history>>

----------------------------------------------------------------------------
(* The bridge: what every method is made of                                *)

\* _write puts a command on GDB's stdin and the method waits for the answer.
Asks(command, next) ==
  /\ input' = Append(input, command)
  /\ pc' = next

\* _write returns what GDB has output once it falls silent: its whole answer,
\* unless GDB is not reading.
Response ==
  /\ output # << >>
  /\ input = << >> \/ life = "running"
  /\ output' = << >>

First(S) == CHOOSE i \in S : \A j \in S : i <= j
Last(S)  == CHOOSE i \in S : \A j \in S : i >= j
Those(types) == {i \in DOMAIN output : output[i].type \in types}

Returns(value) ==
  /\ pc' = "idle"
  /\ reply' = value

Raises ==
  /\ Returns([kind |-> "raised"])
  /\ UNCHANGED <<input, exited, cur_ip, prev_rsp, stack, op, pre_ip, record_enabled>>

----------------------------------------------------------------------------
(* The methods                                                             *)

Call(o, command, next) ==
  /\ pc = "idle"
  /\ Len(input) < MaxInput
  /\ Asks(command, next)
  /\ op' = o
  /\ pre_ip' = cur_ip
  /\ reply' = [kind |-> "none"]
  /\ UNCHANGED <<inferior, output, record_enabled, exited, cur_ip, prev_rsp, stack, cause>>

\* step, step_over, step_out and continue_exec
Execute(o) ==
  /\ o \in {"step", "continue"}
  /\ ~ exited
  /\ Call(o, [cmd |-> "exec"], "exec")
  /\ UNCHANGED disturbed

\* "Programme terminé": refused without a word to GDB
Refuse ==
  /\ pc = "idle"
  /\ exited
  /\ Returns([kind |-> "refused"])
  /\ UNCHANGED <<inferior, queues, history, op, pre_ip, record_enabled, exited, cur_ip, prev_rsp, stack>>

\* The reverse step does not ask whether the program has ended.  The first
\* one starts the recording.
StepBack ==
  /\ \/ record_enabled /\ Call("back", [cmd |-> "exec"], "exec")
     \/ ~ record_enabled /\ Call("back", [cmd |-> "record"], "record")
  /\ UNCHANGED disturbed

\* Called on its own only while a session is being opened.
ReadState ==
  /\ op = "read"
  /\ Call("read", [cmd |-> "regs"], "regs")
  /\ UNCHANGED disturbed

SetRegister ==
  /\ Call("set", [cmd |-> "set"], "set")
  /\ UNCHANGED disturbed

\* gdb_command, with a command that looks, one that executes and `run`
GdbCommand ==
  \/ /\ Call("console", [cmd |-> "look"], "console")
     /\ UNCHANGED disturbed
  \/ \E c \in {"exec", "rerun"} :
       /\ Call("console", [cmd |-> c], "console")
       /\ disturbed' = disturbed \cup {"console"}

AsksRegs == Asks([cmd |-> "regs"], "regs")

\* Mutant: _check_stop_or_exit forgets exited-signalled, say.
ExecAnswered_NoExit ==
  LET seen == Those({"stopped", "exited", "error"})
      news == IF seen = {} THEN "none" ELSE output[First(seen)].type
  IN /\ pc \in {"exec", "wait"}
     /\ Response
     /\ \/ /\ news = "error"
           /\ Raises
        \/ /\ news = "none"
           /\ pc' = "wait"
           /\ UNCHANGED <<input, exited, reply, op, pre_ip, record_enabled, cur_ip, prev_rsp, stack>>
        \/ /\ news \in {"stopped", "exited"}
           /\ AsksRegs
           /\ UNCHANGED <<exited, reply, op, pre_ip, record_enabled, cur_ip, prev_rsp, stack>>
     /\ UNCHANGED <<inferior, history>>

\* _wait_for_stop on one response: the first *stopped or ^error decides.
ExecAnswered ==
  LET seen == Those({"stopped", "exited", "error"})
      news == IF seen = {} THEN "none" ELSE output[First(seen)].type
  IN /\ pc \in {"exec", "wait"}
     /\ Response
     /\ \/ /\ news = "error"
           /\ Raises
        \/ /\ news = "none"
           /\ pc' = "wait"
           /\ UNCHANGED <<input, exited, reply, op, pre_ip, record_enabled, cur_ip, prev_rsp, stack>>
        \/ /\ news \in {"stopped", "exited"}
           /\ exited' = (exited \/ news = "exited")
           /\ IF op = "continue" /\ exited'
              THEN Returns([kind |-> "finished"]) /\ UNCHANGED input
              ELSE AsksRegs /\ UNCHANGED reply
           /\ UNCHANGED <<op, pre_ip, record_enabled, cur_ip, prev_rsp, stack>>
     /\ UNCHANGED <<inferior, history>>

\* Mutant: silence for 10 s is taken for the end of the program.
Deadline_Exited ==
  /\ pc = "wait"
  /\ AsksRegs
  /\ exited' = TRUE
  /\ disturbed' = disturbed \cup {"late"}
  /\ UNCHANGED <<inferior, output, cause, op, pre_ip, record_enabled, cur_ip, prev_rsp, stack, reply>>

\* _wait_for_stop gives up after 10 s and returns as if GDB had stopped.
Deadline ==
  /\ pc = "wait"
  /\ AsksRegs
  /\ disturbed' = disturbed \cup {"late"}
  /\ UNCHANGED <<inferior, output, cause, op, pre_ip, record_enabled, exited, cur_ip, prev_rsp, stack, reply>>

\* Mutant: _write waits without a timeout.
TimedOut_Never == pc = "none" /\ UNCHANGED vars

\* gdb.write raises after 5 s without a record.  step_back goes on when its
\* `record full` raises.
TimedOut ==
  /\ pc \notin {"idle", "wait"}
  /\ output = << >>
  /\ life = "running"
  /\ \/ pc # "record" /\ Raises
     \/ /\ pc = "record"
        /\ Asks([cmd |-> "exec"], "exec")
        /\ UNCHANGED <<reply, op, pre_ip, record_enabled, exited, cur_ip, prev_rsp, stack>>
  /\ disturbed' = disturbed \cup {"late"}
  /\ UNCHANGED <<inferior, output, cause>>

\* Recording counts as enabled whatever GDB answered.
RecordAnswered ==
  /\ pc = "record"
  /\ Response
  /\ record_enabled' = TRUE
  /\ Asks([cmd |-> "exec"], "exec")
  /\ UNCHANGED <<inferior, history, op, pre_ip, exited, cur_ip, prev_rsp, stack, reply>>

SetAnswered ==
  /\ pc = "set"
  /\ Response
  /\ AsksRegs
  /\ UNCHANGED <<inferior, history, op, pre_ip, record_enabled, exited, cur_ip, prev_rsp, stack, reply>>

\* Mutant: gdb_command reads only what has already arrived.
ConsoleAnswered_NoWait ==
  /\ pc = "console"
  /\ output' = << >>
  /\ Returns([kind |-> "console"])
  /\ UNCHANGED <<inferior, history, input, op, pre_ip, record_enabled, exited, cur_ip, prev_rsp, stack>>

\* gdb_command reads until GDB is silent; it looks at the console's text only.
ConsoleAnswered ==
  /\ pc = "console"
  /\ Response
  /\ Returns([kind |-> "console"])
  /\ UNCHANGED <<inferior, history, input, op, pre_ip, record_enabled, exited, cur_ip, prev_rsp, stack>>

AsksFrame == Asks([cmd |-> "frame"], "frame")

\* _parse_registers: the last values win; without values every register is 0.
Rsp == LET seen == Those({"regs"})
       IN IF seen = {} THEN 0 ELSE output[Last(seen)].rsp

\* Mutant: the stack is read also when rsp is unknown.
RegsAnswered_ReadsAtZero ==
  /\ pc = "regs"
  /\ Response
  /\ prev_rsp' = Rsp
  /\ IF Rsp # prev_rsp \/ stack = NoStack
     THEN Asks([cmd |-> "mem", from |-> Rsp], "mem")
     ELSE AsksFrame
  /\ UNCHANGED stack
  /\ UNCHANGED <<inferior, history, op, pre_ip, record_enabled, exited, cur_ip, reply>>

\* Mutant: the stack is read only when there is none yet.
RegsAnswered_OnlyOnce ==
  /\ pc = "regs"
  /\ Response
  /\ prev_rsp' = Rsp
  /\ IF stack = NoStack /\ Rsp # 0
     THEN Asks([cmd |-> "mem", from |-> Rsp], "mem")
     ELSE AsksFrame
  /\ UNCHANGED stack
  /\ UNCHANGED <<inferior, history, op, pre_ip, record_enabled, exited, cur_ip, reply>>

\* _prev_regs is replaced before the stack is read, and the stack is read
\* when rsp has changed.
RegsAnswered ==
  /\ pc = "regs"
  /\ Response
  /\ prev_rsp' = Rsp
  /\ LET stale == Rsp # prev_rsp \/ stack = NoStack
     IN \/ /\ stale /\ Rsp # 0
           /\ Asks([cmd |-> "mem", from |-> Rsp], "mem")
           /\ UNCHANGED stack
        \/ /\ stale /\ Rsp = 0
           /\ stack' = NoStack
           /\ AsksFrame
        \/ /\ ~ stale
           /\ UNCHANGED stack
           /\ AsksFrame
  /\ UNCHANGED <<inferior, history, op, pre_ip, record_enabled, exited, cur_ip, reply>>

\* _parse_memory_bytes: the first memory in the response, whatever was asked.
MemAnswered ==
  /\ pc = "mem"
  /\ Response
  /\ LET seen == Those({"mem"})
         m    == output[First(seen)]
     IN stack' = IF seen = {} THEN NoStack
                 ELSE [base |-> prev_rsp, from |-> m.from, bytes |-> m.bytes]
  /\ AsksFrame
  /\ UNCHANGED <<inferior, history, op, pre_ip, record_enabled, exited, cur_ip, prev_rsp, reply>>

\* _parse_line_number: the first result with a payload, whatever was asked.
FrameLine ==
  LET seen == Those({"regs", "mem", "frame", "error"})
  IN IF seen # {} /\ output[First(seen)].type = "frame"
     THEN output[First(seen)].line ELSE 0

\* Mutant: the snapshot of a step shows the line the program stopped at.
FrameAnswered_PostStep ==
  /\ pc = "frame"
  /\ Response
  /\ cur_ip' = FrameLine
  /\ Returns([kind |-> "snapshot", ip |-> FrameLine])
  /\ UNCHANGED <<inferior, history, input, op, pre_ip, record_enabled, exited, prev_rsp, stack>>

\* The end of _read_state and of its caller: a step shows the line it started
\* from.
FrameAnswered ==
  /\ pc = "frame"
  /\ Response
  /\ cur_ip' = FrameLine
  /\ Returns([kind |-> "snapshot",
              ip |-> IF op = "step" THEN pre_ip ELSE FrameLine])
  /\ UNCHANGED <<inferior, history, input, op, pre_ip, record_enabled, exited, prev_rsp, stack>>

----------------------------------------------------------------------------

Gdb == ServeExec \/ ServeSet \/ ServeQuery

Worker ==
  \/ ExecAnswered
  \/ Deadline
  \/ TimedOut
  \/ RecordAnswered
  \/ SetAnswered
  \/ ConsoleAnswered
  \/ RegsAnswered
  \/ MemAnswered
  \/ FrameAnswered

Next ==
  \/ Gdb
  \/ InferiorStops
  \/ InferiorExits
  \/ \E o \in {"step", "continue"} : Execute(o)
  \/ Refuse
  \/ StepBack
  \/ ReadState
  \/ SetRegister
  \/ GdbCommand
  \/ Worker

Spec == Init /\ [][Next]_vars

\* GDB answers while it may, and a worker thread never waits for ever.  The
\* inferior may run for ever, and no client is required to ask for anything.
FairSpec == Spec /\ WF_vars(Gdb) /\ WF_vars(Worker)

----------------------------------------------------------------------------
(* Properties                                                              *)

\* Every wait ended with its answer, and the console moved nothing.
Calm == disturbed = {}

\* The off-by-one of _step_and_read: the line a step's snapshot shows is the
\* one whose execution changed the registers it shows, whatever sequence of
\* steps, continues, reverse steps and register writes went before, those that
\* GDB refused included.
HighlightIsCause ==
  Calm /\ reply.kind = "snapshot" /\ op = "step" => reply.ip = cause

\* Between two methods the bridge knows whether its program has ended, however
\* it ended: also when a step, a reverse step or a continue ended it.  A command
\* that GDB refuses on a live program is not an end.
ExitIsKnown == Calm /\ pc = "idle" => (exited <=> life = "dead")

\* Even when waits are given up and answers reach the wrong method, no program
\* is declared finished that still runs (the console's `run` apart).
ExitIsNotInvented == "console" \notin disturbed /\ exited => life = "dead"

\* What _stack_cache is of, for the rsp of the moment: entries labelled from
\* rsp on, with the memory at rsp or, where that cannot be read, at the first
\* readable address above; or no entries, because rsp is 0 or nothing can be
\* read.
StackOf(r) ==
  IF stack = NoStack THEN r = 0 \/ bytes = NoMemory
                     ELSE stack.base = r /\ stack.from >= r

\* Between two methods the stack on display is the one rsp points at, though
\* it is read only when rsp changes or none is known: also after rsp was 0 or
\* pointed at nothing.
StackFollowsRsp == Calm /\ pc = "idle" /\ life # "dead" => prev_rsp = sp /\ StackOf(sp)

\* No answer is left for the next method to read.
InStep == Calm /\ pc = "idle" => input = << >> /\ output = << >>

\* Every method returns, also when the inferior never stops.
MethodsReturn == pc # "idle" ~> pc = "idle"

\* The inductive strengthening.  Without the console nothing restarts a
\* program, and an unread exit is a real one.
EndIsFinal ==
  "console" \notin disturbed =>
    /\ \A i \in DOMAIN input : input[i].cmd # "rerun"
    /\ \A i \in DOMAIN output : output[i].type = "exited" => life = "dead"
    /\ exited => life = "dead"

\* In a calm history at most one command is under way, and its answer is the
\* only thing to read.
Quiet == input = << >> /\ output = << >>
Conversation(command, answers) ==
  /\ life # "running"
  /\ \/ input = << command >> /\ output = << >>
     \/ input = << >> /\ \E answer \in answers : output = << answer >>
Running(before) ==
  /\ input = << >>
  /\ ~ exited
  /\ op = "step" => cause = pre_ip
  /\ \/ life = "running" /\ output = before
     \/ life = "stopped" /\ output = Append(before, [type |-> "stopped"])
     \/ life = "dead" /\ output = Append(before, [type |-> "exited"])

\* An execution command that GDB has not read or has refused: the program is
\* where it was.
Asked ==
  /\ life # "running"
  /\ \/ input = << [cmd |-> "exec"] >> /\ output = << >>
     \/ input = << >> /\ output = << [type |-> "error"] >>

InTurn ==
  /\ pc = "idle"  => Quiet /\ life # "running"
  /\ pc = "record" => Conversation([cmd |-> "record"], Answers([cmd |-> "record"]))
  /\ pc = "exec"  => Asked \/ Running(<< [type |-> "running"] >>)
  /\ pc = "wait"  => Running(<< >>)
  /\ pc = "set"   => Conversation([cmd |-> "set"], [type : {"done", "error"}])
  /\ pc = "console" => Conversation([cmd |-> "look"], Answers([cmd |-> "look"]))
  /\ pc = "regs"  => Conversation([cmd |-> "regs"], Answers([cmd |-> "regs"]))
  /\ pc = "mem"   =>
       /\ life = "stopped"
       /\ LET c == [cmd |-> "mem", from |-> sp] IN Conversation(c, Answers(c))
  /\ pc = "frame" => Conversation([cmd |-> "frame"], Answers([cmd |-> "frame"]))

\* The bridge is as wise as its last answer: `Settled` while nothing has moved
\* since the last snapshot.
Settled == pc \in {"idle", "console", "record"} \/ (pc = "exec" /\ Asked)

Informed ==
  /\ pc # "idle" => reply.kind = "none"
  /\ op \in {"step", "continue"} /\ pc = "exec" /\ Asked => ~ exited
  /\ pc \notin {"exec", "wait"} \/ Settled => (exited <=> life = "dead")
  /\ Settled => life = "dead" \/ cur_ip = at
  /\ op = "step" /\ pc = "exec" => pre_ip = cur_ip
  /\ pc = "record" => op = "back"
  /\ pc = "set" => op # "step"
  /\ op = "step" /\ pc \in {"regs", "mem", "frame"} => cause = pre_ip
  /\ pc = "mem" => prev_rsp = sp /\ sp # 0
  /\ pc # "mem" /\ stack # NoStack => stack.base = prev_rsp /\ stack.from >= prev_rsp
  /\ pc = "frame" \/ Settled => life = "dead" \/ (prev_rsp = sp /\ StackOf(sp))

IInv ==
  /\ TypeOK
  /\ EndIsFinal
  /\ Calm => InTurn /\ Informed
  /\ HighlightIsCause
============================================================================
