-------------------------- MODULE GdbBridgeProofs --------------------------
(***************************************************************************)
(* What a client may rely on between two methods of a bridge, for every     *)
(* program, every rsp and any number of commands left unread.              *)
(***************************************************************************)
EXTENDS GdbBridge, Recurrence, SequenceTheorems, TLAPS

----------------------------------------------------------------------------
(* The records of a response                                               *)

\* A nonempty set of positions has a first and a last one.
LEMMA FirstExists ==
  ASSUME NEW n \in Nat, NEW S \in SUBSET (1 .. n), S # {}
  PROVE  First(S) \in S
<1>1. \E k \in S : \A j \in S : k <= j
  BY LeastExists
<1> QED
  BY <1>1 DEF First

LEMMA LastExists ==
  ASSUME NEW n \in Nat, NEW S \in SUBSET (1 .. n), S # {}
  PROVE  Last(S) \in S
<1>1. \E k \in S : \A j \in S : k >= j
  BY GreatestExists
<1> QED
  BY <1>1 DEF Last

\* What the parsers make of a response, whatever is in it.
LEMMA Parsed ==
  ASSUME TypeOK
  PROVE  /\ Rsp \in Sp \cup {0}
         /\ FrameLine \in Ip
         /\ Those({"mem"}) # {} =>
              /\ output[First(Those({"mem"}))].from \in Address
              /\ output[First(Those({"mem"}))].bytes \in Bytes
<1>1. output \in Seq(Record) /\ Len(output) \in Nat /\ DOMAIN output = 1 .. Len(output)
  BY DEF TypeOK
<1>2. \A i \in DOMAIN output : output[i] \in Record
  BY <1>1
<1>3. \A types : Those(types) \in SUBSET (1 .. Len(output))
  BY <1>1 DEF Those
<1>4. Rsp \in Sp \cup {0}
  <2>1. CASE Those({"regs"}) = {}
    BY <2>1 DEF Rsp
  <2>2. CASE Those({"regs"}) # {}
    <3>1. Last(Those({"regs"})) \in Those({"regs"})
      BY <1>1, <1>3, <2>2, LastExists
    <3>2. output[Last(Those({"regs"}))] \in Record /\ output[Last(Those({"regs"}))].type = "regs"
      BY <1>2, <3>1 DEF Those
    <3> QED
      BY <3>2, <2>2 DEF Rsp, Record
  <2> QED
    BY <2>1, <2>2
<1>5. FrameLine \in Ip
  <2> DEFINE S == Those({"regs", "mem", "frame", "error"})
  <2>1. CASE S # {} /\ output[First(S)].type = "frame"
    <3>1. First(S) \in S
      BY <1>1, <1>3, <2>1, FirstExists
    <3>2. output[First(S)] \in Record
      BY <1>2, <3>1 DEF Those
    <3> QED
      BY <3>2, <2>1 DEF FrameLine, Record
  <2> QED
    BY <2>1 DEF FrameLine, Ip
<1>6. ASSUME Those({"mem"}) # {}
      PROVE  /\ output[First(Those({"mem"}))].from \in Address
             /\ output[First(Those({"mem"}))].bytes \in Bytes
  <2>1. First(Those({"mem"})) \in Those({"mem"})
    BY <1>1, <1>3, <1>6, FirstExists
  <2>2. output[First(Those({"mem"}))] \in Record /\ output[First(Those({"mem"}))].type = "mem"
    BY <1>2, <2>1 DEF Those
  <2> QED
    BY <2>2 DEF Record
<1> QED
  BY <1>4, <1>5, <1>6

\* A response of one record, and of an acknowledgement and a stop.
LEMMA OneRecord ==
  ASSUME NEW r, output = <<r>>, NEW types
  PROVE  /\ r.type \in types => Those(types) = {1} /\ First({1}) = 1 /\ Last({1}) = 1
         /\ r.type \notin types => Those(types) = {}
BY DEF Those, First, Last

LEMMA TwoRecords ==
  ASSUME NEW q, NEW r, output = <<q, r>>, NEW types, q.type \notin types, r.type \in types
  PROVE  Those(types) = {2} /\ First({2}) = 2
BY DEF Those, First

----------------------------------------------------------------------------
(* Type correctness                                                        *)

\* The commands and the records that exist.
LEMMA Messages ==
  /\ \A c \in {"exec", "record", "set", "regs", "frame", "rerun", "look"} :
       [cmd |-> c] \in Command
  /\ \A r \in Sp \ {0} : [cmd |-> "mem", from |-> r] \in Command
  /\ \A t \in {"stopped", "exited", "running", "done", "error"} : [type |-> t] \in Record
  /\ \A r \in Sp : [type |-> "regs", rsp |-> r] \in Record
  /\ \A r \in Address, b \in Bytes : [type |-> "mem", from |-> r, bytes |-> b] \in Record
  /\ \A l \in Ip : [type |-> "frame", line |-> l] \in Record
BY DEF Command, Record

\* What a method is answered is a record, and no news of the program.
LEMMA AnswerIsRecord ==
  ASSUME TypeOK, NEW c \in Command, c.cmd \in {"record", "regs", "mem", "frame", "look"},
         NEW answer \in Answers(c)
  PROVE  answer \in Record /\ answer.type \notin {"stopped", "exited", "running"}
<1>1. CASE c.cmd = "mem" /\ life # "dead"
  <2>1. c.from \in Sp /\ answer \in Memory(c.from)
    BY <1>1 DEF Command, Answers
  <2>2. \/ answer = [type |-> "error"]
        \/ answer \in [type : {"mem"}, from : Address, bytes : Bytes]
    BY <2>1, SpAssumption DEF Memory, TypeOK
  <2> QED
    BY <2>2, Messages DEF Record
<1>2. CASE c.cmd # "mem" \/ life = "dead"
  <2>1. \/ answer \in [type : {"done", "error"}]
        \/ answer = [type |-> "regs", rsp |-> sp]
        \/ answer = [type |-> "frame", line |-> at]
    BY <1>2 DEF Answers
  <2> QED
    BY <2>1, Messages DEF TypeOK, Record
<1> QED
  BY <1>1, <1>2

LEMMA InitType == Init => TypeOK
<1> SUFFICES ASSUME Init PROVE TypeOK
  OBVIOUS
<1>1. input \in Seq(Command)
  BY Messages DEF Init
<1>2. output \in Seq(Record)
  BY DEF Init
<1>3. reply \in Reply /\ stack \in Stack
  BY DEF Init, Reply, Stack
<1>4. /\ life \in {"stopped", "running", "dead"} /\ at \in Ip /\ sp \in Sp
      /\ bytes \in Bytes \cup {NoMemory}
      /\ pc \in PC /\ op \in Op /\ pre_ip \in Ip /\ exited \in BOOLEAN
      /\ record_enabled \in BOOLEAN
      /\ cur_ip \in Ip /\ prev_rsp \in Sp \cup {0}
      /\ cause \in Ip /\ disturbed \subseteq {"late", "console"}
  BY DEF Init, Ip, PC, Op
<1> QED
  BY <1>1, <1>2, <1>3, <1>4 DEF TypeOK

LEMMA TypeStep == TypeOK /\ [Next]_vars => TypeOK'
<1> SUFFICES ASSUME TypeOK, [Next]_vars
             PROVE  TypeOK'
  OBVIOUS
<1> USE DEF TypeOK
<1>1. /\ 0 \in Ip /\ 0 \in Sp \cup {0} /\ NoStack \in Stack
      /\ << >> \in Seq(Record)
  BY DEF Ip, Stack
<1>2. \A k \in {"none", "finished", "refused", "raised", "console"} : [kind |-> k] \in Reply
  BY DEF Reply
<1>3. \A c \in Command : Append(input, c) \in Seq(Command)
  OBVIOUS
<1>4. \A r \in Record : Append(output, r) \in Seq(Record)
  OBVIOUS
<1>5. input # << >> => Head(input) \in Command /\ Tail(input) \in Seq(Command)
  OBVIOUS
<1>6. CASE ServeExec
  BY <1>4, <1>5, <1>6, Messages DEF ServeExec, Emits, bridge
<1>7. CASE ServeSet
  BY <1>4, <1>5, <1>7, Messages DEF ServeSet, Emits, bridge, history
<1>8. CASE ServeQuery
  <2>1. PICK answer \in Answers(Head(input)) : output' = Append(output, answer)
    BY <1>8 DEF ServeQuery, Emits
  <2>2. answer \in Record
    BY <1>5, <1>8, <2>1, AnswerIsRecord DEF ServeQuery
  <2> QED
    BY <1>4, <1>5, <1>8, <2>1, <2>2 DEF ServeQuery, bridge, history, inferior
<1>9. CASE InferiorStops
  BY <1>4, <1>9, Messages DEF InferiorStops, Emits, bridge, history
<1>10. CASE InferiorExits
  BY <1>4, <1>10, Messages DEF InferiorExits, Emits, bridge, history
<1>11. ASSUME NEW o \in Op, NEW c \in {"exec", "record", "set", "regs", "look", "rerun"},
              NEW next \in PC, Call(o, [cmd |-> c], next), disturbed' \subseteq {"late", "console"}
       PROVE  TypeOK'
  BY <1>2, <1>3, <1>11, Messages DEF Call, Asks, inferior
<1>12. CASE \E o \in {"step", "continue"} : Execute(o)
  BY <1>11, <1>12 DEF Execute, Op, PC
<1>13. CASE Refuse
  BY <1>2, <1>13 DEF Refuse, Returns, PC, inferior, queues, history
<1>14. CASE StepBack
  BY <1>11, <1>14 DEF StepBack, Op, PC
<1>15. CASE ReadState
  BY <1>11, <1>15 DEF ReadState, Op, PC
<1>16. CASE SetRegister
  BY <1>11, <1>16 DEF SetRegister, Op, PC
<1>17. CASE GdbCommand
  BY <1>11, <1>17 DEF GdbCommand, Op, PC
<1>18. CASE ExecAnswered
  BY <1>1, <1>2, <1>3, <1>18, Messages
  DEF ExecAnswered, Response, Raises, Returns, AsksRegs, Asks, PC, inferior, history
<1>19. CASE Deadline
  BY <1>3, <1>19, Messages DEF Deadline, AsksRegs, Asks, PC, inferior
<1>20. CASE TimedOut
  BY <1>2, <1>3, <1>20, Messages DEF TimedOut, Raises, Returns, Asks, PC, inferior
<1>21. CASE SetAnswered
  BY <1>1, <1>3, <1>21, Messages
  DEF SetAnswered, Response, AsksRegs, Asks, PC, inferior, history
<1>22. CASE ConsoleAnswered
  BY <1>1, <1>2, <1>22 DEF ConsoleAnswered, Response, Returns, PC, inferior, history
<1>23. CASE RegsAnswered
  <2>1. Rsp \in Sp \cup {0}
    BY Parsed
  <2>2. Rsp # 0 => Append(input, [cmd |-> "mem", from |-> Rsp]) \in Seq(Command)
    BY <1>3, <2>1, Messages
  <2>3. Append(input, [cmd |-> "frame"]) \in Seq(Command)
    BY <1>3, Messages
  <2> QED
    BY <1>1, <1>23, <2>1, <2>2, <2>3
    DEF RegsAnswered, Response, AsksFrame, Asks, PC, inferior, history
<1>24. CASE MemAnswered
  <2>1. stack' \in Stack
    <3>1. CASE Those({"mem"}) = {}
      BY <1>1, <1>24, <3>1 DEF MemAnswered
    <3>2. CASE Those({"mem"}) # {}
      <4> DEFINE m == output[First(Those({"mem"}))]
      <4>1. stack' = [base |-> prev_rsp, from |-> m.from, bytes |-> m.bytes]
        BY <1>24, <3>2 DEF MemAnswered
      <4>2. m.from \in Address /\ m.bytes \in Bytes
        BY <3>2, Parsed
      <4> QED
        BY <4>1, <4>2 DEF Stack
    <3> QED
      BY <3>1, <3>2
  <2>2. Append(input, [cmd |-> "frame"]) \in Seq(Command)
    BY <1>3, Messages
  <2> QED
    BY <1>1, <1>24, <2>1, <2>2
    DEF MemAnswered, Response, AsksFrame, Asks, PC, inferior, history
<1>25. CASE FrameAnswered
  <2>1. FrameLine \in Ip
    BY Parsed
  <2>2. \A l \in Ip : [kind |-> "snapshot", ip |-> l] \in Reply
    BY DEF Reply
  <2> QED
    BY <1>1, <1>25, <2>1, <2>2
    DEF FrameAnswered, Response, Returns, PC, inferior, history
<1>26. CASE RecordAnswered
  BY <1>1, <1>3, <1>26, Messages DEF RecordAnswered, Response, Asks, PC, inferior, history
<1>27. CASE UNCHANGED vars
  BY <1>27 DEF vars, inferior, queues, bridge, history
<1> QED
  BY <1>6, <1>7, <1>8, <1>9, <1>10, <1>12, <1>13, <1>14, <1>15, <1>16, <1>17, <1>18,
     <1>19, <1>20, <1>21, <1>22, <1>23, <1>24, <1>25, <1>26, <1>27
  DEF Next, Gdb, Worker

----------------------------------------------------------------------------
(* The end of the program, also after waits that were given up             *)

LEMMA EndStep == TypeOK /\ EndIsFinal /\ [Next]_vars => EndIsFinal'
<1> SUFFICES ASSUME TypeOK, EndIsFinal, [Next]_vars, "console" \notin disturbed'
             PROVE  /\ \A i \in DOMAIN input' : input'[i].cmd # "rerun"
                    /\ \A i \in DOMAIN output' : output'[i].type = "exited" => life' = "dead"
                    /\ exited' => life' = "dead"
  BY DEF EndIsFinal
<1> DEFINE Sober == /\ \A i \in DOMAIN input : input[i].cmd # "rerun"
                    /\ \A i \in DOMAIN output : output[i].type = "exited" => life = "dead"
                    /\ exited => life = "dead"
           Goal == /\ \A i \in DOMAIN input' : input'[i].cmd # "rerun"
                   /\ \A i \in DOMAIN output' : output'[i].type = "exited" => life' = "dead"
                   /\ exited' => life' = "dead"
<1>1. "console" \notin disturbed => Sober
  BY DEF EndIsFinal
<1>2. input \in Seq(Command) /\ output \in Seq(Record)
  BY DEF TypeOK
<1>3. ASSUME Sober, input # << >>
      PROVE  \A i \in DOMAIN Tail(input) : Tail(input)[i].cmd # "rerun"
  BY <1>2, <1>3
<1>4. ASSUME Sober, NEW c \in Command, c.cmd # "rerun"
      PROVE  \A i \in DOMAIN Append(input, c) : Append(input, c)[i].cmd # "rerun"
  BY <1>2, <1>4
<1>5. ASSUME NEW r \in Record, Sober, life' = "dead" \/ life' = life, r.type = "exited" => life' = "dead"
      PROVE  \A i \in DOMAIN Append(output, r) :
               Append(output, r)[i].type = "exited" => life' = "dead"
  BY <1>2, <1>5
<1>6. CASE ServeExec
  <2>1. Sober
    BY <1>1, <1>6 DEF ServeExec
  <2>2. Head(input).cmd # "rerun"
    BY <1>2, <1>6, <2>1 DEF ServeExec
  <2>3. CASE UNCHANGED life
    <3>1. output' = Append(output, [type |-> "error"])
      BY <1>6, <2>3 DEF ServeExec, Emits
    <3> QED
      BY <1>3, <1>5, <1>6, <2>1, <2>3, <3>1, Messages DEF ServeExec, bridge
  <2>4. CASE life # "dead" /\ life' # life
    <3>1. \A i \in DOMAIN output : output[i].type # "exited"
      BY <2>1, <2>4
    <3>2. [type |-> "running"] \in Record /\ output' = Append(output, [type |-> "running"])
      BY <1>6, <2>4, Messages DEF ServeExec, Emits
    <3>3. \A i \in DOMAIN output' : output'[i].type # "exited"
      BY <1>2, <3>1, <3>2
    <3> QED
      BY <1>3, <1>6, <2>1, <2>4, <3>3 DEF ServeExec, bridge
  <2> QED
    BY <1>6, <2>2, <2>3, <2>4 DEF ServeExec
<1>7. CASE ServeSet
  BY <1>1, <1>3, <1>5, <1>7, Messages DEF ServeSet, Emits, bridge, history
<1>8. CASE ServeQuery
  <2>1. PICK answer \in Answers(Head(input)) : output' = Append(output, answer)
    BY <1>8 DEF ServeQuery, Emits
  <2>2. answer \in Record /\ answer.type # "exited"
    BY <1>2, <1>8, <2>1, AnswerIsRecord DEF ServeQuery
  <2> QED
    BY <1>1, <1>3, <1>5, <1>8, <2>1, <2>2 DEF ServeQuery, bridge, history, inferior
<1>9. CASE InferiorStops
  <2>1. Sober /\ output' = Append(output, [type |-> "stopped"]) /\ life = "running"
    BY <1>1, <1>9 DEF InferiorStops, Emits, history
  <2>2. [type |-> "stopped"] \in Record
    BY Messages
  <2>3. \A i \in DOMAIN output' : output'[i].type # "exited"
    BY <1>2, <2>1, <2>2
  <2> QED
    BY <1>9, <2>1, <2>3 DEF InferiorStops, bridge
<1>10. CASE InferiorExits
  BY <1>1, <1>10 DEF InferiorExits, bridge, history
<1>11. ASSUME NEW o, NEW c \in {"exec", "record", "set", "regs", "look"}, NEW next,
              Call(o, [cmd |-> c], next), Sober
       PROVE  Goal
  BY <1>4, <1>11, Messages DEF Call, Asks, inferior
<1>12. CASE \E o \in {"step", "continue"} : Execute(o)
  BY <1>1, <1>11, <1>12 DEF Execute
<1>13. CASE Refuse
  BY <1>1, <1>13 DEF Refuse, inferior, queues, history
<1>14. CASE StepBack
  BY <1>1, <1>11, <1>14 DEF StepBack
<1>15. CASE ReadState
  BY <1>1, <1>11, <1>15 DEF ReadState
<1>16. CASE SetRegister
  BY <1>1, <1>11, <1>16 DEF SetRegister
<1>17. CASE GdbCommand
  BY <1>1, <1>11, <1>17 DEF GdbCommand
<1>18. CASE ExecAnswered
  <2>1. Sober
    BY <1>1, <1>18 DEF ExecAnswered, history
  <2>2. exited' => life = "dead"
    <3> DEFINE seen == Those({"stopped", "exited", "error"})
    <3>1. CASE seen # {} /\ output[First(seen)].type = "exited"
      <4>1. seen \in SUBSET (1 .. Len(output)) /\ Len(output) \in Nat
        BY <1>2 DEF Those
      <4>2. First(seen) \in seen
        BY <3>1, <4>1, FirstExists
      <4>3. First(seen) \in DOMAIN output
        BY <4>2 DEF Those
      <4> QED
        BY <2>1, <3>1, <4>3
    <3>2. CASE seen = {} \/ output[First(seen)].type # "exited"
      <4>1. exited' = exited
        BY <1>18, <3>2 DEF ExecAnswered, Raises, TypeOK
      <4> QED
        BY <2>1, <4>1
    <3> QED
      BY <3>1, <3>2
  <2>3. \A i \in DOMAIN input' : input'[i].cmd # "rerun"
    <3>1. UNCHANGED input \/ input' = Append(input, [cmd |-> "regs"])
      BY <1>18 DEF ExecAnswered, Raises, AsksRegs, Asks
    <3> QED
      BY <1>4, <2>1, <3>1, Messages
  <2> QED
    BY <1>18, <2>2, <2>3 DEF ExecAnswered, Response, inferior
<1>19. ASSUME NEW c \in Command, c.cmd # "rerun", Sober,
              input' = Append(input, c), output' \in {output, << >>},
              UNCHANGED <<life, exited>>
       PROVE  Goal
  BY <1>4, <1>19
<1>20. CASE Deadline
  BY <1>1, <1>19, <1>20, Messages DEF Deadline, AsksRegs, Asks, inferior
<1>21. CASE TimedOut
  BY <1>1, <1>19, <1>21, Messages DEF TimedOut, Raises, Asks, inferior
<1>22. CASE SetAnswered
  BY <1>1, <1>19, <1>22, Messages
  DEF SetAnswered, Response, AsksRegs, Asks, inferior, history
<1>23. CASE ConsoleAnswered
  BY <1>1, <1>23 DEF ConsoleAnswered, Response, inferior, history
<1>24. CASE RegsAnswered
  <2>1. Rsp # 0 => [cmd |-> "mem", from |-> Rsp] \in Command
    BY Parsed, Messages
  <2>2. PICK c \in Command : c.cmd # "rerun" /\ input' = Append(input, c)
    BY <1>24, <2>1, Messages DEF RegsAnswered, AsksFrame, Asks
  <2>3. Sober
    BY <1>1, <1>24 DEF RegsAnswered, history
  <2> QED
    BY <1>19, <1>24, <2>2, <2>3 DEF RegsAnswered, Response, inferior
<1>25. CASE MemAnswered
  BY <1>1, <1>19, <1>25, Messages
  DEF MemAnswered, Response, AsksFrame, Asks, inferior, history
<1>26. CASE FrameAnswered
  BY <1>1, <1>26 DEF FrameAnswered, Response, inferior, history
<1>27. CASE RecordAnswered
  BY <1>1, <1>19, <1>27, Messages DEF RecordAnswered, Response, Asks, inferior, history
<1>28. CASE UNCHANGED vars
  BY <1>1, <1>28 DEF vars, inferior, queues, bridge, history
<1> QED
  BY <1>6, <1>7, <1>8, <1>9, <1>10, <1>12, <1>13, <1>14, <1>15, <1>16, <1>17, <1>18,
     <1>20, <1>21, <1>22, <1>23, <1>24, <1>25, <1>26, <1>27, <1>28
  DEF Next, Gdb, Worker

----------------------------------------------------------------------------
(* Calm histories                                                          *)

CalmInv == InTurn /\ Informed /\ HighlightIsCause

\* What GDB answers in a calm history.
LEMMA CalmAnswers ==
  /\ Answers([cmd |-> "look"]) = {[type |-> "done"]}
  /\ life = "dead" =>
       /\ Answers([cmd |-> "regs"]) = {[type |-> "error"]}
       /\ Answers([cmd |-> "frame"]) = {[type |-> "error"]}
  /\ life # "dead" =>
       /\ Answers([cmd |-> "regs"]) = {[type |-> "regs", rsp |-> sp]}
       /\ Answers([cmd |-> "frame"]) = {[type |-> "frame", line |-> at]}
       /\ \A a : Answers([cmd |-> "mem", from |-> a]) = Memory(a)
BY DEF Answers

LEMMA AnswersKeep ==
  ASSUME UNCHANGED inferior
  PROVE  /\ \A c \in {"record", "look", "regs", "frame"} :
              Answers([cmd |-> c])' = Answers([cmd |-> c])
         /\ Answers([cmd |-> "mem", from |-> sp])' = Answers([cmd |-> "mem", from |-> sp])
<1>1. UNCHANGED <<life, at, sp, bytes>>
  BY DEF inferior
<1> QED
  BY <1>1 DEF Answers, Memory

LEMMA Appended == \A q, r : Append(<<q>>, r) = <<q, r>>
<1> TAKE q, r
<1>1. <<q>> \in Seq({q, r}) /\ Len(<<q>>) = 1 /\ <<q>>[1] = q
  OBVIOUS
<1>2. /\ Append(<<q>>, r) \in Seq({q, r}) /\ Len(Append(<<q>>, r)) = 2
      /\ Append(<<q>>, r)[1] = q /\ Append(<<q>>, r)[2] = r
  BY <1>1
<1>3. /\ <<q, r>> \in Seq({q, r}) /\ Len(<<q, r>>) = 2
      /\ <<q, r>>[1] = q /\ <<q, r>>[2] = r
  OBVIOUS
<1> DEFINE s == Append(<<q>>, r)
           t == <<q, r>>
<1>4. \A i \in 1 .. 2 : s[i] = t[i]
  BY <1>2, <1>3
<1> HIDE DEF s, t
<1>5. s = t
  <2>1. s \in Seq({q, r}) /\ t \in Seq({q, r}) /\ Len(s) = 2 /\ Len(t) = 2
    BY <1>2, <1>3 DEF s, t
  <2> QED
    BY <1>4, <2>1, SeqEqual
<1> QED
  BY <1>5 DEF s, t

\* StackOf looks at the stack and at whether memory can be read.
LEMMA StackOfKeeps ==
  ASSUME UNCHANGED <<sp, bytes, stack>>
  PROVE  StackOf(sp)' <=> StackOf(sp)
BY DEF StackOf

LEMMA CalmServe ==
  ASSUME TypeOK, InTurn, Informed, HighlightIsCause, Gdb
  PROVE  CalmInv'
<1>1. CASE ServeExec
  <2>1. pc = "exec" /\ input = << [cmd |-> "exec"] >> /\ output = << >> /\ life # "running"
    BY <1>1 DEF ServeExec, InTurn, Quiet, Conversation, Asked, Running, TypeOK, PC
  <2>2. /\ input' = << >>
        /\ UNCHANGED <<at, sp, bytes, pc, op, pre_ip, exited, cur_ip, prev_rsp, stack, reply>>
    BY <1>1, <2>1 DEF ServeExec, bridge
  <2>3. Asked /\ Settled /\ reply.kind = "none" /\ (exited <=> life = "dead")
    BY <2>1 DEF Informed, Settled, Asked
  <2>4. CASE output' = << [type |-> "error"] >> /\ UNCHANGED <<life, cause>>
    <3>1. Asked' /\ Settled'
      BY <2>1, <2>2, <2>4 DEF Asked, Settled
    <3>2. InTurn'
      BY <2>1, <2>2, <3>1 DEF InTurn
    <3>3. Informed'
      BY <2>1, <2>2, <2>3, <2>4, <3>1, StackOfKeeps DEF Informed
    <3> QED
      BY <2>2, <2>3, <3>2, <3>3 DEF CalmInv, HighlightIsCause
  <2>5. CASE /\ output' = << [type |-> "running"] >> /\ life' = "running"
             /\ cause' = at /\ life # "dead"
    <3>1. ~ exited /\ (op = "step" => pre_ip = at)
      BY <2>1, <2>3, <2>5 DEF Informed
    <3>2. ~ Asked' /\ ~ Settled'
      BY <2>1, <2>2, <2>5 DEF Asked, Settled
    <3> QED
      BY <2>1, <2>2, <2>3, <2>5, <3>1, <3>2
      DEF CalmInv, InTurn, Running, Informed, HighlightIsCause
  <2> QED
    BY <1>1, <2>1, <2>4, <2>5 DEF ServeExec, Emits
<1>2. CASE ServeSet
  <2>1. pc = "set" /\ input = << [cmd |-> "set"] >> /\ output = << >> /\ life # "running"
    BY <1>2 DEF ServeSet, InTurn, Quiet, Conversation, Asked, Running, TypeOK, PC
  <2>2. /\ input' = << >> /\ UNCHANGED <<life, cause>>
        /\ UNCHANGED <<pc, op, pre_ip, exited, cur_ip, prev_rsp, stack, reply>>
        /\ \E answer \in [type : {"done", "error"}] : output' = << answer >>
    BY <1>2, <2>1 DEF ServeSet, Emits, bridge, history
  <2>3. ~ Settled /\ ~ Settled'
    BY <2>1, <2>2 DEF Settled
  <2>4. InTurn'
    BY <2>1, <2>2 DEF InTurn, Conversation
  <2> QED
    BY <2>1, <2>2, <2>3, <2>4 DEF CalmInv, Informed, HighlightIsCause
<1>3. CASE ServeQuery
  <2>1. /\ pc \in {"record", "console", "regs", "mem", "frame"}
        /\ output = << >> /\ life # "running"
        /\ pc = "record" => input = << [cmd |-> "record"] >>
        /\ pc = "console" => input = << [cmd |-> "look"] >>
        /\ pc = "regs" => input = << [cmd |-> "regs"] >>
        /\ pc = "mem" => input = << [cmd |-> "mem", from |-> sp] >> /\ life = "stopped"
        /\ pc = "frame" => input = << [cmd |-> "frame"] >>
    BY <1>3 DEF ServeQuery, InTurn, Quiet, Conversation, Asked, Running, TypeOK, PC
  <2>2. /\ input' = << >>
        /\ UNCHANGED inferior /\ UNCHANGED <<life, at, sp, bytes, cause>>
        /\ UNCHANGED <<pc, op, pre_ip, exited, cur_ip, prev_rsp, stack, reply>>
    BY <1>3, <2>1 DEF ServeQuery, bridge, history, inferior
  <2>3. \E answer \in Answers(Head(input)) : output' = << answer >>
    BY <1>3, <2>1 DEF ServeQuery, Emits
  <2>4. Settled' <=> Settled
    BY <2>1, <2>2 DEF Settled
  <2>5. Informed' /\ HighlightIsCause'
    BY <2>1, <2>2, <2>4, StackOfKeeps DEF Informed, HighlightIsCause
  <2>6. InTurn'
    <3>1. CASE pc = "record"
      BY <2>1, <2>2, <2>3, <3>1, AnswersKeep DEF InTurn, Conversation
    <3>2. CASE pc = "console"
      BY <2>1, <2>2, <2>3, <3>2, AnswersKeep DEF InTurn, Conversation
    <3>3. CASE pc = "regs"
      BY <2>1, <2>2, <2>3, <3>3, AnswersKeep DEF InTurn, Conversation
    <3>4. CASE pc = "mem"
      BY <2>1, <2>2, <2>3, <3>4, AnswersKeep DEF InTurn, Conversation
    <3>5. CASE pc = "frame"
      BY <2>1, <2>2, <2>3, <3>5, AnswersKeep DEF InTurn, Conversation
    <3> QED
      BY <2>1, <3>1, <3>2, <3>3, <3>4, <3>5
  <2> QED
    BY <2>5, <2>6 DEF CalmInv
<1> QED
  BY <1>1, <1>2, <1>3 DEF Gdb

LEMMA CalmInferior ==
  ASSUME TypeOK, InTurn, Informed, HighlightIsCause, InferiorStops \/ InferiorExits
  PROVE  CalmInv'
<1>1. /\ pc \in {"exec", "wait"} /\ life = "running"
      /\ pc = "exec" => Running(<< [type |-> "running"] >>)
      /\ pc = "wait" => Running(<< >>)
  BY DEF InferiorStops, InferiorExits, InTurn, Quiet, Conversation, Asked, Running, TypeOK, PC
<1>2. /\ input = << >> /\ ~ exited /\ (op = "step" => cause = pre_ip)
      /\ output = IF pc = "exec" THEN << [type |-> "running"] >> ELSE << >>
  BY <1>1 DEF Running
<1>3. UNCHANGED <<input, pc, op, pre_ip, exited, cur_ip, prev_rsp, stack, reply, cause>>
  BY DEF InferiorStops, InferiorExits, bridge, history
<1>4. \/ life' = "stopped" /\ output' = Append(output, [type |-> "stopped"])
      \/ life' = "dead" /\ output' = Append(output, [type |-> "exited"])
  BY DEF InferiorStops, InferiorExits, Emits
<1>5. InTurn'
  <2>1. CASE pc = "exec"
    BY <1>2, <1>3, <1>4, <2>1 DEF InTurn, Running
  <2>2. CASE pc = "wait"
    BY <1>2, <1>3, <1>4, <2>2 DEF InTurn, Running
  <2> QED
    BY <1>1, <2>1, <2>2
<1>6. ~ Settled /\ ~ Settled' /\ ~ (pc = "exec" /\ Asked)'
  <2>1. CASE pc = "exec"
    <3>1. output' # << >> /\ output' # << [type |-> "error"] >>
      BY <1>2, <1>4, <2>1, Appended
    <3> QED
      BY <1>1, <1>3, <2>1, <3>1 DEF Settled, Asked
  <2>2. CASE pc = "wait"
    BY <1>3, <2>2 DEF Settled
  <2> QED
    BY <1>1, <2>1, <2>2
<1>7. Informed' /\ HighlightIsCause'
  <2>1. /\ pc' = "exec" /\ op' = "step" => pre_ip' = cur_ip'
        /\ stack' # NoStack => stack'.base = prev_rsp' /\ stack'.from >= prev_rsp'
        /\ reply'.kind = "none"
    BY <1>1, <1>3 DEF Informed
  <2> QED
    BY <1>1, <1>3, <1>6, <2>1 DEF Informed, HighlightIsCause
<1> QED
  BY <1>5, <1>7 DEF CalmInv

\* A response in a calm history is the one answer that was due.
LEMMA CalmResponse ==
  ASSUME TypeOK, InTurn, Response
  PROVE  /\ input = << >>
         /\ pc \in {"record", "set", "console", "regs", "mem", "frame"} => life # "running"
         /\ pc = "regs" => \E a \in Answers([cmd |-> "regs"]) : output = << a >>
         /\ pc = "mem" => /\ life = "stopped"
                          /\ \E a \in Answers([cmd |-> "mem", from |-> sp]) : output = << a >>
         /\ pc = "frame" => \E a \in Answers([cmd |-> "frame"]) : output = << a >>
         /\ pc = "exec" =>
              \/ Asked /\ output = << [type |-> "error"] >>
              \/ Running(<< [type |-> "running"] >>)
         /\ pc = "wait" => Running(<< >>)
<1>1. output # << >> /\ (input = << >> \/ life = "running")
  BY DEF Response
<1>2. CASE pc = "idle"
  BY <1>1, <1>2 DEF InTurn, Quiet
<1>3. CASE pc = "exec"
  BY <1>1, <1>3 DEF InTurn, Running, Asked
<1>4. CASE pc = "wait"
  BY <1>1, <1>4 DEF InTurn, Running
<1>5. ASSUME NEW c, NEW A, Conversation(c, A)
      PROVE  input = << >> /\ life # "running" /\ \E a \in A : output = << a >>
  BY <1>1, <1>5 DEF Conversation
<1>6. CASE pc = "set"
  BY <1>5, <1>6 DEF InTurn
<1>7. CASE pc = "console"
  BY <1>5, <1>7 DEF InTurn
<1>8. CASE pc = "regs"
  BY <1>5, <1>8 DEF InTurn
<1>9. CASE pc = "mem"
  BY <1>5, <1>9 DEF InTurn
<1>10. CASE pc = "frame"
  BY <1>5, <1>10 DEF InTurn
<1>11. CASE pc = "record"
  BY <1>5, <1>11 DEF InTurn
<1> QED
  BY <1>2, <1>3, <1>4, <1>6, <1>7, <1>8, <1>9, <1>10, <1>11 DEF TypeOK, PC

LEMMA CalmExecAnswered ==
  ASSUME TypeOK, InTurn, Informed, HighlightIsCause, ExecAnswered
  PROVE  CalmInv'
<1> DEFINE seen == Those({"stopped", "exited", "error"})
           news == IF seen = {} THEN "none" ELSE output[First(seen)].type
<1>1. /\ pc \in {"exec", "wait"} /\ input = << >> /\ output' = << >> /\ reply.kind = "none"
      /\ UNCHANGED <<life, at, sp, bytes, cause, op, pre_ip, cur_ip, prev_rsp, stack>>
  BY CalmResponse
  DEF ExecAnswered, Response, Raises, Informed, inferior, history
<1>2. stack # NoStack => stack.base = prev_rsp /\ stack.from >= prev_rsp
  BY <1>1 DEF Informed
<1>3. CASE pc = "exec" /\ Asked /\ output = << [type |-> "error"] >>
  <2>1. news = "error"
    BY <1>3, OneRecord
  <2>2. pc' = "idle" /\ reply' = [kind |-> "raised"] /\ UNCHANGED <<input, exited>>
    BY <1>3, <2>1 DEF ExecAnswered, Raises, Returns
  <2>3. /\ Settled /\ life # "running" /\ (exited <=> life = "dead")
        /\ life = "dead" \/ cur_ip = at
        /\ life = "dead" \/ (prev_rsp = sp /\ StackOf(sp))
    BY <1>3 DEF Informed, Settled, Asked
  <2> QED
    BY <1>1, <1>2, <2>2, <2>3, StackOfKeeps
    DEF CalmInv, InTurn, Quiet, Informed, Settled, HighlightIsCause
<1>4. CASE pc = "exec" /\ Running(<< [type |-> "running"] >>)
           /\ life = "running"
  <2>1. news = "none"
    BY <1>4, OneRecord DEF Running
  <2>2. pc' = "wait" /\ UNCHANGED <<input, exited, reply>>
    BY <2>1 DEF ExecAnswered
  <2> QED
    BY <1>1, <1>2, <1>4, <2>2
    DEF CalmInv, InTurn, Running, Informed, Settled, HighlightIsCause
<1>5. ASSUME ~ exited, op = "step" => cause = pre_ip,
             \/ life = "stopped" /\ news = "stopped"
             \/ life = "dead" /\ news = "exited"
      PROVE  CalmInv'
  <2>1. exited' <=> life = "dead"
    BY <1>5 DEF ExecAnswered, TypeOK
  <2>2. CASE op = "continue" /\ life = "dead"
    <3>1. pc' = "idle" /\ reply' = [kind |-> "finished"] /\ UNCHANGED input
      BY <1>5, <2>1, <2>2 DEF ExecAnswered, Returns
    <3> QED
      BY <1>1, <1>2, <2>1, <2>2, <3>1 DEF CalmInv, InTurn, Quiet, Informed, HighlightIsCause
  <2>3. CASE ~ (op = "continue" /\ life = "dead")
    <3>1. pc' = "regs" /\ input' = Append(input, [cmd |-> "regs"]) /\ UNCHANGED reply
      BY <1>5, <2>1, <2>3 DEF ExecAnswered, AsksRegs, Asks
    <3>2. input' = << [cmd |-> "regs"] >>
      BY <1>1, <3>1
    <3>3. InTurn'
      BY <1>1, <1>5, <3>1, <3>2 DEF InTurn, Conversation
    <3> QED
      BY <1>1, <1>2, <1>5, <2>1, <3>1, <3>3
      DEF CalmInv, Informed, Settled, HighlightIsCause
  <2> QED
    BY <2>2, <2>3
<1>6. CASE pc = "exec" /\ Running(<< [type |-> "running"] >>) /\ life # "running"
  <2>1. CASE life = "stopped" /\ output = Append(<< [type |-> "running"] >>, [type |-> "stopped"])
    <3>1. output = << [type |-> "running"], [type |-> "stopped"] >>
      BY <2>1, Appended
    <3>2. news = "stopped"
      BY <3>1, TwoRecords
    <3> QED
      BY <1>5, <1>6, <2>1, <3>2 DEF Running
  <2>2. CASE life = "dead" /\ output = Append(<< [type |-> "running"] >>, [type |-> "exited"])
    <3>1. output = << [type |-> "running"], [type |-> "exited"] >>
      BY <2>2, Appended
    <3>2. news = "exited"
      BY <3>1, TwoRecords
    <3> QED
      BY <1>5, <1>6, <2>2, <3>2 DEF Running
  <2> QED
    BY <1>6, <2>1, <2>2 DEF Running
<1>7. CASE pc = "wait"
  <2>1. Running(<< >>) /\ output # << >>
    BY <1>7, CalmResponse DEF ExecAnswered, Response
  <2>2. CASE life = "stopped" /\ output = Append(<< >>, [type |-> "stopped"])
    <3>1. output = << [type |-> "stopped"] >>
      BY <2>2
    <3>2. news = "stopped"
      BY <3>1, OneRecord
    <3> QED
      BY <1>5, <2>1, <2>2, <3>2 DEF Running
  <2>3. CASE life = "dead" /\ output = Append(<< >>, [type |-> "exited"])
    <3>1. output = << [type |-> "exited"] >>
      BY <2>3
    <3>2. news = "exited"
      BY <3>1, OneRecord
    <3> QED
      BY <1>5, <2>1, <2>3, <3>2 DEF Running
  <2> QED
    BY <2>1, <2>2, <2>3 DEF Running
<1>8. pc = "exec" =>
        \/ Asked /\ output = << [type |-> "error"] >>
        \/ Running(<< [type |-> "running"] >>)
  BY CalmResponse DEF ExecAnswered
<1> QED
  BY <1>1, <1>3, <1>4, <1>6, <1>7, <1>8

LEMMA CalmRegsAnswered ==
  ASSUME TypeOK, InTurn, Informed, HighlightIsCause, RegsAnswered
  PROVE  CalmInv'
<1>1. /\ pc = "regs" /\ input = << >> /\ output' = << >> /\ life # "running"
      /\ \E a \in Answers([cmd |-> "regs"]) : output = << a >>
      /\ prev_rsp' = Rsp
      /\ UNCHANGED <<life, at, sp, bytes, cause, op, pre_ip, exited, cur_ip, reply>>
  BY CalmResponse DEF RegsAnswered, Response, inferior, history
<1>2. /\ reply.kind = "none" /\ (exited <=> life = "dead") /\ (op = "step" => cause = pre_ip)
      /\ stack # NoStack => stack.base = prev_rsp /\ stack.from >= prev_rsp
  BY <1>1 DEF Informed
<1>3. life # "dead" => Rsp = sp
  <2> SUFFICES ASSUME life # "dead" PROVE Rsp = sp
    OBVIOUS
  <2>1. output = << [type |-> "regs", rsp |-> sp] >>
    BY <1>1, CalmAnswers
  <2>2. Those({"regs"}) = {1} /\ Last({1}) = 1
    BY <2>1, OneRecord
  <2> QED
    BY <2>1, <2>2 DEF Rsp
<1>4. life = "dead" => Rsp = 0
  <2> SUFFICES ASSUME life = "dead" PROVE Rsp = 0
    OBVIOUS
  <2>1. output = << [type |-> "error"] >>
    BY <1>1, CalmAnswers
  <2>2. Those({"regs"}) = {}
    BY <2>1, OneRecord
  <2> QED
    BY <2>2 DEF Rsp
<1>5. life \in {"stopped", "dead"}
  BY <1>1 DEF TypeOK
<1>6. CASE pc' = "mem"
  <2>1. /\ Rsp # 0 /\ UNCHANGED stack
        /\ input' = Append(input, [cmd |-> "mem", from |-> Rsp])
    BY <1>6 DEF RegsAnswered, Asks, AsksFrame
  <2>2. life = "stopped" /\ Rsp = sp /\ input' = << [cmd |-> "mem", from |-> sp] >>
    BY <1>1, <1>3, <1>4, <1>5, <2>1
  <2>3. InTurn'
    BY <1>1, <1>6, <2>2 DEF InTurn, Conversation
  <2> QED
    BY <1>1, <1>2, <1>6, <2>1, <2>2, <2>3 DEF CalmInv, Informed, Settled, HighlightIsCause
<1>7. CASE pc' = "frame"
  <2>1. /\ input' = Append(input, [cmd |-> "frame"])
        /\ \/ Rsp = 0 /\ stack' = NoStack
           \/ Rsp = prev_rsp /\ stack # NoStack /\ UNCHANGED stack
    BY <1>7 DEF RegsAnswered, Asks, AsksFrame
  <2>2. input' = << [cmd |-> "frame"] >>
    BY <1>1, <2>1
  <2>3. stack' # NoStack => stack'.base = prev_rsp' /\ stack'.from >= prev_rsp'
    BY <1>1, <1>2, <2>1
  <2>4. life = "dead" \/ (prev_rsp' = sp /\ StackOf(sp)')
    BY <1>1, <1>3, <2>1, <2>3 DEF StackOf
  <2>5. InTurn'
    BY <1>1, <1>7, <2>2 DEF InTurn, Conversation
  <2>6. Informed'
    BY <1>1, <1>2, <1>7, <2>3, <2>4 DEF Informed, Settled
  <2> QED
    BY <1>1, <1>2, <2>5, <2>6 DEF CalmInv, HighlightIsCause
<1> QED
  BY <1>6, <1>7 DEF RegsAnswered, Asks, AsksFrame

\* What is found in the response to a memory read at rsp.
LEMMA MemoryFound ==
  ASSUME TypeOK, \E a \in Memory(sp) : output = << a >>
  PROVE  \/ Those({"mem"}) = {} /\ bytes = NoMemory
         \/ /\ Those({"mem"}) # {}
            /\ output[First(Those({"mem"}))].from \in Address
            /\ output[First(Those({"mem"}))].from >= sp
<1>1. PICK a \in Memory(sp) : output = << a >>
  OBVIOUS
<1>2. sp \in Nat /\ sp \in Address /\ \A b \in Address : b \in Nat
  BY SpAssumption DEF TypeOK
<1>3. CASE a = [type |-> "error"] /\ bytes = NoMemory
  BY <1>1, <1>3, OneRecord
<1>4. CASE a.type = "mem" /\ a.from \in Address /\ a.from >= sp
  <2>1. Those({"mem"}) = {1} /\ First({1}) = 1
    BY <1>1, <1>4, OneRecord
  <2> QED
    BY <1>1, <1>4, <2>1
<1> QED
  BY <1>1, <1>2, <1>3, <1>4 DEF Memory, TypeOK

LEMMA CalmMemAnswered ==
  ASSUME TypeOK, InTurn, Informed, HighlightIsCause, MemAnswered
  PROVE  CalmInv'
<1>1. /\ pc = "mem" /\ input = << >> /\ output' = << >> /\ life = "stopped"
      /\ \E a \in Answers([cmd |-> "mem", from |-> sp]) : output = << a >>
      /\ pc' = "frame" /\ input' = Append(input, [cmd |-> "frame"])
      /\ UNCHANGED <<life, at, sp, bytes, cause, op, pre_ip, exited, cur_ip, prev_rsp, reply>>
  BY CalmResponse DEF MemAnswered, Response, AsksFrame, Asks, inferior, history
<1>2. /\ reply.kind = "none" /\ ~ exited /\ (op = "step" => cause = pre_ip)
      /\ prev_rsp = sp
  BY <1>1 DEF Informed
<1>3. \E a \in Memory(sp) : output = << a >>
  BY <1>1, CalmAnswers
<1>4. \/ stack' = NoStack /\ bytes = NoMemory
      \/ stack' # NoStack /\ stack'.base = sp /\ stack'.from >= sp
  <2>1. CASE Those({"mem"}) = {}
    BY <1>3, <2>1, MemoryFound DEF MemAnswered
  <2>2. CASE Those({"mem"}) # {}
    <3> DEFINE m == output[First(Those({"mem"}))]
    <3>1. m.from >= sp
      BY <1>3, <2>2, MemoryFound
    <3>2. stack' = [base |-> sp, from |-> m.from, bytes |-> m.bytes]
      BY <1>2, <2>2 DEF MemAnswered
    <3>3. stack' # NoStack /\ stack'.base = sp /\ stack'.from = m.from
      BY <3>2 DEF NoStack
    <3> QED
      BY <3>1, <3>3
  <2> QED
    BY <2>1, <2>2
<1>5. StackOf(sp)'
  BY <1>1, <1>4 DEF StackOf
<1>6. input' = << [cmd |-> "frame"] >>
  BY <1>1
<1>7. InTurn'
  BY <1>1, <1>6 DEF InTurn, Conversation
<1>8. Informed'
  BY <1>1, <1>2, <1>4, <1>5 DEF Informed, Settled
<1> QED
  BY <1>1, <1>2, <1>7, <1>8 DEF CalmInv, HighlightIsCause

LEMMA CalmFrameAnswered ==
  ASSUME TypeOK, InTurn, Informed, HighlightIsCause, FrameAnswered
  PROVE  CalmInv'
<1>1. /\ pc = "frame" /\ input = << >> /\ output' = << >> /\ life # "running"
      /\ \E a \in Answers([cmd |-> "frame"]) : output = << a >>
      /\ pc' = "idle" /\ cur_ip' = FrameLine
      /\ reply' = [kind |-> "snapshot", ip |-> IF op = "step" THEN pre_ip ELSE FrameLine]
      /\ UNCHANGED <<life, at, sp, bytes, cause, input, op, pre_ip, exited, prev_rsp, stack>>
  BY CalmResponse DEF FrameAnswered, Response, Returns, inferior, history
<1>2. /\ exited <=> life = "dead"
      /\ op = "step" => cause = pre_ip
      /\ stack # NoStack => stack.base = prev_rsp /\ stack.from >= prev_rsp
      /\ life = "dead" \/ (prev_rsp = sp /\ StackOf(sp))
  BY <1>1 DEF Informed
<1>3. life = "dead" \/ FrameLine = at
  <2> SUFFICES ASSUME life # "dead" PROVE FrameLine = at
    OBVIOUS
  <2>1. output = << [type |-> "frame", line |-> at] >>
    BY <1>1, CalmAnswers
  <2>2. Those({"regs", "mem", "frame", "error"}) = {1} /\ First({1}) = 1
    BY <2>1, OneRecord
  <2> QED
    BY <2>1, <2>2 DEF FrameLine
<1>4. InTurn'
  BY <1>1 DEF InTurn, Quiet
<1>5. Informed'
  BY <1>1, <1>2, <1>3, StackOfKeeps DEF Informed
<1> QED
  BY <1>1, <1>2, <1>4, <1>5 DEF CalmInv, HighlightIsCause

LEMMA CalmSetAnswered ==
  ASSUME TypeOK, InTurn, Informed, HighlightIsCause, SetAnswered
  PROVE  CalmInv'
<1>1. /\ pc = "set" /\ input = << >> /\ output' = << >> /\ life # "running"
      /\ pc' = "regs" /\ input' = Append(input, [cmd |-> "regs"])
      /\ UNCHANGED <<life, cause, op, pre_ip, exited, cur_ip, prev_rsp, stack, reply>>
  BY CalmResponse DEF SetAnswered, Response, AsksRegs, Asks, inferior, history
<1>2. input' = << [cmd |-> "regs"] >>
  BY <1>1
<1>3. InTurn'
  BY <1>1, <1>2 DEF InTurn, Conversation
<1>4. Informed'
  BY <1>1 DEF Informed, Settled
<1> QED
  BY <1>1, <1>3, <1>4 DEF CalmInv, Informed, HighlightIsCause

\* After `record full`, granted or refused, the reverse step is asked for.
LEMMA CalmRecordAnswered ==
  ASSUME TypeOK, InTurn, Informed, HighlightIsCause, RecordAnswered
  PROVE  CalmInv'
<1>1. /\ pc = "record" /\ input = << >> /\ output' = << >> /\ life # "running"
      /\ pc' = "exec" /\ input' = Append(input, [cmd |-> "exec"])
      /\ UNCHANGED <<life, at, sp, bytes, cause>>
      /\ UNCHANGED <<op, pre_ip, exited, cur_ip, prev_rsp, stack, reply>>
  BY CalmResponse DEF RecordAnswered, Response, Asks, inferior, history
<1>2. input' = << [cmd |-> "exec"] >>
  BY <1>1
<1>3. Settled /\ op = "back"
  BY <1>1 DEF Settled, Informed
<1>4. Asked' /\ Settled'
  BY <1>1, <1>2 DEF Asked, Settled
<1>5. InTurn'
  BY <1>1, <1>4 DEF InTurn
<1>6. Informed'
  BY <1>1, <1>3, <1>4, StackOfKeeps DEF Informed
<1> QED
  BY <1>1, <1>3, <1>5, <1>6 DEF CalmInv, Informed, HighlightIsCause

LEMMA CalmStep ==
  TypeOK /\ (Calm => InTurn /\ Informed) /\ HighlightIsCause /\ [Next]_vars
    => (Calm' => CalmInv')
<1> SUFFICES ASSUME TypeOK, Calm => InTurn /\ Informed, HighlightIsCause, [Next]_vars, Calm'
             PROVE  CalmInv'
  OBVIOUS
<1>1. Calm
  BY DEF Next, Gdb, Worker, ServeExec, ServeSet, ServeQuery, InferiorStops,
     InferiorExits, Execute, Refuse, StepBack, ReadState, SetRegister,
     GdbCommand, ExecAnswered, Deadline, TimedOut, SetAnswered,
     RecordAnswered, ConsoleAnswered, RegsAnswered, MemAnswered, FrameAnswered,
     Call, vars, history, Calm, TypeOK
<1>2. InTurn /\ Informed
  BY <1>1
<1>3. \A c : Append(<< >>, c) = <<c>>
  OBVIOUS
<1>4. CASE Gdb
  BY <1>2, <1>4, CalmServe
<1>5. CASE InferiorStops \/ InferiorExits
  BY <1>2, <1>5, CalmInferior
<1>6. ASSUME NEW o \in Op, NEW c \in {"exec", "record", "set", "regs", "look"}, NEW next,
             Call(o, [cmd |-> c], next),
             \/ c = "exec" /\ next = "exec" /\ (o \in {"step", "continue"} => ~ exited)
             \/ c = "record" /\ next = "record" /\ o = "back"
             \/ c = "set" /\ next = "set" /\ o = "set"
             \/ c = "regs" /\ next = "regs" /\ o = "read"
             \/ c = "look" /\ next = "console" /\ o = "console"
      PROVE  CalmInv'
  <2>1. /\ pc = "idle" /\ input' = Append(input, [cmd |-> c]) /\ pc' = next /\ op' = o
        /\ pre_ip' = cur_ip /\ reply' = [kind |-> "none"]
        /\ UNCHANGED inferior
        /\ UNCHANGED <<life, at, sp, bytes, output, exited, cur_ip, prev_rsp, stack, cause>>
    BY <1>6 DEF Call, Asks, inferior
  <2>2. input = << >> /\ output = << >> /\ life # "running"
    BY <1>2, <2>1 DEF InTurn, Quiet
  <2>3. input' = << [cmd |-> c] >>
    BY <1>3, <2>1, <2>2
  <2>4. Settled /\ (next = "exec" => Asked')
    BY <1>6, <2>1, <2>2, <2>3 DEF Settled, Asked
  <2>5. InTurn'
    BY <1>6, <2>1, <2>2, <2>3, <2>4 DEF InTurn, Conversation
  <2>6. Informed'
    BY <1>2, <1>6, <2>1, <2>4, StackOfKeeps DEF Informed, Settled
  <2> QED
    BY <2>1, <2>5, <2>6 DEF CalmInv, HighlightIsCause
<1>7. CASE \E o \in {"step", "continue"} : Execute(o)
  BY <1>6, <1>7 DEF Execute, Op
<1>8. CASE Refuse
  <2>1. /\ pc = "idle" /\ pc' = "idle" /\ reply' = [kind |-> "refused"]
        /\ UNCHANGED <<life, at, sp, bytes, input, output, cause>>
        /\ UNCHANGED <<op, pre_ip, exited, cur_ip, prev_rsp, stack>>
    BY <1>8 DEF Refuse, Returns, inferior, queues, history
  <2>2. InTurn'
    BY <1>2, <2>1 DEF InTurn, Quiet
  <2>3. Informed'
    BY <1>2, <2>1, StackOfKeeps DEF Informed, Settled
  <2> QED
    BY <2>1, <2>2, <2>3 DEF CalmInv, HighlightIsCause
<1>9. CASE StepBack
  BY <1>6, <1>9 DEF StepBack, Op
<1>10. CASE ReadState
  BY <1>6, <1>10 DEF ReadState, Op
<1>11. CASE SetRegister
  BY <1>6, <1>11 DEF SetRegister, Op
<1>12. CASE GdbCommand
  <2>1. disturbed' = {}
    BY DEF Calm
  <2>2. Call("console", [cmd |-> "look"], "console")
    BY <1>12, <2>1 DEF GdbCommand
  <2> QED
    BY <1>6, <2>2 DEF Op
<1>13. CASE Deadline \/ TimedOut
  BY <1>13 DEF Deadline, TimedOut, Calm
<1>14. CASE ConsoleAnswered
  <2>1. /\ pc = "console" /\ pc' = "idle" /\ output' = << >> /\ reply' = [kind |-> "console"]
        /\ input = << >> /\ life # "running"
        /\ UNCHANGED <<life, at, sp, bytes, input, cause>>
        /\ UNCHANGED <<op, pre_ip, exited, cur_ip, prev_rsp, stack>>
    BY <1>2, <1>14, CalmResponse DEF ConsoleAnswered, Returns, Response, inferior, history
  <2>2. InTurn'
    BY <2>1 DEF InTurn, Quiet
  <2>3. Informed'
    BY <1>2, <2>1, StackOfKeeps DEF Informed, Settled
  <2> QED
    BY <2>1, <2>2, <2>3 DEF CalmInv, HighlightIsCause
<1>15. CASE ExecAnswered \/ SetAnswered \/ RecordAnswered \/ RegsAnswered \/ MemAnswered
            \/ FrameAnswered
  BY <1>2, <1>15, CalmExecAnswered, CalmSetAnswered, CalmRecordAnswered, CalmRegsAnswered,
     CalmMemAnswered, CalmFrameAnswered
<1>16. CASE UNCHANGED vars
  <2>1. /\ UNCHANGED inferior /\ UNCHANGED <<life, at, sp, bytes, input, output, cause>>
        /\ UNCHANGED <<pc, op, pre_ip, exited, cur_ip, prev_rsp, stack, reply>>
    BY <1>16 DEF vars, inferior, queues, bridge, history
  <2>2. (Asked' <=> Asked) /\ (Settled' <=> Settled)
    BY <2>1 DEF Asked, Settled
  <2>3. InTurn'
    BY <1>2, <2>1, <2>2, AnswersKeep DEF InTurn, Quiet, Conversation, Running
  <2>4. Informed'
    BY <1>2, <2>1, <2>2, StackOfKeeps DEF Informed
  <2>5. HighlightIsCause'
    BY <1>1, <2>1 DEF HighlightIsCause, Calm
  <2> QED
    BY <2>3, <2>4, <2>5 DEF CalmInv
<1> QED
  BY <1>4, <1>5, <1>7, <1>8, <1>9, <1>10, <1>11, <1>12, <1>13, <1>14, <1>15, <1>16
  DEF Next, Worker

----------------------------------------------------------------------------
(* Theorems                                                                *)

\* Every variable stays within its type, whatever GDB answers and whenever
\* the bridge gives up.
THEOREM TypeCorrect == Spec => []TypeOK
<1> QED
  BY InitType, TypeStep, PTL DEF Spec

\* The invariant that carries the rest.
THEOREM Inductive == Spec => []IInv
<1>1. Init => IInv
  <2> SUFFICES ASSUME Init PROVE IInv
    OBVIOUS
  <2>1. TypeOK
    BY InitType
  <2>2. EndIsFinal
    <3>1. /\ input = << [cmd |-> "regs"] >> /\ output = << >>
          /\ exited => life = "dead"
      BY DEF Init
    <3> QED
      BY <3>1 DEF EndIsFinal
  <2>3. Calm => InTurn /\ Informed
    <3>1. /\ Calm => life # "running"
          /\ pc = "regs" /\ input = << [cmd |-> "regs"] >> /\ output = << >>
          /\ op = "read" /\ reply.kind = "none" /\ stack = NoStack
          /\ exited <=> life = "dead"
      BY DEF Init, Calm
    <3>2. Calm => InTurn
      BY <3>1 DEF InTurn, Conversation
    <3>3. Informed
      BY <3>1 DEF Informed, Settled
    <3> QED
      BY <3>2, <3>3
  <2>4. HighlightIsCause
    BY DEF Init, HighlightIsCause
  <2> QED
    BY <2>1, <2>2, <2>3, <2>4 DEF IInv
<1>2. IInv /\ [Next]_vars => IInv'
  <2> SUFFICES ASSUME IInv, [Next]_vars PROVE IInv'
    OBVIOUS
  <2>1. TypeOK' /\ EndIsFinal'
    BY TypeStep, EndStep DEF IInv
  <2>2. Calm' => CalmInv'
    BY CalmStep DEF IInv
  <2>3. HighlightIsCause'
    BY <2>2 DEF CalmInv, HighlightIsCause
  <2> QED
    BY <2>1, <2>2, <2>3 DEF IInv, CalmInv
<1> QED
  BY <1>1, <1>2, PTL DEF Spec

\* The line a step shows is the one whose execution changed the registers,
\* after any sequence of steps, continues, reverse steps and register writes,
\* granted or refused by GDB.
THEOREM HighlightsAreCauses == Spec => []HighlightIsCause
<1>1. IInv => HighlightIsCause
  BY DEF IInv
<1> QED
  BY <1>1, Inductive, PTL

\* Between two methods the bridge knows whether its program has ended; a
\* command refused on a live program is told from an end.
THEOREM ExitKnown == Spec => []ExitIsKnown
<1>1. IInv => ExitIsKnown
  BY DEF IInv, Informed, ExitIsKnown
<1> QED
  BY <1>1, Inductive, PTL

\* No end is invented, also after waits that were given up.
THEOREM ExitNotInvented == Spec => []ExitIsNotInvented
<1>1. IInv => ExitIsNotInvented
  BY DEF IInv, EndIsFinal, ExitIsNotInvented
<1> QED
  BY <1>1, Inductive, PTL

\* The stack on display between two methods is that of rsp, and there is none
\* only where rsp is 0 or nothing can be read.
THEOREM StackIsAtRsp == Spec => []StackFollowsRsp
<1>1. IInv => StackFollowsRsp
  BY DEF IInv, Informed, Settled, StackFollowsRsp
<1> QED
  BY <1>1, Inductive, PTL

\* A calm history leaves no answer for the next method to read, whichever
\* commands were refused.
THEOREM InStepBetweenMethods == Spec => []InStep
<1>1. IInv => InStep
  BY DEF IInv, InTurn, Quiet, InStep
<1> QED
  BY <1>1, Inductive, PTL
============================================================================
