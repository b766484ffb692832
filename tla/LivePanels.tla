----------------------------- MODULE LivePanels -----------------------------
(***************************************************************************)
(* What the workbench remembers about a live session outside the snapshots: *)
(* the breakpoints of the gutter (App.tsx), and the answers that the         *)
(* security, memory, console and evaluation panels show; against the         *)
(* endpoint of backend/app/main.py and the table of gdb_bridge.py.           *)
(*                                                                         *)
(* The two channels of a WebSocket are ordered.  Answers are told apart by  *)
(* the connection that asked; breakpoints set or deleted by commands of the *)
(* console are left aside, and so are watchpoints, whose removal is never   *)
(* sent (their id is not filled in).                                        *)
(***************************************************************************)
EXTENDS Naturals, Sequences

CONSTANTS Line,           \* of the source
          Tool,           \* answers a panel shows as they come
          Query,          \* answers an effect of App.tsx keeps in a panel
          Always,         \* what may be asked for without a connection
          MaxUp,          \* bound: messages sent and not served, when one more is sent
          MaxDown,        \* bound: answers made and not delivered
          MaxConnections, \* bound: sockets made
          MaxInserted     \* bound: breakpoints of GDB at a line, when one more is inserted

ASSUME MaxUpAssumption   == MaxUp \in Nat \ {0}
ASSUME MaxDownAssumption == MaxDown \in Nat \ {0}
ASSUME MaxConnectionsAssumption == MaxConnections \in Nat
ASSUME MaxInsertedAssumption == MaxInserted \in Nat \ {0}

VARIABLES
  connection,   \* number of the socket in ws.current
  socket,       \* "none", "connecting" or "open"
  breakpoints,  \* breakpoints of App.tsx
  results,      \* the connection whose answer the hook holds, of each kind
  kept,         \* the connections whose answers a panel keeps, 0 for the local ones
  up,           \* messages on their way to the endpoint
  down,         \* answers on their way to the browser
  session,      \* what session_id of the endpoint leads to
  table,        \* lines in _breakpoints of the bridge
  inserted,     \* how many breakpoints GDB has at a line
  doubt         \* history: lines the session was not told of, or something failed for

panels   == <<connection, socket, breakpoints, results, kept>>
endpoint == <<session, table, inserted, doubt>>
vars     == <<panels, up, down, endpoint>>

Kind == Tool \cup Query

Message ==
  [type : {"run", "reset"}] \cup [type : {"add", "remove"}, line : Line] \cup [type : {"ask"}, kind : Kind]

TypeOK ==
  /\ connection \in Nat
  /\ socket \in {"none", "connecting", "open"}
  /\ breakpoints \subseteq Line
  /\ results \in [Kind -> Nat]
  /\ kept \in [Query -> SUBSET Nat]
  /\ up \in Seq(Message)
  /\ down \in Seq([kind : Kind, connection : Nat])
  /\ session \in {"none", "alive", "gone"}
  /\ table \subseteq Line
  /\ inserted \in [Line -> Nat]
  /\ doubt \subseteq Line

Init ==
  /\ connection = 0
  /\ socket = "none"
  /\ breakpoints = {}
  /\ results = [kind \in Kind |-> 0]
  /\ kept = [kind \in Query |-> {}]
  /\ up = << >>
  /\ down = << >>
  /\ session = "none"
  /\ table = {}
  /\ inserted = [line \in Line |-> 0]
  /\ doubt = {}

----------------------------------------------------------------------------
(* The browser                                                             *)

\* A message for a socket that is not open is dropped.
Room == socket = "open" => Len(up) < MaxUp

Send(msg) == up' = IF socket = "open" THEN Append(up, msg) ELSE up

\* Mutant: the answers of the tools outlive their connection.
Connect_KeepsResults ==
  /\ connection < MaxConnections
  /\ connection' = connection + 1
  /\ socket' = "connecting"
  /\ up' = << >> /\ down' = << >>
  /\ session' = "none" /\ table' = {} /\ inserted' = [line \in Line |-> 0] /\ doubt' = {}
  /\ UNCHANGED <<breakpoints, results, kept>>

\* Build & Run.  The old socket's handlers are detached and the hook's answers
\* cleared; the breakpoints and what the panels keep survive.
Connect ==
  /\ connection < MaxConnections
  /\ connection' = connection + 1
  /\ socket' = "connecting"
  /\ results' = [kind \in Kind |-> 0]
  /\ up' = << >> /\ down' = << >>
  /\ session' = "none" /\ table' = {} /\ inserted' = [line \in Line |-> 0] /\ doubt' = {}
  /\ UNCHANGED <<breakpoints, kept>>

Opened ==
  /\ socket = "connecting"
  /\ socket' = "open"
  /\ up' = << [type |-> "run"] >>
  /\ UNCHANGED <<connection, breakpoints, results, kept, down, endpoint>>

\* The endpoint destroys the session it held.
Closed ==
  /\ socket # "none"
  /\ socket' = "none"
  /\ up' = << >> /\ down' = << >>
  /\ session' = "none" /\ table' = {} /\ inserted' = [line \in Line |-> 0] /\ doubt' = {}
  /\ UNCHANGED <<connection, breakpoints, results, kept>>

\* toggleBreakpoint: the gutter is changed and the message sent, whatever comes of it.
ToggleBreakpoint(line) ==
  /\ Room
  /\ IF line \in breakpoints
     THEN breakpoints' = breakpoints \ {line} /\ Send([type |-> "remove", line |-> line])
     ELSE breakpoints' = breakpoints \cup {line} /\ Send([type |-> "add", line |-> line])
  /\ UNCHANGED <<connection, socket, results, kept, down, endpoint>>

Reset ==
  /\ Room
  /\ Send([type |-> "reset"])
  /\ UNCHANGED <<panels, down, endpoint>>

\* The cards, buttons and fields of the panels.
AskTool(kind) ==
  /\ kind \in Tool
  /\ socket = "open" \/ kind \in Always
  /\ Room
  /\ Send([type |-> "ask", kind |-> kind])
  /\ UNCHANGED <<panels, down, endpoint>>

\* A section is asked for until it is there.
AskSection(kind) ==
  /\ kind \in Query \cap {"section"}
  /\ kept[kind] = {}
  /\ Room
  /\ Send([type |-> "ask", kind |-> kind])
  /\ UNCHANGED <<panels, down, endpoint>>

\* An expression or a command is answered on the spot when there is no connection.
Submit(kind) ==
  /\ kind \in Query \ {"section"}
  /\ Room
  /\ Send([type |-> "ask", kind |-> kind])
  /\ kept' = IF socket = "open" THEN kept ELSE [kept EXCEPT ![kind] = @ \cup {0}]
  /\ UNCHANGED <<connection, socket, breakpoints, results, down, endpoint>>

ClearHistory(kind) ==
  /\ kind \in Query \ {"section"}
  /\ kept' = [kept EXCEPT ![kind] = {}]
  /\ UNCHANGED <<connection, socket, breakpoints, results, up, down, endpoint>>

\* handleMessage: the latest answer of a kind.
Deliver ==
  /\ down # << >>
  /\ results' = [results EXCEPT ![Head(down).kind] = Head(down).connection]
  /\ down' = Tail(down)
  /\ UNCHANGED <<connection, socket, breakpoints, kept, up, endpoint>>

\* The effects that keep an answer.  One that is overwritten before the workbench
\* renders is kept nowhere.
Render(kind) ==
  /\ kind \in Query
  /\ results[kind] # 0
  /\ kept' = [kept EXCEPT ![kind] = IF kind = "section" THEN {results[kind]}
                                    ELSE @ \cup {results[kind]}]
  /\ UNCHANGED <<connection, socket, breakpoints, results, up, down, endpoint>>

Browser == \/ Connect \/ Opened \/ Closed \/ Reset \/ Deliver
           \/ \E line \in Line : ToggleBreakpoint(line)
           \/ \E kind \in Kind : AskTool(kind) \/ AskSection(kind) \/ Submit(kind)
                                 \/ ClearHistory(kind) \/ Render(kind)

----------------------------------------------------------------------------
(* The endpoint                                                            *)

About(line, queue) ==
  { i \in 1..Len(queue) : queue[i].type \in {"add", "remove"} /\ queue[i].line = line }

\* A GDB that has just started has no breakpoint but its own at _start, and will
\* hear only of the lines that messages are on their way about.
NewSession ==
  /\ session' = "alive"
  /\ table' = {} /\ inserted' = [line \in Line |-> 0]
  /\ doubt' = { line \in breakpoints : About(line, up) = {} }

NoSession(left) ==
  /\ session' = left
  /\ table' = {} /\ inserted' = [line \in Line |-> 0]
  /\ UNCHANGED doubt

Run == NewSession \/ NoSession("none")

\* The old session is destroyed first; nothing happens without one.
ResetSession ==
  IF session = "alive" THEN NewSession \/ NoSession("gone") ELSE UNCHANGED endpoint

Doubted(line) == doubt' = doubt \cup {line}

\* add_breakpoint.  GDB refuses, or the answer is not waited for.
AddBreakpoint(line) ==
  /\ UNCHANGED session
  /\ \/ /\ session = "alive"
        /\ inserted[line] < MaxInserted
        /\ inserted' = [inserted EXCEPT ![line] = @ + 1]
        /\ \/ table' = table \cup {line} /\ UNCHANGED doubt
           \/ Doubted(line) /\ UNCHANGED table
     \/ Doubted(line) /\ UNCHANGED <<table, inserted>>

\* Mutant: the number is forgotten, and GDB is not told.
RemoveBreakpoint_TableOnly(line) ==
  table' = table \ {line} /\ UNCHANGED <<session, inserted, doubt>>

\* Mutant: GDB is told to delete whether the table has a number or not.
RemoveBreakpoint_Unchecked(line) ==
  /\ table' = table \ {line}
  /\ inserted' = [inserted EXCEPT ![line] = @ - 1]
  /\ UNCHANGED <<session, doubt>>

\* remove_breakpoint: the number is taken from the table before GDB is told.
RemoveBreakpoint(line) ==
  /\ UNCHANGED session
  /\ \/ /\ session = "alive"
        /\ table' = table \ {line}
        /\ LET deleted == [inserted EXCEPT ![line] = IF line \in table THEN @ - 1 ELSE @]
           IN  \/ inserted' = deleted /\ UNCHANGED doubt
               \/ inserted' \in {inserted, deleted} /\ Doubted(line)
     \/ session # "alive" /\ Doubted(line) /\ UNCHANGED <<table, inserted>>

\* One message is served at a time; a request is answered by data or by an error.
Serve ==
  /\ up # << >>
  /\ up' = Tail(up)
  /\ LET msg == Head(up)
     IN  \/ msg.type = "add" /\ AddBreakpoint(msg.line) /\ UNCHANGED down
         \/ msg.type = "remove" /\ RemoveBreakpoint(msg.line) /\ UNCHANGED down
         \/ msg.type = "run" /\ Run /\ UNCHANGED down
         \/ msg.type = "reset" /\ ResetSession /\ UNCHANGED down
         \/ /\ msg.type = "ask"
            /\ Len(down) < MaxDown
            /\ down' = Append(down, [kind |-> msg.kind, connection |-> connection])
            /\ UNCHANGED endpoint
         \/ msg.type = "ask" /\ UNCHANGED <<down, endpoint>>
  /\ UNCHANGED panels

\* The rate limiter answers an error in the handler's place; its bucket is full
\* when the first message comes.
Refuse ==
  /\ up # << >>
  /\ Head(up).type # "run"
  /\ up' = Tail(up)
  /\ doubt' = IF Head(up).type \in {"add", "remove"} THEN doubt \cup {Head(up).line} ELSE doubt
  /\ UNCHANGED <<panels, down, session, table, inserted>>

\* Another connection's create_session evicts the session, or it was idle.
Evict ==
  /\ session = "alive"
  /\ NoSession("gone")
  /\ UNCHANGED <<panels, up, down>>

Next == Browser \/ Serve \/ Refuse \/ Evict

Spec == Init /\ [][Next]_vars

----------------------------------------------------------------------------
(* Properties                                                              *)

\* The gutter and GDB agree on every line that nothing is on its way about, unless
\* the session started after the line was marked or something failed for it:
\* however often a line is toggled before the messages are served, no breakpoint
\* of the session is left behind, doubled or lost (App.tsx:203-215,
\* gdb_bridge.py:132-152).  A reset or a new connection forgets those marked
\* before: of such a line nothing is claimed while the new session lasts.
BreakpointsAgree ==
  session = "alive" =>
    \A line \in Line \ doubt :
      About(line, up) = {} => inserted[line] = IF line \in breakpoints THEN 1 ELSE 0

\* An answer the hook holds is of the connection shown: one that was on its way
\* when Build & Run was pressed, or came just before it, is not taken for the new
\* program's (useGdbSession.ts:186-213).
ResultsOfConnection == \A kind \in Kind : results[kind] \in {0, connection}
=============================================================================
