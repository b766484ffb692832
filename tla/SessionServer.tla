--------------------------- MODULE SessionServer ---------------------------
(***************************************************************************)
(* The lifecycle of debug sessions in the backend: SessionManager          *)
(* (backend/app/session_manager.py) shared by every WebSocket endpoint     *)
(* (backend/app/main.py).                                                  *)
(*                                                                         *)
(* The endpoints run on one asyncio loop.  A coroutine gives the loop up   *)
(* only where it awaits a worker thread or the socket, so one action below *)
(* is the code between two such points; destroy_session never suspends and *)
(* is always part of a larger action.  A handler that computes without      *)
(* end keeps the loop, and from then on nothing of the server moves.       *)
(***************************************************************************)
EXTENDS Naturals, FiniteSets

CONSTANTS Conn,         \* WebSocket connections that may be open at once
          Sid,          \* session ids; an id nothing refers to counts as new
          MaxSessions,  \* ASMBLE_MAX_SESSIONS
          None          \* Python's None

ASSUME ConnAssumption == IsFiniteSet(Conn)
ASSUME MaxAssumption  == MaxSessions \in Nat \ {0}
ASSUME NoneAssumption == None \notin Sid

VARIABLES
  sessions,    \* keys of SessionManager.sessions
  ahead,       \* ahead[s]: the keys before s in the dict's insertion order
  workdir,     \* sessions whose /tmp/asm-* directory exists
  gdb,         \* sessions whose GDB process and PTY exist
  idle,        \* sessions whose last_activity is past the idle timeout
  lost,        \* history: sessions whose creation raised
  pc,          \* where each endpoint coroutine is suspended
  request,     \* the handler that creates a session, while it does
  session_id,  \* websocket_endpoint's session_id
  handling,    \* the `session` local of the running handler
  socket,      \* whether the client still holds its end open
  running,     \* between lifespan's startup and shutdown
  blocked      \* a handler keeps the event loop for ever

manager == <<sessions, ahead, workdir, gdb, idle, lost>>
endpoint == <<pc, request, session_id, handling, socket>>
server == <<manager, endpoint, running>>
vars == <<server, blocked>>

PC == {"closed",      \* no connection
       "receive",     \* await ws.receive_json()
       "assembling",  \* to_thread(session._assemble_sync)
       "starting",    \* to_thread(session.start_debug)
       "opening",     \* from create_session's return to the handler's
       "command"}     \* to_thread(session.<bridge method>)

TypeOK ==
  /\ sessions \subseteq Sid
  /\ ahead \in [Sid -> SUBSET Sid]
  /\ workdir \subseteq Sid
  /\ gdb \subseteq Sid
  /\ idle \subseteq Sid
  /\ lost \subseteq Sid
  /\ pc \in [Conn -> PC]
  /\ request \in [Conn -> {"none", "assemble", "reset"}]
  /\ session_id \in [Conn -> Sid \cup {None}]
  /\ handling \in [Conn -> Sid \cup {None}]
  /\ socket \in [Conn -> {"open", "closed"}]
  /\ running \in BOOLEAN
  /\ blocked \in BOOLEAN

Init ==
  /\ sessions = {}
  /\ ahead = [s \in Sid |-> {}]
  /\ workdir = {}
  /\ gdb = {}
  /\ idle = {}
  /\ lost = {}
  /\ pc = [c \in Conn |-> "closed"]
  /\ request = [c \in Conn |-> "none"]
  /\ session_id = [c \in Conn |-> None]
  /\ handling = [c \in Conn |-> None]
  /\ socket = [c \in Conn |-> "closed"]
  /\ running = TRUE
  /\ blocked = FALSE

----------------------------------------------------------------------------
(* The session manager                                                     *)

\* Connections between the capacity check and the insertion in `sessions`.
InFlight == {c \in Conn : pc[c] \in {"assembling", "starting"}}

\* Mutant: an id is new as soon as the table has forgotten it.
Unused_Recycled(s) == s \notin sessions \cup workdir \cup gdb

\* uuid4: no live object carries the id.
Unused(s) ==
  /\ s \notin sessions \cup workdir \cup gdb
  /\ \A c \in Conn : session_id[c] # s /\ handling[c] # s

\* next(iter(self.sessions)) on the keys that remain
Oldest(keys) == {s \in keys : ahead[s] \cap keys = {}}

\* Mutant: one session too many before anything is evicted.
Evicted_OffByOne(keys) ==
  IF Cardinality(keys) > MaxSessions THEN {{s} : s \in Oldest(keys)} ELSE {{}}

\* Mutant: dict.popitem() takes the newest entry.
Evicted_Newest(keys) ==
  IF Cardinality(keys) >= MaxSessions
  THEN {{s} : s \in {t \in keys : keys \subseteq ahead[t] \cup {t}}} ELSE {{}}

\* What create_session evicts when `keys` are in the dict.
Evicted(keys) ==
  IF Cardinality(keys) >= MaxSessions THEN {{s} : s \in Oldest(keys)} ELSE {{}}

\* Mutant: destroy_session pops the entry and kills GDB, and never removes
\* the directory.
Replace_KeepsDir(D, New, Touched) ==
  /\ sessions' = sessions \ D
  /\ ahead' = [s \in Sid |-> IF s \in D THEN {} ELSE ahead[s] \ D]
  /\ workdir' = workdir \cup New
  /\ gdb' = gdb \ D
  /\ idle' = idle \ (D \cup Touched)
  /\ UNCHANGED lost

\* destroy_session on each of D, then the mkdtemp of the sessions in New and
\* the touch of those in Touched.
Replace(D, New, Touched) ==
  /\ sessions' = sessions \ D
  /\ ahead' = [s \in Sid |-> IF s \in D THEN {} ELSE ahead[s] \ D]
  /\ workdir' = (workdir \ D) \cup New
  /\ gdb' = gdb \ D
  /\ idle' = idle \ (D \cup Touched)
  /\ UNCHANGED lost

Destroy(D) == Replace(D, {}, {})

\* self.sessions[session_id] = session
Insert(s) ==
  /\ sessions' = sessions \cup {s}
  /\ ahead' = [ahead EXCEPT ![s] = sessions]

\* last_activity falls behind: max_idle_secs pass without a touch
GoesIdle(s) ==
  /\ \/ s \in sessions
     \/ \E c \in InFlight : handling[c] = s
  /\ s \notin idle
  /\ idle' = idle \cup {s}
  /\ UNCHANGED <<sessions, ahead, workdir, gdb, lost, endpoint, running>>

\* Mutant: only sessions of connections are looked at.
cleanup_stale_Owned ==
  LET stale == {s \in idle \cap sessions : \E c \in Conn : session_id[c] = s}
  IN /\ running
     /\ stale # {}
     /\ Destroy(stale)
     /\ UNCHANGED <<endpoint, running>>

\* Mutant: idle sessions go only when room is needed.
cleanup_stale_WhenFull ==
  /\ running
  /\ idle \cap sessions # {}
  /\ Cardinality(sessions) >= MaxSessions
  /\ Destroy(idle \cap sessions)
  /\ UNCHANGED <<endpoint, running>>

cleanup_stale ==
  /\ running
  /\ idle \cap sessions # {}
  /\ Destroy(idle \cap sessions)
  /\ UNCHANGED <<endpoint, running>>

----------------------------------------------------------------------------
(* The endpoint                                                            *)

Own(c) == {session_id[c]} \cap sessions

Connect(c) ==
  /\ running
  /\ pc[c] = "closed"
  /\ pc' = [pc EXCEPT ![c] = "receive"]
  /\ socket' = [socket EXCEPT ![c] = "open"]
  /\ UNCHANGED <<manager, request, session_id, handling, running>>

\* The client goes away; the endpoint only learns of it at its next
\* receive or send.
ClientCloses(c) ==
  /\ socket[c] = "open"
  /\ socket' = [socket EXCEPT ![c] = "closed"]
  /\ UNCHANGED <<manager, pc, request, session_id, handling, running>>

\* The handler returns to the main loop with session_id = id.
Resume(c, id) ==
  /\ pc' = [pc EXCEPT ![c] = "receive"]
  /\ request' = [request EXCEPT ![c] = "none"]
  /\ session_id' = [session_id EXCEPT ![c] = id]
  /\ handling' = [handling EXCEPT ![c] = None]
  /\ UNCHANGED <<socket, running>>

\* The endpoint leaves its loop and runs the finally block, which destroys
\* what session_id names.
Leave(c) ==
  /\ Destroy(Own(c))
  /\ pc' = [pc EXCEPT ![c] = "closed"]
  /\ request' = [request EXCEPT ![c] = "none"]
  /\ session_id' = [session_id EXCEPT ![c] = None]
  /\ handling' = [handling EXCEPT ![c] = None]
  /\ socket' = [socket EXCEPT ![c] = "closed"]
  /\ UNCHANGED running

\* A send that meets a closed socket raises, and so does the send that would
\* report the exception.
SendFails(c) == socket[c] = "closed" /\ Leave(c)

\* WebSocketDisconnect, or a "disconnect" message
ReceiveDisconnect(c) ==
  /\ pc[c] = "receive"
  /\ Leave(c)

\* create_session up to the worker thread, after D has been destroyed by the
\* same handler
BeginCreate(c, s, D, kind) ==
  /\ Unused(s)
  /\ \E victim \in Evicted(sessions \ D) : Replace(D \cup victim, {s}, Own(c))
  /\ pc' = [pc EXCEPT ![c] = "assembling"]
  /\ request' = [request EXCEPT ![c] = kind]
  /\ handling' = [handling EXCEPT ![c] = s]
  /\ UNCHANGED <<session_id, socket, running>>

\* "assemble" and "run": the session of an earlier assemble is not destroyed.
ReceiveAssemble(c, s) ==
  /\ pc[c] = "receive"
  /\ socket[c] = "open"
  /\ BeginCreate(c, s, {}, "assemble")

\* "reset" destroys the session, then creates its successor.
ReceiveReset(c, s) ==
  /\ pc[c] = "receive"
  /\ socket[c] = "open"
  /\ session_id[c] \in sessions
  /\ BeginCreate(c, s, {session_id[c]}, "reset")

AssembleSucceeds(c) ==
  /\ pc[c] = "assembling"
  /\ pc' = [pc EXCEPT ![c] = "starting"]
  /\ UNCHANGED <<manager, request, session_id, handling, socket, running>>

\* nasm or ld reports errors: session.cleanup(), and the error is sent to a
\* client that assembled (never to one that reset).
AssembleFails(c) ==
  /\ pc[c] = "assembling"
  /\ workdir' = workdir \ {handling[c]}
  /\ idle' = idle \ {handling[c]}
  /\ UNCHANGED <<sessions, ahead, gdb, lost>>
  /\ Resume(c, session_id[c])

\* _assemble_sync raises (TimeoutExpired) or start_debug raises: nobody runs
\* session.cleanup().
CreateRaises(c) ==
  /\ \/ pc[c] = "assembling" /\ UNCHANGED gdb
     \/ pc[c] = "starting" /\ gdb' \in {gdb, gdb \cup {handling[c]}}
  /\ lost' = lost \cup {handling[c]}
  /\ idle' = idle \ {handling[c]}
  /\ UNCHANGED <<sessions, ahead, workdir>>
  /\ Resume(c, session_id[c])

\* Mutant: published under the endpoint's session_id.
DebugStarted_WrongKey(c) ==
  /\ pc[c] = "starting"
  /\ gdb' = gdb \cup {handling[c]}
  /\ Insert(session_id[c])
  /\ UNCHANGED <<workdir, idle, lost>>
  /\ pc' = [pc EXCEPT ![c] = "opening"]
  /\ UNCHANGED <<request, session_id, handling, socket, running>>

\* start_debug returns, the session is published, and _h_reset (only) adopts
\* it at once.
DebugStarted(c) ==
  /\ pc[c] = "starting"
  /\ gdb' = gdb \cup {handling[c]}
  /\ Insert(handling[c])
  /\ UNCHANGED <<workdir, idle, lost>>
  /\ pc' = [pc EXCEPT ![c] = "opening"]
  /\ session_id' = IF request[c] = "reset"
                   THEN [session_id EXCEPT ![c] = handling[c]] ELSE session_id
  /\ UNCHANGED <<request, handling, socket, running>>

\* _assemble_session returns new_id, or _h_reset its None.
OpenSucceeds(c) ==
  /\ pc[c] = "opening"
  /\ Resume(c, handling[c])
  /\ UNCHANGED manager

\* read_state or continue_exec raises: its error is sent, and a session that
\* was being assembled is not adopted.
OpenRaises(c) ==
  /\ pc[c] = "opening"
  /\ Resume(c, session_id[c])
  /\ UNCHANGED manager

\* Any message answered from session_id's bridge: the handler keeps the
\* session object across the worker thread.
ReceiveCommand(c) ==
  /\ pc[c] = "receive"
  /\ socket[c] = "open"
  /\ session_id[c] \in sessions
  /\ Replace({}, {}, Own(c))
  /\ pc' = [pc EXCEPT ![c] = "command"]
  /\ handling' = [handling EXCEPT ![c] = session_id[c]]
  /\ UNCHANGED <<request, session_id, socket, running>>

CommandDone(c) ==
  /\ pc[c] = "command"
  /\ Resume(c, session_id[c])
  /\ UNCHANGED manager

\* The answer of a handler whose client has gone: what it created stays
\* created.  A failing assembly is cleaned up before the send.
AnswerLost(c) ==
  /\ pc[c] \in {"opening", "command"}
  /\ SendFails(c)

----------------------------------------------------------------------------
(* lifespan: the server stops once its connections have ended              *)

Shutdown ==
  /\ running
  /\ \A c \in Conn : pc[c] = "closed"
  /\ Destroy(sessions)
  /\ running' = FALSE
  /\ UNCHANGED endpoint

Startup ==
  /\ ~running
  /\ running' = TRUE
  /\ UNCHANGED <<manager, endpoint>>

HandlerStep(c) ==
  \/ AssembleSucceeds(c)
  \/ AssembleFails(c)
  \/ CreateRaises(c)
  \/ DebugStarted(c)
  \/ OpenSucceeds(c)
  \/ OpenRaises(c)
  \/ CommandDone(c)
  \/ AnswerLost(c)

\* _h_cyclic and _h_cyclic_find call cyclic() on the loop itself, at once or
\* when pwndbg has had no answer: with an n below 1 it doubles an empty
\* pattern for ever, and with a large one it enumerates 26^n subsequences.
CyclicLoops(c) ==
  /\ ~ blocked
  /\ \/ pc[c] = "receive" /\ socket[c] = "open" /\ session_id[c] \notin sessions
     \/ pc[c] = "command"
  /\ blocked' = TRUE
  /\ UNCHANGED server

\* What runs on the event loop.
LoopStep ==
  \/ \E c \in Conn :
       \/ Connect(c)
       \/ ReceiveDisconnect(c)
       \/ ReceiveCommand(c)
       \/ \E s \in Sid : ReceiveAssemble(c, s) \/ ReceiveReset(c, s)
       \/ HandlerStep(c)
  \/ cleanup_stale
  \/ Shutdown
  \/ Startup

\* The clients and the clock do not wait for it.
Outside ==
  \/ \E c \in Conn : ClientCloses(c)
  \/ \E s \in Sid : GoesIdle(s)

Hung == blocked /\ UNCHANGED vars

Next ==
  \/ ~ blocked /\ LoopStep /\ UNCHANGED blocked
  \/ Outside /\ UNCHANGED blocked
  \/ \E c \in Conn : CyclicLoops(c)
  \/ Hung

Spec == Init /\ [][Next]_vars

----------------------------------------------------------------------------
(* Fairness.  Only while no handler keeps the loop, and only what waits for  *)
(* nobody:                                                                   *)
(*   - a handler whose client has gone: the assemblers run under timeout=10, *)
(*     the bridge's waits are bounded, and a send to a closed socket raises. *)
(*     A client that is there may leave its socket full; and os.write on a   *)
(*     program's full terminal waits while the program's session exists, so  *)
(*     a command is only fair once its session is gone;                      *)
(*   - a closed socket is noticed by the receive that waits for it;          *)
(*   - the clock passes the idle timeout of a session that no client touches *)
(*     any more;                                                             *)
(*   - the cleanup loop wakes every 60 s.                                    *)
(* No client is required to send anything.                                   *)

\* In the table, but no endpoint refers to it.
Orphan(s) ==
  /\ s \in sessions
  /\ \A c \in Conn : session_id[c] # s /\ handling[c] # s

\* No endpoint with a client refers to it.
Unattended(s) ==
  \A c \in Conn : s \in {session_id[c], handling[c]} => socket[c] = "closed"

Turns(A) == ~ blocked /\ A /\ UNCHANGED blocked
Returning(c) ==
  /\ socket[c] = "closed"
  /\ pc[c] = "command" => handling[c] \notin sessions
  /\ HandlerStep(c)
Forgotten(s) == Unattended(s) /\ GoesIdle(s) /\ UNCHANGED blocked

Fairness ==
  /\ \A c \in Conn :
       /\ WF_vars(Turns(Returning(c)))
       /\ WF_vars(Turns(socket[c] = "closed" /\ ReceiveDisconnect(c)))
  /\ \A s \in Sid : WF_vars(Forgotten(s))
  /\ WF_vars(Turns(cleanup_stale))

FairSpec == Spec /\ Fairness

----------------------------------------------------------------------------
(* Properties                                                              *)

\* The sessions being created.
Building == {handling[c] : c \in InFlight}

\* create_session compares len(self.sessions) with max_sessions before two
\* awaits and inserts after them, so the table may outgrow max_sessions; but
\* published and in-flight sessions together never pass max_sessions - 1 by
\* more than one per member of Conn, the most connections ever open at once.
OvershootBound ==
  Cardinality(sessions) + Cardinality(InFlight)
    <= MaxSessions - 1 + Cardinality(Conn)

\* Every published session still has its directory and its GDB: no handler
\* can find in the table a session that eviction, reset, disconnection or
\* idle cleanup already tore down.
PublishedAreAlive == sessions \subseteq workdir \cap gdb

\* A directory or a GDB process belongs to a published session, to one a
\* running create_session will publish or clean up, or to one whose
\* create_session raised.  Nothing else is left behind on the host.
NothingUnaccounted ==
  workdir \cup gdb \subseteq sessions \cup Building \cup lost

\* No two connections ever work on one session, whatever was evicted, reset
\* or left dangling in between.
Users(s) == {c \in Conn : s \in {session_id[c], handling[c]}}
PrivateSessions ==
  \A s \in Sid : \A c, d \in Users(s) : c = d

\* A session leaves the table only for a reason its owner can know of: it was
\* idle, its owner reset it or went away, or the server stopped; otherwise
\* the rest of the table was full, and it alone was evicted as its oldest.
LeavesItself(s) ==
  \/ s \in idle
  \/ ~running'
  \/ \E c \in Conn :
       /\ session_id[c] = s
       /\ \/ pc[c] # "closed" /\ pc'[c] = "closed"
          \/ request[c] # "reset" /\ request'[c] = "reset"
LossIsJustified ==
  LET left    == {s \in sessions \ sessions' : LeavesItself(s)}
      evicted == (sessions \ sessions') \ left
  IN \A s \in evicted :
       /\ evicted = {s}
       /\ Cardinality(sessions \ left) >= MaxSessions
       /\ ahead[s] \subseteq left
OnlyJustifiedLosses == [][LossIsJustified]_vars

\* A session no endpoint refers to any more (a second assemble, a failed
\* opening, an answer lost) is collected in the end, unless a handler keeps the
\* event loop.
OrphansAreCollected == \A s \in Sid : Orphan(s) ~> s \notin sessions \/ blocked

\* Once every client has gone for good the table drains, whichever handlers
\* were in the middle of what, a write to a full terminal included; again
\* unless one of them keeps the event loop.
AbandonedServerDrains ==
  <>[](\A c \in Conn : socket[c] = "closed") => <>[](sessions = {} \/ blocked)

\* The inductive strengthening of the invariants above: what an endpoint
\* suspended at each point holds, and what the capacity bound and the
\* resource accounting rest on.
HandlingFollowsPC ==
  \A c \in Conn : handling[c] = None <=> pc[c] \in {"closed", "receive"}
BuildingIsFresh ==
  \A c \in InFlight :
    /\ handling[c] \in workdir \ (sessions \cup gdb \cup lost)
    /\ session_id[c] # handling[c]
RequestFollowsPC ==
  \A c \in Conn : pc[c] \in {"closed", "receive"} => request[c] = "none"
LostIsUnreachable == lost \subseteq workdir \ sessions

\* `ahead` is the strict total order of a dict's keys.
DictOrder ==
  /\ \A s \in Sid : ahead[s] \subseteq sessions \ {s}
  /\ \A s \in sessions : \A t \in ahead[s] : ahead[t] \subseteq ahead[s]
  /\ \A s, t \in sessions : s = t \/ s \in ahead[t] \/ t \in ahead[s]

IInv ==
  /\ TypeOK
  /\ IsFiniteSet(sessions)
  /\ OvershootBound
  /\ PublishedAreAlive
  /\ NothingUnaccounted
  /\ PrivateSessions
  /\ HandlingFollowsPC
  /\ RequestFollowsPC
  /\ BuildingIsFresh
  /\ LostIsUnreachable
  /\ DictOrder

\* The lifecycle of SessionPool, read off the resources on the host: the
\* stage "broken" is none of the pool's.
Life == [s \in Sid |->
  IF s \notin sessions \cup workdir \cup gdb THEN "absent"
  ELSE IF s \in sessions \cap workdir \cap gdb THEN "live"
  ELSE IF s \in Building \cap workdir THEN "building"
  ELSE IF s \in lost \cap workdir THEN "lost"
  ELSE "broken"]

Pool == INSTANCE SessionPool WITH
  Capacity <- MaxSessions - 1 + Cardinality(Conn), life <- Life

\* The server implements the pool: sessions are built, published and
\* destroyed once, never partly destroyed, and the pool's capacity holds.
ImplementsPool == Pool!Spec

\* docs/ARCHITECTURE.md:276 bounds the simultaneous sessions.
MaxSessionsRespected == Cardinality(sessions) <= MaxSessions
============================================================================
