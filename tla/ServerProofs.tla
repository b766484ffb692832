---------------------------- MODULE ServerProofs ----------------------------
(***************************************************************************)
(* Proofs about the endpoint of backend/app/main.py: its sessions, for any  *)
(* finite set of connections, any set of session ids and any               *)
(* max_sessions >= 1, and its rate limiter, for any burst and rate.        *)
(***************************************************************************)
EXTENDS SessionServer, RateLimiter, FiniteSetTheorems, TLAPS

USE NoneAssumption

----------------------------------------------------------------------------
(* Type correctness                                                        *)

\* Replace keeps the manager's variables well typed.
LEMMA ReplaceType ==
  ASSUME TypeOK, NEW D, NEW New \in SUBSET Sid, NEW Touched, Replace(D, New, Touched)
  PROVE  /\ sessions' \subseteq Sid
         /\ ahead' \in [Sid -> SUBSET Sid]
         /\ workdir' \subseteq Sid
         /\ gdb' \subseteq Sid
         /\ idle' \subseteq Sid
         /\ lost' \subseteq Sid
  BY DEF TypeOK, Replace

\* While a handler holds a session, `handling` is a session id.
LEMMA HandlingType ==
  ASSUME TypeOK, HandlingFollowsPC, NEW c \in Conn, pc[c] \notin {"closed", "receive"}
  PROVE  handling[c] \in Sid
  BY DEF TypeOK, HandlingFollowsPC

LEMMA LeaveType ==
  ASSUME TypeOK, NEW c \in Conn, Leave(c), blocked' \in BOOLEAN
  PROVE  TypeOK'
<1>1. Replace(Own(c), {}, {})
  BY DEF Leave, Destroy
<1>2. {} \in SUBSET Sid
  OBVIOUS
<1> QED
  BY <1>1, <1>2, ReplaceType DEF TypeOK, Leave, PC

LEMMA BeginCreateType ==
  ASSUME TypeOK, NEW c \in Conn, NEW s \in Sid, NEW D,
         NEW kind \in {"assemble", "reset"}, BeginCreate(c, s, D, kind),
         blocked' \in BOOLEAN
  PROVE  TypeOK'
<1>1. PICK victim \in Evicted(sessions \ D) : Replace(D \cup victim, {s}, Own(c))
  BY DEF BeginCreate
<1>2. {s} \in SUBSET Sid
  OBVIOUS
<1> QED
  BY <1>1, <1>2, ReplaceType DEF TypeOK, BeginCreate, PC

\* What the server, its clients and the clock do while nothing keeps the event
\* loop; CyclicLoops and Hung only differ from it in `blocked`.
Step == LoopStep \/ Outside

LEMMA NextIsStep ==
  ASSUME TypeOK, [Next]_vars
  PROVE  [Step]_server /\ blocked' \in BOOLEAN
BY DEF Next, Step, CyclicLoops, Hung, vars, TypeOK

\* Every step keeps every variable within its type.
LEMMA TypeStep ==
  ASSUME TypeOK, HandlingFollowsPC, [Step]_server, blocked' \in BOOLEAN
  PROVE  TypeOK'
<1>1. ASSUME NEW c \in Conn, Connect(c) PROVE TypeOK'
  BY <1>1 DEF Connect, manager, TypeOK, PC
<1>2. ASSUME NEW c \in Conn, ClientCloses(c) PROVE TypeOK'
  BY <1>2 DEF ClientCloses, manager, TypeOK
<1>3. ASSUME NEW c \in Conn, ReceiveDisconnect(c) PROVE TypeOK'
  BY <1>3, LeaveType DEF ReceiveDisconnect
<1>4. ASSUME NEW c \in Conn, ReceiveCommand(c) PROVE TypeOK'
  <2>1. {} \in SUBSET Sid
    OBVIOUS
  <2> QED
    BY <1>4, <2>1, ReplaceType DEF ReceiveCommand, TypeOK, PC
<1>5. ASSUME NEW c \in Conn, NEW s \in Sid, ReceiveAssemble(c, s) PROVE TypeOK'
  BY <1>5, BeginCreateType DEF ReceiveAssemble
<1>6. ASSUME NEW c \in Conn, NEW s \in Sid, ReceiveReset(c, s) PROVE TypeOK'
  BY <1>6, BeginCreateType DEF ReceiveReset
<1>7. ASSUME NEW c \in Conn, HandlerStep(c) PROVE TypeOK'
  <2>1. CASE AssembleSucceeds(c)
    BY <2>1 DEF AssembleSucceeds, manager, TypeOK, PC
  <2>2. CASE AssembleFails(c)
    BY <2>2 DEF AssembleFails, Resume, TypeOK, PC
  <2>3. CASE CreateRaises(c)
    BY <2>3, HandlingType DEF CreateRaises, Resume, TypeOK, PC
  <2>4. CASE DebugStarted(c)
    BY <2>4, HandlingType DEF DebugStarted, Insert, TypeOK, PC
  <2>5. CASE OpenSucceeds(c)
    BY <2>5, HandlingType DEF OpenSucceeds, Resume, manager, TypeOK, PC
  <2>6. CASE OpenRaises(c)
    BY <2>6 DEF OpenRaises, Resume, manager, TypeOK, PC
  <2>7. CASE CommandDone(c)
    BY <2>7 DEF CommandDone, Resume, manager, TypeOK, PC
  <2>8. CASE AnswerLost(c)
    BY <2>8, LeaveType DEF AnswerLost, SendFails
  <2> QED
    BY <1>7, <2>1, <2>2, <2>3, <2>4, <2>5, <2>6, <2>7, <2>8 DEF HandlerStep
<1>8. ASSUME NEW s \in Sid, GoesIdle(s) PROVE TypeOK'
  BY <1>8 DEF GoesIdle, endpoint, TypeOK
<1>9. ASSUME cleanup_stale PROVE TypeOK'
  BY <1>9, ReplaceType DEF cleanup_stale, Destroy, endpoint, TypeOK
<1>10. ASSUME Shutdown PROVE TypeOK'
  BY <1>10, ReplaceType DEF Shutdown, Destroy, endpoint, TypeOK
<1>11. ASSUME Startup PROVE TypeOK'
  BY <1>11 DEF Startup, manager, endpoint, TypeOK
<1>12. ASSUME UNCHANGED server PROVE TypeOK'
  BY <1>12 DEF server, manager, endpoint, TypeOK
<1> QED
  BY <1>1, <1>2, <1>3, <1>4, <1>5, <1>6, <1>7, <1>8, <1>9, <1>10, <1>11, <1>12 DEF Step, LoopStep, Outside

----------------------------------------------------------------------------
(* Resource accounting                                                     *)

\* Everything of IInv but the counting.
Accounted ==
  /\ TypeOK
  /\ PublishedAreAlive
  /\ NothingUnaccounted
  /\ PrivateSessions
  /\ HandlingFollowsPC
  /\ BuildingIsFresh
  /\ LostIsUnreachable

\* Destroying published sessions frees what they hold and touches nothing
\* that another endpoint is building or that was lost.
LEMMA DestroyAccounted ==
  ASSUME Accounted, NEW D \in SUBSET sessions, NEW Touched,
         Replace(D, {}, Touched), Building' = Building
  PROVE  /\ PublishedAreAlive'
         /\ NothingUnaccounted'
         /\ LostIsUnreachable'
  BY DEF Accounted, Replace, PublishedAreAlive, NothingUnaccounted, LostIsUnreachable

\* The finally block of an endpoint that has nothing in flight.
LEMMA LeaveAccounted ==
  ASSUME Accounted, NEW c \in Conn, pc[c] \notin {"assembling", "starting"}, Leave(c),
         blocked' \in BOOLEAN
  PROVE  Accounted'
<1> USE DEF Accounted
<1>1. InFlight' = InFlight /\ \A d \in InFlight : d # c /\ handling'[d] = handling[d]
  BY DEF Leave, InFlight, TypeOK
<1>2. Building' = Building
  BY <1>1 DEF Building
<1>3. Replace(Own(c), {}, {}) /\ Own(c) \in SUBSET sessions
  BY DEF Leave, Destroy, Own
<1>4. PublishedAreAlive' /\ NothingUnaccounted' /\ LostIsUnreachable'
  BY <1>2, <1>3, DestroyAccounted
<1>5. PrivateSessions'
  BY DEF Leave, TypeOK, PrivateSessions, Users
<1>6. HandlingFollowsPC'
  BY DEF Leave, TypeOK, HandlingFollowsPC
<1>7. BuildingIsFresh'
  <2> SUFFICES ASSUME NEW d \in InFlight'
               PROVE  /\ handling'[d] \in workdir' \ (sessions' \cup gdb' \cup lost')
                      /\ session_id'[d] # handling'[d]
    BY DEF BuildingIsFresh
  <2>1. d \in InFlight /\ d \in Conn /\ d # c /\ handling'[d] = handling[d]
    BY <1>1 DEF InFlight
  <2>2. session_id'[d] = session_id[d]
    BY <2>1 DEF Leave, TypeOK
  <2> QED
    BY <1>3, <2>1, <2>2 DEF BuildingIsFresh, Replace, Own
<1> QED
  BY <1>4, <1>5, <1>6, <1>7, LeaveType

\* create_session starts with an id nothing else refers to.
LEMMA BeginCreateAccounted ==
  ASSUME Accounted, NEW c \in Conn, pc[c] = "receive", NEW s \in Sid,
         NEW D \in SUBSET sessions, NEW kind \in {"assemble", "reset"},
         BeginCreate(c, s, D, kind), blocked' \in BOOLEAN
  PROVE  Accounted'
<1> USE DEF Accounted
<1>1. PICK victim \in Evicted(sessions \ D) : Replace(D \cup victim, {s}, Own(c))
  BY DEF BeginCreate
<1>2. D \cup victim \subseteq sessions
  BY <1>1 DEF Evicted, Oldest
<1>3. Unused(s) /\ UNCHANGED session_id
  BY DEF BeginCreate
<1>4. /\ InFlight' = InFlight \cup {c}
      /\ handling'[c] = s
      /\ \A d \in Conn \ {c} : handling'[d] = handling[d]
  BY DEF BeginCreate, InFlight, TypeOK
<1>5. c \notin InFlight /\ InFlight \subseteq Conn
  BY DEF InFlight
<1>6. Building' = Building \cup {s}
  BY <1>4, <1>5 DEF Building
<1>7. PublishedAreAlive' /\ LostIsUnreachable'
  BY <1>1, <1>2, <1>3 DEF PublishedAreAlive, LostIsUnreachable, Replace, Unused
<1>8. NothingUnaccounted'
  BY <1>1, <1>2, <1>6 DEF NothingUnaccounted, Replace
<1>9. PrivateSessions'
  BY <1>3, <1>4 DEF PrivateSessions, Users, Unused
<1>10. HandlingFollowsPC'
  BY DEF BeginCreate, TypeOK, HandlingFollowsPC
<1>11. BuildingIsFresh'
  <2> SUFFICES ASSUME NEW d \in InFlight'
               PROVE  /\ handling'[d] \in workdir' \ (sessions' \cup gdb' \cup lost')
                      /\ session_id'[d] # handling'[d]
    BY DEF BuildingIsFresh
  <2>1. CASE d = c
    BY <2>1, <1>1, <1>3, <1>4 DEF Replace, Unused, LostIsUnreachable
  <2>2. CASE d # c
    BY <2>2, <1>1, <1>2, <1>3, <1>4, <1>5 DEF Replace, BuildingIsFresh
  <2> QED
    BY <2>1, <2>2
<1> QED
  BY <1>7, <1>8, <1>9, <1>10, <1>11, BeginCreateType

\* A handler that hands back to the main loop and is not creating a session.
LEMMA ResumeAccounted ==
  ASSUME Accounted, NEW c \in Conn, pc[c] \notin {"assembling", "starting"},
         NEW id \in {session_id[c], handling[c]}, id \in Sid \cup {None},
         Resume(c, id), UNCHANGED manager, blocked' \in BOOLEAN
  PROVE  Accounted'
<1> USE DEF Accounted
<1>1. TypeOK'
  BY DEF Resume, manager, TypeOK, PC
<1>2. InFlight' = InFlight /\ \A d \in InFlight : d # c
  BY DEF Resume, InFlight, TypeOK
<1>3. \A d \in Conn \ {c} : handling'[d] = handling[d] /\ session_id'[d] = session_id[d]
  BY DEF Resume, TypeOK
<1>4. Building' = Building
  BY <1>2, <1>3 DEF Building, InFlight
<1>5. PublishedAreAlive' /\ NothingUnaccounted' /\ LostIsUnreachable'
  BY <1>4 DEF manager, PublishedAreAlive, NothingUnaccounted, LostIsUnreachable
<1>6. PrivateSessions'
  BY DEF Resume, TypeOK, PrivateSessions, Users
<1>7. HandlingFollowsPC'
  BY DEF Resume, TypeOK, HandlingFollowsPC
<1>8. BuildingIsFresh'
  BY <1>2, <1>3 DEF BuildingIsFresh, manager, InFlight
<1> QED
  BY <1>1, <1>5, <1>6, <1>7, <1>8

\* A create_session that ends without publishing its session: only that
\* session's own resources change hands.
LEMMA CreateEndsAccounted ==
  ASSUME Accounted, NEW c \in InFlight, Resume(c, session_id[c]), UNCHANGED sessions,
         \A t \in Sid \ {handling[c]} :
           /\ t \in workdir' <=> t \in workdir
           /\ t \in gdb' <=> t \in gdb
           /\ t \in lost' <=> t \in lost,
         \/ handling[c] \notin workdir' \cup gdb' /\ handling[c] \notin lost'
         \/ handling[c] \in workdir' \cap lost',
         TypeOK'
  PROVE  Accounted'
<1> USE DEF Accounted
<1>1. c \in Conn /\ pc[c] \in {"assembling", "starting"} /\ handling[c] \in Sid
  BY HandlingType DEF InFlight
<1>2. handling[c] \notin sessions
  BY DEF BuildingIsFresh
<1>3. \A d \in Conn \ {c} : handling'[d] = handling[d] /\ session_id'[d] = session_id[d]
  BY DEF Resume, TypeOK
<1>4. InFlight' = InFlight \ {c}
  BY <1>1 DEF Resume, InFlight, TypeOK
<1>5. \A d \in InFlight \ {c} : handling[d] \in Sid \ {handling[c]}
  <2> TAKE d \in InFlight \ {c}
  <2>1. d \in Conn /\ handling[d] \in Sid
    BY HandlingType DEF InFlight
  <2> QED
    BY <1>1, <2>1 DEF PrivateSessions, Users
<1>6. Building' = Building \ {handling[c]}
  BY <1>3, <1>4, <1>5 DEF Building, InFlight
<1>7. PublishedAreAlive'
  BY <1>2 DEF PublishedAreAlive, TypeOK
<1>8. NothingUnaccounted'
  BY <1>6 DEF NothingUnaccounted, TypeOK
<1>9. LostIsUnreachable'
  BY <1>2 DEF LostIsUnreachable, TypeOK
<1>10. PrivateSessions'
  BY <1>1 DEF Resume, TypeOK, PrivateSessions, Users
<1>11. HandlingFollowsPC'
  BY <1>1 DEF Resume, TypeOK, HandlingFollowsPC
<1>12. BuildingIsFresh'
  BY <1>3, <1>4, <1>5 DEF BuildingIsFresh, InFlight
<1> QED
  BY <1>7, <1>8, <1>9, <1>10, <1>11, <1>12

\* Publishing moves the session from the builder to the table.
LEMMA DebugStartedAccounted ==
  ASSUME Accounted, NEW c \in Conn, DebugStarted(c), TypeOK'
  PROVE  Accounted'
<1> USE DEF Accounted
<1>1. c \in InFlight /\ handling[c] \in Sid
  BY HandlingType DEF DebugStarted, InFlight
<1>2. /\ handling[c] \in workdir /\ handling[c] \notin lost
      /\ sessions' = sessions \cup {handling[c]}
      /\ gdb' = gdb \cup {handling[c]}
      /\ UNCHANGED <<workdir, lost, handling>>
  BY <1>1 DEF BuildingIsFresh, DebugStarted, Insert
<1>3. InFlight' = InFlight \ {c}
  BY DEF DebugStarted, InFlight, TypeOK
<1>4. \A d \in InFlight \ {c} :
        handling[d] # handling[c] /\ session_id'[d] = session_id[d]
  BY <1>1 DEF InFlight, PrivateSessions, Users, DebugStarted, TypeOK
<1>5. Building' = Building \ {handling[c]}
  BY <1>1, <1>2, <1>3, <1>4 DEF Building
<1>6. PublishedAreAlive' /\ NothingUnaccounted' /\ LostIsUnreachable'
  BY <1>2, <1>5 DEF PublishedAreAlive, NothingUnaccounted, LostIsUnreachable
<1>7. PrivateSessions'
  BY <1>1, <1>2 DEF DebugStarted, TypeOK, PrivateSessions, Users
<1>8. HandlingFollowsPC'
  BY <1>2 DEF DebugStarted, TypeOK, HandlingFollowsPC
<1>9. BuildingIsFresh'
  BY <1>2, <1>3, <1>4 DEF BuildingIsFresh
<1> QED
  BY <1>6, <1>7, <1>8, <1>9

\* Every step of a handler keeps the accounts.
LEMMA HandlerAccounted ==
  ASSUME Accounted, TypeOK', NEW c \in Conn, HandlerStep(c)
  PROVE  Accounted'
<1> USE DEF Accounted
<1>0. blocked' \in BOOLEAN
  BY DEF TypeOK
<1>1. CASE AssembleSucceeds(c)
  <2>1. InFlight' = InFlight /\ UNCHANGED <<manager, session_id, handling>>
    BY <1>1 DEF AssembleSucceeds, InFlight, TypeOK
  <2>2. Building' = Building
    BY <2>1 DEF Building
  <2>3. HandlingFollowsPC'
    BY <1>1 DEF AssembleSucceeds, TypeOK, HandlingFollowsPC
  <2> QED
    BY <2>1, <2>2, <2>3 DEF manager, PublishedAreAlive, NothingUnaccounted,
       LostIsUnreachable, PrivateSessions, Users, BuildingIsFresh
<1>2. CASE AssembleFails(c)
  <2>1. c \in InFlight /\ Resume(c, session_id[c])
    BY <1>2 DEF AssembleFails, InFlight
  <2>2. handling[c] \notin gdb \cup lost
    BY <2>1 DEF BuildingIsFresh
  <2>3. workdir' = workdir \ {handling[c]} /\ UNCHANGED <<sessions, gdb, lost>>
    BY <1>2 DEF AssembleFails
  <2> QED
    BY <2>1, <2>2, <2>3, CreateEndsAccounted
<1>3. CASE CreateRaises(c)
  <2>1. c \in InFlight /\ Resume(c, session_id[c])
    BY <1>3 DEF CreateRaises, InFlight
  <2>2. handling[c] \in workdir
    BY <2>1 DEF BuildingIsFresh
  <2>3. /\ lost' = lost \cup {handling[c]}
        /\ gdb' \in {gdb, gdb \cup {handling[c]}}
        /\ UNCHANGED <<sessions, workdir>>
    BY <1>3 DEF CreateRaises
  <2> QED
    BY <2>1, <2>2, <2>3, CreateEndsAccounted
<1>4. CASE DebugStarted(c)
  BY <1>4, DebugStartedAccounted
<1>5. CASE OpenSucceeds(c)
  BY <1>0, <1>5, HandlingType, ResumeAccounted DEF OpenSucceeds
<1>6. CASE OpenRaises(c)
  <2>1. session_id[c] \in Sid \cup {None}
    BY DEF TypeOK
  <2> QED
    BY <1>0, <1>6, <2>1, ResumeAccounted DEF OpenRaises
<1>7. CASE CommandDone(c)
  <2>1. session_id[c] \in Sid \cup {None}
    BY DEF TypeOK
  <2> QED
    BY <1>0, <1>7, <2>1, ResumeAccounted DEF CommandDone
<1>8. CASE AnswerLost(c)
  BY <1>0, <1>8, LeaveAccounted DEF AnswerLost, SendFails
<1> QED
  BY <1>1, <1>2, <1>3, <1>4, <1>5, <1>6, <1>7, <1>8 DEF HandlerStep

\* A step of the manager alone, of the client, or none at all.
LEMMA QuietAccounted ==
  ASSUME Accounted, TypeOK', UNCHANGED <<pc, session_id, handling>>,
         \/ UNCHANGED <<sessions, workdir, gdb, lost>>
         \/ \E D \in SUBSET sessions : Destroy(D)
  PROVE  Accounted'
<1> USE DEF Accounted
<1>1. InFlight' = InFlight
  BY DEF InFlight
<1>2. Building' = Building
  BY <1>1 DEF Building
<1>3. PrivateSessions' /\ HandlingFollowsPC'
  BY DEF PrivateSessions, Users, HandlingFollowsPC
<1>4. PublishedAreAlive' /\ NothingUnaccounted' /\ LostIsUnreachable'
  <2>1. CASE UNCHANGED <<sessions, workdir, gdb, lost>>
    BY <2>1, <1>2 DEF PublishedAreAlive, NothingUnaccounted, LostIsUnreachable
  <2>2. ASSUME NEW D \in SUBSET sessions, Destroy(D)
        PROVE  PublishedAreAlive' /\ NothingUnaccounted' /\ LostIsUnreachable'
    BY <2>2, <1>2, DestroyAccounted DEF Destroy
  <2> QED
    BY <2>1, <2>2
<1>5. BuildingIsFresh'
  BY <1>1 DEF BuildingIsFresh, Destroy, Replace
<1> QED
  BY <1>3, <1>4, <1>5

LEMMA AccountedStep ==
  ASSUME Accounted, [Step]_server, blocked' \in BOOLEAN
  PROVE  Accounted'
<1>0. TypeOK'
  BY TypeStep DEF Accounted
<1>1. ASSUME NEW c \in Conn, Connect(c) PROVE Accounted'
  <2> USE DEF Accounted
  <2>1. InFlight' = InFlight /\ UNCHANGED <<manager, session_id, handling>>
    BY <1>1 DEF Connect, InFlight, TypeOK
  <2>2. Building' = Building
    BY <2>1 DEF Building
  <2>3. HandlingFollowsPC'
    BY <1>1 DEF Connect, TypeOK, HandlingFollowsPC
  <2> QED
    BY <1>0, <2>1, <2>2, <2>3 DEF manager, PublishedAreAlive, NothingUnaccounted,
       LostIsUnreachable, PrivateSessions, Users, BuildingIsFresh
<1>2. ASSUME NEW c \in Conn, ClientCloses(c) PROVE Accounted'
  BY <1>0, <1>2, QuietAccounted DEF ClientCloses, manager
<1>3. ASSUME NEW c \in Conn, ReceiveDisconnect(c) PROVE Accounted'
  BY <1>3, LeaveAccounted DEF ReceiveDisconnect
<1>4. ASSUME NEW c \in Conn, ReceiveCommand(c) PROVE Accounted'
  <2> USE DEF Accounted
  <2>1. InFlight' = InFlight /\ \A d \in InFlight : d # c /\ handling'[d] = handling[d]
    BY <1>4 DEF ReceiveCommand, InFlight, TypeOK
  <2>2. Building' = Building
    BY <2>1 DEF Building
  <2>3. Replace({}, {}, Own(c)) /\ UNCHANGED session_id
    BY <1>4 DEF ReceiveCommand
  <2>4. PublishedAreAlive' /\ NothingUnaccounted' /\ LostIsUnreachable'
    BY <2>2, <2>3, DestroyAccounted
  <2>5. PrivateSessions' /\ HandlingFollowsPC'
    BY <1>4 DEF ReceiveCommand, TypeOK, PrivateSessions, Users, HandlingFollowsPC
  <2>6. BuildingIsFresh'
    BY <2>1, <2>3 DEF BuildingIsFresh, Replace
  <2> QED
    BY <1>0, <2>4, <2>5, <2>6
<1>5. ASSUME NEW c \in Conn, NEW s \in Sid, ReceiveAssemble(c, s) PROVE Accounted'
  BY <1>5, BeginCreateAccounted DEF ReceiveAssemble
<1>6. ASSUME NEW c \in Conn, NEW s \in Sid, ReceiveReset(c, s) PROVE Accounted'
  BY <1>6, BeginCreateAccounted DEF ReceiveReset
<1>7. ASSUME NEW c \in Conn, HandlerStep(c) PROVE Accounted'
  BY <1>0, <1>7, HandlerAccounted
<1>8. ASSUME NEW s \in Sid, GoesIdle(s) PROVE Accounted'
  BY <1>0, <1>8, QuietAccounted DEF GoesIdle, endpoint
<1>9. ASSUME cleanup_stale PROVE Accounted'
  BY <1>0, <1>9, QuietAccounted DEF cleanup_stale, endpoint
<1>10. ASSUME Shutdown PROVE Accounted'
  BY <1>0, <1>10, QuietAccounted DEF Shutdown, endpoint
<1>11. ASSUME Startup PROVE Accounted'
  BY <1>0, <1>11, QuietAccounted DEF Startup, manager, endpoint
<1>12. ASSUME UNCHANGED server PROVE Accounted'
  BY <1>0, <1>12, QuietAccounted DEF server, manager, endpoint
<1> QED
  BY <1>1, <1>2, <1>3, <1>4, <1>5, <1>6, <1>7, <1>8, <1>9, <1>10, <1>11, <1>12 DEF Step, LoopStep, Outside

----------------------------------------------------------------------------
(* Counting                                                                *)

Counted == IsFiniteSet(sessions) /\ OvershootBound

LEMMA InFlightFinite == IsFiniteSet(InFlight) /\ Cardinality(InFlight) <= Cardinality(Conn)
  BY ConnAssumption, FS_Subset DEF InFlight

\* Fewer sessions and fewer creations in flight keep the bound.
LEMMA ShrinkCounted ==
  ASSUME Counted, sessions' \subseteq sessions, InFlight' \subseteq InFlight
  PROVE  Counted'
<1>1. /\ IsFiniteSet(sessions') /\ Cardinality(sessions') <= Cardinality(sessions)
      /\ Cardinality(sessions') \in Nat /\ Cardinality(sessions) \in Nat
  BY FS_Subset, FS_CardinalityType DEF Counted
<1>2. /\ Cardinality(InFlight') <= Cardinality(InFlight)
      /\ Cardinality(InFlight') \in Nat /\ Cardinality(InFlight) \in Nat
  BY InFlightFinite, FS_Subset, FS_CardinalityType
<1>3. Cardinality(Conn) \in Nat
  BY ConnAssumption, FS_CardinalityType
<1> QED
  BY <1>1, <1>2, <1>3, MaxAssumption DEF Counted, OvershootBound

\* Starting a creation: below max_sessions the new one fits in whatever the
\* others do, and at max_sessions it takes the place of an evicted session.
LEMMA BeginCreateCounted ==
  ASSUME Counted, TypeOK, NEW c \in Conn, pc[c] = "receive", NEW s \in Sid,
         NEW D \in SUBSET sessions, NEW kind, BeginCreate(c, s, D, kind)
  PROVE  Counted'
<1>1. PICK victim \in Evicted(sessions \ D) : Replace(D \cup victim, {s}, Own(c))
  BY DEF BeginCreate
<1>2. sessions' = (sessions \ D) \ victim
  BY <1>1 DEF Replace
<1>3. /\ IsFiniteSet(sessions \ D) /\ Cardinality(sessions \ D) <= Cardinality(sessions)
      /\ Cardinality(sessions \ D) \in Nat /\ Cardinality(sessions) \in Nat
  BY FS_Subset, FS_CardinalityType DEF Counted
<1>4. InFlight' = InFlight \cup {c} /\ c \notin InFlight
  BY DEF BeginCreate, InFlight, TypeOK
<1>5. /\ Cardinality(InFlight') = Cardinality(InFlight) + 1
      /\ Cardinality(InFlight) \in Nat
  BY <1>4, InFlightFinite, FS_AddElement, FS_CardinalityType
<1>6. Cardinality(InFlight') <= Cardinality(Conn) /\ Cardinality(Conn) \in Nat
  <2>1. InFlight' \subseteq Conn
    BY DEF InFlight
  <2> QED
    BY <2>1, ConnAssumption, FS_Subset, FS_CardinalityType
<1>7. CASE Cardinality(sessions \ D) >= MaxSessions
  <2>1. PICK v \in sessions \ D : victim = {v}
    BY <1>1, <1>7 DEF Evicted, Oldest
  <2>2. IsFiniteSet(sessions') /\ Cardinality(sessions') = Cardinality(sessions \ D) - 1
    BY <1>2, <1>3, <2>1, FS_RemoveElement
  <2> QED
    BY <1>3, <1>5, <1>6, <2>2, MaxAssumption DEF Counted, OvershootBound
<1>8. CASE ~(Cardinality(sessions \ D) >= MaxSessions)
  <2>1. sessions' = sessions \ D
    BY <1>1, <1>2, <1>8 DEF Evicted
  <2>2. Cardinality(sessions') <= MaxSessions - 1
    BY <1>3, <1>8, <2>1, MaxAssumption
  <2> QED
    BY <1>3, <1>5, <1>6, <2>1, <2>2, MaxAssumption DEF Counted, OvershootBound
<1> QED
  BY <1>7, <1>8

\* Publishing moves one session from one side of the sum to the other.
LEMMA DebugStartedCounted ==
  ASSUME Counted, TypeOK, NEW c \in Conn, DebugStarted(c)
  PROVE  Counted'
<1>1. sessions' = sessions \cup {handling[c]}
  BY DEF DebugStarted, Insert
<1>2. /\ IsFiniteSet(sessions') /\ Cardinality(sessions') <= Cardinality(sessions) + 1
      /\ Cardinality(sessions') \in Nat /\ Cardinality(sessions) \in Nat
  <2>1. IsFiniteSet(sessions) /\ Cardinality(sessions) \in Nat
    BY FS_CardinalityType DEF Counted
  <2>2. /\ IsFiniteSet(sessions')
        /\ Cardinality(sessions') = IF handling[c] \in sessions
             THEN Cardinality(sessions) ELSE Cardinality(sessions) + 1
    BY <1>1, <2>1, FS_AddElement
  <2> QED
    BY <2>1, <2>2
<1>3. InFlight' = InFlight \ {c} /\ c \in InFlight
  BY DEF DebugStarted, InFlight, TypeOK
<1>4. /\ Cardinality(InFlight') = Cardinality(InFlight) - 1
      /\ Cardinality(InFlight) \in Nat
  BY <1>3, InFlightFinite, FS_RemoveElement, FS_CardinalityType
<1>5. Cardinality(Conn) \in Nat
  BY ConnAssumption, FS_CardinalityType
<1> QED
  BY <1>2, <1>4, <1>5, MaxAssumption DEF Counted, OvershootBound

LEMMA CountedStep ==
  ASSUME Counted, TypeOK, [Step]_server
  PROVE  Counted'
<1>1. ASSUME NEW c \in Conn,
             \/ Connect(c) \/ ClientCloses(c) \/ ReceiveDisconnect(c)
             \/ ReceiveCommand(c)
      PROVE  Counted'
  <2>1. sessions' \subseteq sessions /\ InFlight' \subseteq InFlight
    BY <1>1 DEF Connect, ClientCloses, ReceiveDisconnect, ReceiveCommand, Leave,
       Destroy, Replace, manager, InFlight, TypeOK
  <2> QED
    BY <2>1, ShrinkCounted
<1>2. ASSUME NEW c \in Conn, NEW s \in Sid, ReceiveAssemble(c, s) PROVE Counted'
  BY <1>2, BeginCreateCounted DEF ReceiveAssemble
<1>3. ASSUME NEW c \in Conn, NEW s \in Sid, ReceiveReset(c, s) PROVE Counted'
  BY <1>3, BeginCreateCounted DEF ReceiveReset
<1>4. ASSUME NEW c \in Conn, HandlerStep(c) PROVE Counted'
  <2>1. CASE DebugStarted(c)
    BY <2>1, DebugStartedCounted
  <2>2. CASE ~DebugStarted(c)
    <3>1. sessions' \subseteq sessions
      BY <1>4, <2>2 DEF HandlerStep, AssembleSucceeds, AssembleFails, CreateRaises,
         OpenSucceeds, OpenRaises, CommandDone, AnswerLost, SendFails, Leave,
         Destroy, Replace, manager
    <3>2. InFlight' \subseteq InFlight
      BY <1>4, <2>2 DEF HandlerStep, AssembleSucceeds, AssembleFails, CreateRaises,
         OpenSucceeds, OpenRaises, CommandDone, AnswerLost, SendFails, Leave, Resume,
         InFlight, TypeOK
    <3> QED
      BY <3>1, <3>2, ShrinkCounted
  <2> QED
    BY <2>1, <2>2
<1>5. ASSUME \/ \E s \in Sid : GoesIdle(s)
             \/ cleanup_stale \/ Shutdown \/ Startup \/ UNCHANGED server
      PROVE  Counted'
  <2>1. sessions' \subseteq sessions /\ InFlight' \subseteq InFlight
    BY <1>5 DEF GoesIdle, cleanup_stale, Shutdown, Startup, server, Destroy, Replace,
       manager, endpoint, InFlight
  <2> QED
    BY <2>1, ShrinkCounted
<1> QED
  BY <1>1, <1>2, <1>3, <1>4, <1>5 DEF Step, LoopStep, Outside

----------------------------------------------------------------------------
(* The dict's order, and why sessions leave it                             *)

Ordered == TypeOK /\ HandlingFollowsPC /\ BuildingIsFresh /\ RequestFollowsPC /\ DictOrder

\* Deleting keys keeps the order of the others.
LEMMA ReplaceOrdered ==
  ASSUME Ordered, NEW D, NEW New, NEW Touched, Replace(D, New, Touched)
  PROVE  DictOrder'
<1>1. /\ sessions' = sessions \ D
      /\ \A s \in Sid : \A x : x \in ahead'[s] <=> s \notin D /\ x \in ahead[s] /\ x \notin D
  BY DEF Replace
<1>2. sessions \subseteq Sid /\ \A s \in Sid : ahead[s] \subseteq sessions \ {s}
  BY DEF Ordered, TypeOK, DictOrder
<1>3. ASSUME NEW s \in Sid PROVE ahead'[s] \subseteq sessions' \ {s}
  BY <1>1, <1>2
<1>4. ASSUME NEW s \in sessions', NEW t \in ahead'[s] PROVE ahead'[t] \subseteq ahead'[s]
  <2>1. s \in sessions /\ s \in Sid /\ t \in ahead[s] /\ t \in Sid
    BY <1>1, <1>2
  <2>2. ahead[t] \subseteq ahead[s]
    BY <2>1 DEF Ordered, DictOrder
  <2> QED
    BY <1>1, <2>1, <2>2
<1>5. ASSUME NEW s \in sessions', NEW t \in sessions'
      PROVE  s = t \/ s \in ahead'[t] \/ t \in ahead'[s]
  <2>1. s \in sessions \ D /\ t \in sessions \ D
    BY <1>1
  <2>2. s = t \/ s \in ahead[t] \/ t \in ahead[s]
    BY <2>1 DEF Ordered, DictOrder
  <2> QED
    BY <1>1, <1>2, <2>1, <2>2
<1> QED
  BY <1>3, <1>4, <1>5 DEF DictOrder

\* A new key goes last.
LEMMA InsertOrdered ==
  ASSUME Ordered, NEW s \in Sid \ sessions, Insert(s)
  PROVE  DictOrder'
<1>1. /\ sessions' = sessions \cup {s}
      /\ \A t \in Sid : ahead'[t] = IF t = s THEN sessions ELSE ahead[t]
  BY DEF Insert, Ordered, TypeOK
<1> QED
  BY <1>1 DEF Ordered, TypeOK, DictOrder

LEMMA OrderedStep ==
  ASSUME Ordered, [Step]_server
  PROVE  DictOrder' /\ RequestFollowsPC'
<1> USE DEF Ordered
<1>1. ASSUME NEW c \in Conn, NEW s \in Sid, ReceiveAssemble(c, s) \/ ReceiveReset(c, s)
      PROVE  DictOrder' /\ RequestFollowsPC'
  BY <1>1, ReplaceOrdered DEF ReceiveAssemble, ReceiveReset, BeginCreate,
     RequestFollowsPC, TypeOK
<1>2. ASSUME NEW c \in Conn, HandlerStep(c) PROVE DictOrder' /\ RequestFollowsPC'
  <2>1. CASE DebugStarted(c)
    <3>1. handling[c] \in Sid \ sessions
      BY <2>1, HandlingType DEF DebugStarted, BuildingIsFresh, InFlight
    <3> QED
      BY <2>1, <3>1, InsertOrdered DEF DebugStarted, RequestFollowsPC, TypeOK
  <2>2. CASE AnswerLost(c)
    BY <2>2, ReplaceOrdered DEF AnswerLost, SendFails, Leave, Destroy,
       RequestFollowsPC, TypeOK
  <2>3. CASE ~DebugStarted(c) /\ ~AnswerLost(c)
    BY <1>2, <2>3 DEF HandlerStep, AssembleSucceeds, AssembleFails, CreateRaises,
       OpenSucceeds, OpenRaises, CommandDone, Resume, manager, DictOrder,
       RequestFollowsPC, TypeOK
  <2> QED
    BY <2>1, <2>2, <2>3
<1>3. ASSUME NEW c \in Conn, ReceiveDisconnect(c) PROVE DictOrder' /\ RequestFollowsPC'
  BY <1>3, ReplaceOrdered DEF ReceiveDisconnect, Leave, Destroy, RequestFollowsPC, TypeOK
<1>4. ASSUME NEW c \in Conn, ReceiveCommand(c) PROVE DictOrder' /\ RequestFollowsPC'
  BY <1>4, ReplaceOrdered DEF ReceiveCommand, RequestFollowsPC, TypeOK
<1>5. ASSUME NEW c \in Conn, Connect(c) \/ ClientCloses(c)
      PROVE  DictOrder' /\ RequestFollowsPC'
  BY <1>5 DEF Connect, ClientCloses, manager, DictOrder, RequestFollowsPC, TypeOK
<1>6. ASSUME cleanup_stale \/ Shutdown PROVE DictOrder' /\ RequestFollowsPC'
  BY <1>6, ReplaceOrdered DEF cleanup_stale, Shutdown, Destroy, endpoint, RequestFollowsPC
<1>7. ASSUME (\E s \in Sid : GoesIdle(s)) \/ Startup \/ UNCHANGED server
      PROVE  DictOrder' /\ RequestFollowsPC'
  BY <1>7 DEF GoesIdle, Startup, server, manager, endpoint, DictOrder, RequestFollowsPC
<1> QED
  BY <1>1, <1>2, <1>3, <1>4, <1>5, <1>6, <1>7 DEF Step, LoopStep, Outside

----------------------------------------------------------------------------
(* The theorems                                                            *)

LEMMA InitIInv == Init => IInv
<1> SUFFICES ASSUME Init PROVE IInv
  OBVIOUS
<1>1. InFlight = {}
  BY DEF Init, InFlight
<1>2. Cardinality({}) = 0 /\ IsFiniteSet({})
  BY FS_EmptySet
<1>3. Cardinality(Conn) \in Nat
  BY ConnAssumption, FS_CardinalityType
<1>4. OvershootBound
  BY <1>1, <1>2, <1>3, MaxAssumption DEF Init, OvershootBound
<1>5. TypeOK
  BY DEF Init, TypeOK, PC
<1> QED
  BY <1>1, <1>2, <1>4, <1>5 DEF Init, IInv, PublishedAreAlive, NothingUnaccounted,
     PrivateSessions, Users, HandlingFollowsPC, RequestFollowsPC, BuildingIsFresh, LostIsUnreachable,
     DictOrder

LEMMA NextIInv == IInv /\ [Next]_vars => IInv'
<1> SUFFICES ASSUME IInv, [Next]_vars PROVE IInv'
  OBVIOUS
<1>1. [Step]_server /\ blocked' \in BOOLEAN
  BY NextIsStep DEF IInv
<1> QED
  BY <1>1, AccountedStep, CountedStep, OrderedStep DEF IInv, Accounted, Counted, Ordered

\* The strengthened invariant holds in every reachable state.
THEOREM Inductive == Spec => []IInv
  BY InitIInv, NextIInv, PTL DEF Spec

\* Every variable keeps its type, whatever the connections do.
THEOREM TypeCorrect == Spec => []TypeOK
<1>1. IInv => TypeOK
  BY DEF IInv
<1> QED
  BY <1>1, Inductive, PTL

\* The check-then-act race of create_session lets published and in-flight
\* sessions exceed max_sessions - 1 by at most one per connection.
THEOREM BoundedOvershoot == Spec => []OvershootBound
<1>1. IInv => OvershootBound
  BY DEF IInv
<1> QED
  BY <1>1, Inductive, PTL

\* No handler finds in the table a session that was already torn down.
THEOREM NoDeadSessions == Spec => []PublishedAreAlive
<1>1. IInv => PublishedAreAlive
  BY DEF IInv
<1> QED
  BY <1>1, Inductive, PTL

\* Directories and GDB processes are published, in flight, or lost to an
\* exception of create_session.
THEOREM ResourcesAccounted == Spec => []NothingUnaccounted
<1>1. IInv => NothingUnaccounted
  BY DEF IInv
<1> QED
  BY <1>1, Inductive, PTL

\* Two connections never share a session.
THEOREM SessionsArePrivate == Spec => []PrivateSessions
<1>1. IInv => PrivateSessions
  BY DEF IInv
<1> QED
  BY <1>1, Inductive, PTL

\* A creation takes, beside the session it resets, at most the oldest of a
\* table that is still full.
LEMMA BeginCreateJustified ==
  ASSUME IInv, NEW c \in Conn, pc[c] = "receive", NEW s \in Sid,
         NEW D \in SUBSET sessions, NEW kind, BeginCreate(c, s, D, kind),
         \A t \in D : LeavesItself(t)
  PROVE  LossIsJustified
<1> USE DEF IInv
<1>1. PICK victim \in Evicted(sessions \ D) : Replace(D \cup victim, {s}, Own(c))
  BY DEF BeginCreate
<1>2. sessions \ sessions' = D \cup (victim \cap sessions)
  BY <1>1 DEF Replace
<1>3. CASE Cardinality(sessions \ D) >= MaxSessions
  <2>1. PICK v \in sessions \ D : victim = {v} /\ ahead[v] \cap (sessions \ D) = {}
    BY <1>1, <1>3 DEF Evicted, Oldest
  <2>2. ahead[v] \subseteq D
    BY <2>1 DEF DictOrder, TypeOK
  <2>3. sessions \ sessions' = D \cup {v}
    BY <1>2, <2>1
  <2>4. CASE LeavesItself(v)
    BY <2>3, <2>4 DEF LossIsJustified
  <2>5. CASE ~LeavesItself(v)
    <3>1. {t \in sessions \ sessions' : LeavesItself(t)} = D
      BY <2>1, <2>3, <2>5
    <3>2. (sessions \ sessions') \ D = {v}
      BY <2>1, <2>3
    <3> QED
      BY <1>3, <2>2, <3>1, <3>2 DEF LossIsJustified
  <2> QED
    BY <2>4, <2>5
<1>4. CASE ~(Cardinality(sessions \ D) >= MaxSessions)
  BY <1>1, <1>2, <1>4 DEF Evicted, LossIsJustified
<1> QED
  BY <1>3, <1>4

\* Nothing but a creation evicts.
LEMMA LossStep ==
  ASSUME IInv, Step
  PROVE  LossIsJustified
<1> USE DEF IInv
<1>1. ASSUME NEW c \in Conn, pc[c] # "closed", Leave(c) PROVE LossIsJustified
  <2>1. \A s \in sessions \ sessions' : session_id[c] = s /\ pc'[c] = "closed"
    BY <1>1 DEF Leave, Destroy, Replace, Own, TypeOK
  <2>2. \A s \in sessions \ sessions' : LeavesItself(s)
    BY <1>1, <2>1 DEF LeavesItself
  <2> QED
    BY <2>2 DEF LossIsJustified
<1>2. ASSUME NEW c \in Conn, NEW s \in Sid, ReceiveAssemble(c, s) PROVE LossIsJustified
  BY <1>2, BeginCreateJustified DEF ReceiveAssemble
<1>3. ASSUME NEW c \in Conn, NEW s \in Sid, ReceiveReset(c, s) PROVE LossIsJustified
  <2>1. pc[c] = "receive" /\ session_id[c] \in sessions
        /\ BeginCreate(c, s, {session_id[c]}, "reset")
    BY <1>3 DEF ReceiveReset
  <2>2. request[c] = "none" /\ request'[c] = "reset"
    BY <2>1 DEF RequestFollowsPC, BeginCreate, TypeOK
  <2>3. LeavesItself(session_id[c])
    BY <2>2 DEF LeavesItself
  <2> QED
    BY <2>1, <2>3, BeginCreateJustified
<1>4. ASSUME sessions \subseteq sessions' PROVE LossIsJustified
  BY <1>4 DEF LossIsJustified
<1>5. ASSUME NEW c \in Conn, HandlerStep(c) PROVE LossIsJustified
  <2>1. CASE AnswerLost(c)
    BY <1>1, <2>1 DEF AnswerLost, SendFails
  <2>2. CASE ~AnswerLost(c)
    BY <1>4, <1>5, <2>2 DEF HandlerStep, AssembleSucceeds, AssembleFails, CreateRaises,
       DebugStarted, Insert, OpenSucceeds, OpenRaises, CommandDone, manager
  <2> QED
    BY <2>1, <2>2
<1>6. ASSUME NEW c \in Conn,
             Connect(c) \/ ClientCloses(c) \/ ReceiveDisconnect(c) \/ ReceiveCommand(c)
      PROVE  LossIsJustified
  BY <1>1, <1>4, <1>6 DEF Connect, ClientCloses, ReceiveDisconnect, ReceiveCommand,
     Replace, manager
<1>7. ASSUME cleanup_stale \/ Shutdown PROVE LossIsJustified
  <2>1. \A s \in sessions \ sessions' : LeavesItself(s)
    BY <1>7 DEF cleanup_stale, Shutdown, Destroy, Replace, LeavesItself
  <2> QED
    BY <2>1 DEF LossIsJustified
<1>8. ASSUME (\E s \in Sid : GoesIdle(s)) \/ Startup PROVE LossIsJustified
  BY <1>4, <1>8 DEF GoesIdle, Startup, manager
<1> QED
  BY <1>2, <1>3, <1>5, <1>6, <1>7, <1>8 DEF Step, LoopStep, Outside

\* A session leaves the table idle, reset, with its connection, at shutdown,
\* or as the oldest of a full table: never for another reason.
THEOREM LossesJustified == Spec => OnlyJustifiedLosses
<1>1. IInv /\ [Next]_vars => [LossIsJustified]_vars
  <2> SUFFICES ASSUME IInv, [Next]_vars PROVE LossIsJustified
    OBVIOUS
  <2>1. [Step]_server
    BY NextIsStep DEF IInv
  <2>2. CASE UNCHANGED server
    BY <2>2 DEF server, manager, LossIsJustified
  <2> QED
    BY <2>1, <2>2, LossStep
<1> QED
  BY <1>1, Inductive, PTL DEF Spec, OnlyJustifiedLosses

\* What a session nobody refers to still meets: it leaves the table, or it remains
\* nobody's and as idle as it was.
OrphanStays ==
  \A s \in Sid : Orphan(s) => s \notin sessions' \/ (Orphan(s)' /\ (s \in idle => s \in idle'))

\* Lemma: an endpoint only comes to refer to a session it creates, or has referred to.
LEMMA RefersStep ==
  ASSUME IInv, NEW s \in Sid, Orphan(s), s \in sessions', NEW c \in Conn,
         /\ \A d \in Conn \ {c} : session_id'[d] = session_id[d] /\ handling'[d] = handling[d]
         /\ session_id'[c] \in {session_id[c], handling[c], None}
         /\ handling'[c] \in {session_id[c], handling[c], None}
  PROVE  Orphan(s)'
<1>1. \A d \in Conn : session_id'[d] # s /\ handling'[d] # s
  <2> TAKE d \in Conn
  <2>1. CASE d = c
    BY <2>1, NoneAssumption DEF Orphan
  <2>2. CASE d # c
    BY <2>2 DEF Orphan
  <2> QED
    BY <2>1, <2>2
<1> QED
  BY <1>1 DEF Orphan

\* Lemma: no step gives an orphan an owner, or touches it.
LEMMA OrphanStep ==
  ASSUME IInv, Step
  PROVE  OrphanStays
<1> SUFFICES ASSUME NEW s \in Sid, Orphan(s), s \in sessions'
             PROVE  Orphan(s)' /\ (s \in idle => s \in idle')
  BY DEF OrphanStays
<1>1. /\ s \in sessions
      /\ \A c \in Conn : session_id[c] # s /\ handling[c] # s
      /\ session_id \in [Conn -> Sid \cup {None}] /\ handling \in [Conn -> Sid \cup {None}]
  BY DEF Orphan, IInv, TypeOK
<1>2. ASSUME UNCHANGED <<session_id, handling>>, s \in idle => s \in idle'
      PROVE  Orphan(s)' /\ (s \in idle => s \in idle')
  BY <1>1, <1>2 DEF Orphan
<1>3. ASSUME NEW D, NEW New, NEW Touched, s \notin Touched, Replace(D, New, Touched)
      PROVE  s \in idle => s \in idle'
  BY <1>1, <1>3 DEF Replace
<1>4. ASSUME NEW c \in Conn, NEW id \in {session_id[c], handling[c], None}, Resume(c, id)
      PROVE  Orphan(s)'
  BY <1>1, <1>4, RefersStep DEF Resume
<1>5. ASSUME NEW c \in Conn, Leave(c) PROVE Orphan(s)' /\ (s \in idle => s \in idle')
  BY <1>1, <1>3, <1>5, RefersStep DEF Leave, Destroy
<1>6. ASSUME NEW c \in Conn, NEW t \in Sid, NEW D, NEW kind, BeginCreate(c, t, D, kind)
      PROVE  Orphan(s)' /\ (s \in idle => s \in idle')
  <2>1. t # s
    BY <1>1, <1>6 DEF BeginCreate, Unused
  <2>2. \A d \in Conn : session_id'[d] # s /\ handling'[d] # s
    BY <1>1, <1>6, <2>1 DEF BeginCreate
  <2>3. s \in idle => s \in idle'
    BY <1>1, <1>3, <1>6 DEF BeginCreate, Own
  <2> QED
    BY <2>2, <2>3 DEF Orphan
<1>7. ASSUME NEW c \in Conn, HandlerStep(c) PROVE Orphan(s)' /\ (s \in idle => s \in idle')
  <2>1. CASE AssembleSucceeds(c)
    BY <1>2, <2>1 DEF AssembleSucceeds, manager
  <2>2. CASE AssembleFails(c) \/ CreateRaises(c)
    BY <1>1, <1>4, <2>2 DEF AssembleFails, CreateRaises
  <2>3. CASE DebugStarted(c)
    BY <1>1, <2>3, RefersStep DEF DebugStarted
  <2>4. CASE OpenSucceeds(c) \/ OpenRaises(c) \/ CommandDone(c)
    BY <1>4, <2>4 DEF OpenSucceeds, OpenRaises, CommandDone, manager
  <2>5. CASE AnswerLost(c)
    BY <1>5, <2>5 DEF AnswerLost, SendFails
  <2> QED
    BY <1>7, <2>1, <2>2, <2>3, <2>4, <2>5 DEF HandlerStep
<1>8. ASSUME NEW c \in Conn, ReceiveCommand(c) PROVE Orphan(s)' /\ (s \in idle => s \in idle')
  BY <1>1, <1>3, <1>8, RefersStep DEF ReceiveCommand, Own
<1>9. ASSUME NEW c \in Conn, Connect(c) \/ ClientCloses(c) \/ ReceiveDisconnect(c)
      PROVE  Orphan(s)' /\ (s \in idle => s \in idle')
  BY <1>2, <1>5, <1>9 DEF Connect, ClientCloses, ReceiveDisconnect, manager
<1>10. CASE cleanup_stale \/ Shutdown \/ Startup
  BY <1>2, <1>3, <1>10 DEF cleanup_stale, Shutdown, Startup, Destroy, endpoint, manager
<1>11. CASE \E t \in Sid : GoesIdle(t)
  BY <1>2, <1>11 DEF GoesIdle, endpoint
<1> QED
  BY <1>6, <1>7, <1>8, <1>9, <1>10, <1>11 DEF Step, LoopStep, Outside, ReceiveAssemble, ReceiveReset

\* A session that lost its last owner is nobody's for good: no later answer, reset or
\* command of an endpoint adopts or touches it, so that the idle cleanup meets it
\* (main.py:123-149, 436-457; session_manager.py:202-210).
THEOREM OrphansStay == Spec => [][OrphanStays]_vars
<1>1. ASSUME IInv, [Next]_vars PROVE [OrphanStays]_vars
  <2>1. [Step]_server
    BY <1>1, NextIsStep DEF IInv
  <2>2. CASE UNCHANGED server
    BY <2>2 DEF server, manager, endpoint, OrphanStays, Orphan
  <2> QED
    BY <1>1, <2>1, <2>2, OrphanStep
<1> QED
  BY <1>1, Inductive, PTL DEF Spec

----------------------------------------------------------------------------
(* Refinement of SessionPool                                               *)

\* In a reachable state the stage of a session says who holds it.
StagesClear(s) ==
  /\ Life[s] = "live" <=> s \in sessions
  /\ Life[s] = "building" <=> s \in Building
  /\ Life[s] = "lost" <=> s \in lost
  /\ Life[s] \in {"absent", "live", "building", "lost"}

StagesOK ==
  /\ Life \in [Sid -> Pool!Stage]
  /\ \A s \in Sid : StagesClear(s)
  /\ Building \subseteq Sid

LEMMA Stages == IInv => StagesOK
<1> SUFFICES ASSUME IInv PROVE StagesOK
  OBVIOUS
<1>1. \A s \in Building : s \in workdir \ (sessions \cup gdb \cup lost) /\ s \in Sid
  BY HandlingType DEF IInv, Building, BuildingIsFresh, InFlight
<1>2. \A s \in Sid : StagesClear(s)
  BY <1>1 DEF IInv, Life, StagesClear, PublishedAreAlive, NothingUnaccounted,
     LostIsUnreachable
<1>3. Life \in [Sid -> Pool!Stage]
  BY <1>2 DEF Life, StagesClear, Pool!Stage
<1> QED
  BY <1>1, <1>2, <1>3 DEF StagesOK

\* The capacity of the pool is the overshoot bound.
WithinCapacity ==
  Cardinality(Pool!Occupying(Life)) <= MaxSessions - 1 + Cardinality(Conn)

LEMMA IInvWithinCapacity == IInv => WithinCapacity
<1> SUFFICES ASSUME IInv PROVE WithinCapacity
  OBVIOUS
<1>1. Pool!Occupying(Life) = sessions \cup Building
  BY Stages DEF StagesOK, StagesClear, Pool!Occupying, IInv, TypeOK
<1>2. IsFiniteSet(Building) /\ Cardinality(Building) <= Cardinality(InFlight)
  <2> DEFINE f == [c \in InFlight |-> handling[c]]
  <2>1. f \in Surjection(InFlight, Building)
    BY DEF Surjection, Building
  <2> QED
    BY <2>1, InFlightFinite, FS_Surjection
<1>3. /\ Cardinality(sessions \cup Building)
           = Cardinality(sessions) + Cardinality(Building) - Cardinality(sessions \cap Building)
      /\ IsFiniteSet(sessions) /\ IsFiniteSet(sessions \cap Building)
  BY <1>2, FS_Union, FS_Subset DEF IInv
<1>4. /\ Cardinality(sessions) \in Nat /\ Cardinality(Building) \in Nat
      /\ Cardinality(sessions \cap Building) \in Nat /\ Cardinality(InFlight) \in Nat
      /\ Cardinality(Conn) \in Nat
  BY <1>2, <1>3, InFlightFinite, ConnAssumption, FS_CardinalityType
<1> QED
  BY <1>1, <1>2, <1>3, <1>4, MaxAssumption DEF WithinCapacity, IInv, OvershootBound

LEMMA SameCardinality == \A S : Pool!Cardinality(S) = Cardinality(S)
  BY DEF Pool!Cardinality, Cardinality

\* Destroying sessions, with or without starting one new creation.
LEMMA ReplaceRefines ==
  ASSUME IInv, IInv', sessions' \subseteq sessions, NEW S, Building' = Building \cup S,
         S \cap sessions = {}, \A s, t \in S : s = t, UNCHANGED lost
  PROVE  Pool!Replace
<1>1. WithinCapacity'
  BY IInvWithinCapacity, PTL
<1>2. StagesOK /\ StagesOK'
  BY Stages, PTL
<1>3. Life' \in [Sid -> Pool!Stage]
  BY <1>2 DEF StagesOK, Pool!Stage
<1>4. \A s \in Sid : Life'[s] # Life[s] =>
        <<Life[s], Life'[s]>> \in {<<"live", "absent">>, <<"absent", "building">>}
  BY <1>2 DEF StagesOK, StagesClear
<1>5. \A s, t \in Sid :
        Life[s] = "absent" /\ Life[t] = "absent" /\ Life'[s] = "building"
                          /\ Life'[t] = "building" => s = t
  BY <1>2 DEF StagesOK, StagesClear
<1> QED
  BY <1>1, <1>3, <1>4, <1>5, SameCardinality DEF Pool!Replace, WithinCapacity

\* One session leaves the builder; nothing else changes hands.
LEMMA SettleRefines ==
  ASSUME IInv, IInv', NEW s \in Building, Building' = Building \ {s},
         NEW stage \in {"live", "absent", "lost"},
         sessions' = IF stage = "live" THEN sessions \cup {s} ELSE sessions,
         lost' = IF stage = "lost" THEN lost \cup {s} ELSE lost
  PROVE  Pool!Settle(s, stage)
<1>1. StagesOK /\ StagesOK'
  BY Stages, PTL
<1>2. s \in Sid /\ Life[s] = "building"
  BY <1>1 DEF StagesOK, StagesClear
<1>3. \A t \in Sid : Life'[t] = IF t = s THEN stage ELSE Life[t]
  BY <1>1, <1>2 DEF StagesOK, StagesClear
<1>4. Life' = [Life EXCEPT ![s] = stage]
  BY <1>3 DEF Life
<1> QED
  BY <1>2, <1>4 DEF Pool!Settle

\* Nobody's session changes hands.
LEMMA StutterRefines ==
  ASSUME IInv, IInv', UNCHANGED <<sessions, lost>>, Building' = Building
  PROVE  UNCHANGED Life
<1>1. StagesOK /\ StagesOK'
  BY Stages, PTL
<1>2. \A t \in Sid : Life'[t] = Life[t]
  BY <1>1 DEF StagesOK, StagesClear
<1> QED
  BY <1>2 DEF Life

LEMMA BeginCreateRefines ==
  ASSUME IInv, IInv', NEW c \in Conn, pc[c] = "receive", NEW s \in Sid,
         NEW D \in SUBSET sessions, NEW kind, BeginCreate(c, s, D, kind)
  PROVE  Pool!Replace
<1>1. PICK victim \in Evicted(sessions \ D) : Replace(D \cup victim, {s}, Own(c))
  BY DEF BeginCreate
<1>2. sessions' \subseteq sessions /\ UNCHANGED lost
  BY <1>1 DEF Replace
<1>3. s \notin sessions
  BY DEF BeginCreate, Unused
<1>4. /\ InFlight' = InFlight \cup {c} /\ c \notin InFlight /\ InFlight \subseteq Conn
      /\ handling'[c] = s
      /\ \A d \in Conn \ {c} : handling'[d] = handling[d]
  BY DEF BeginCreate, InFlight, IInv, TypeOK
<1>5. Building' = Building \cup {s}
  BY <1>4 DEF Building
<1>6. {s} \cap sessions = {} /\ \A t, u \in {s} : t = u
  BY <1>3
<1> QED
  BY <1>2, <1>5, <1>6, ReplaceRefines

\* An endpoint that leaves its loop, or the manager on its own.
LEMMA DestroyRefines ==
  ASSUME IInv, IInv', NEW D, Destroy(D), Building' = Building
  PROVE  Pool!Replace
<1>1. sessions' \subseteq sessions /\ UNCHANGED lost
  BY DEF Destroy, Replace
<1>2. Building' = Building \cup {} /\ {} \cap sessions = {} /\ \A t, u \in {} : t = u
  OBVIOUS
<1> QED
  BY <1>1, <1>2, ReplaceRefines

LEMMA LeaveRefines ==
  ASSUME IInv, IInv', NEW c \in Conn, pc[c] \notin {"assembling", "starting"}, Leave(c)
  PROVE  Pool!Replace
<1>1. InFlight' = InFlight /\ \A d \in InFlight : handling'[d] = handling[d]
  BY DEF Leave, InFlight, IInv, TypeOK
<1>2. Building' = Building
  BY <1>1 DEF Building
<1>3. Destroy(Own(c))
  BY DEF Leave
<1> QED
  BY <1>2, <1>3, DestroyRefines

\* A creation that ends hands exactly its own session on.
LEMMA BuilderLeaves ==
  ASSUME IInv, NEW c \in InFlight, InFlight' = InFlight \ {c},
         \A d \in InFlight \ {c} : handling'[d] = handling[d]
  PROVE  handling[c] \in Building /\ Building' = Building \ {handling[c]}
<1>1. \A d \in InFlight \ {c} : handling[d] # handling[c]
  <2> TAKE d \in InFlight \ {c}
  <2>1. d \in Conn /\ c \in Conn /\ handling[d] \in Sid
    BY HandlingType DEF InFlight, IInv
  <2> QED
    BY <2>1 DEF IInv, PrivateSessions, Users
<1> QED
  BY <1>1 DEF Building

LEMMA HandlerRefines ==
  ASSUME IInv, IInv', NEW c \in Conn, HandlerStep(c)
  PROVE  Pool!Next \/ UNCHANGED Life
<1> USE DEF IInv
<1>1. CASE AssembleSucceeds(c)
  <2>1. InFlight' = InFlight /\ UNCHANGED <<sessions, lost, handling>>
    BY <1>1 DEF AssembleSucceeds, InFlight, TypeOK, manager
  <2> QED
    BY <2>1, StutterRefines DEF Building
<1>2. CASE AssembleFails(c)
  <2>1. /\ c \in InFlight /\ InFlight' = InFlight \ {c} /\ UNCHANGED <<sessions, lost>>
        /\ \A d \in InFlight \ {c} : handling'[d] = handling[d]
    BY <1>2 DEF AssembleFails, Resume, InFlight, TypeOK
  <2>2. Pool!Settle(handling[c], "absent")
    BY <2>1, BuilderLeaves, SettleRefines
  <2> QED
    BY <2>1, <2>2, HandlingType DEF Pool!Next, InFlight
<1>3. CASE CreateRaises(c)
  <2>1. /\ c \in InFlight /\ InFlight' = InFlight \ {c} /\ UNCHANGED sessions
        /\ lost' = lost \cup {handling[c]}
        /\ \A d \in InFlight \ {c} : handling'[d] = handling[d]
    BY <1>3 DEF CreateRaises, Resume, InFlight, TypeOK
  <2>2. Pool!Settle(handling[c], "lost")
    BY <2>1, BuilderLeaves, SettleRefines
  <2> QED
    BY <2>1, <2>2, HandlingType DEF Pool!Next, InFlight
<1>4. CASE DebugStarted(c)
  <2>1. /\ c \in InFlight /\ InFlight' = InFlight \ {c} /\ UNCHANGED <<lost, handling>>
        /\ sessions' = sessions \cup {handling[c]}
    BY <1>4 DEF DebugStarted, Insert, InFlight, TypeOK
  <2>2. Pool!Settle(handling[c], "live")
    BY <2>1, BuilderLeaves, SettleRefines
  <2> QED
    BY <2>1, <2>2, HandlingType DEF Pool!Next, InFlight
<1>5. CASE OpenSucceeds(c) \/ OpenRaises(c) \/ CommandDone(c)
  <2>1. /\ InFlight' = InFlight /\ UNCHANGED <<sessions, lost>>
        /\ \A d \in InFlight : handling'[d] = handling[d]
    BY <1>5 DEF OpenSucceeds, OpenRaises, CommandDone, Resume, InFlight, TypeOK, manager
  <2>2. Building' = Building
    BY <2>1 DEF Building
  <2> QED
    BY <2>1, <2>2, StutterRefines
<1>6. CASE AnswerLost(c)
  BY <1>6, LeaveRefines DEF AnswerLost, SendFails, Pool!Next
<1> QED
  BY <1>1, <1>2, <1>3, <1>4, <1>5, <1>6 DEF HandlerStep

LEMMA NextRefines ==
  ASSUME IInv, IInv', [Step]_server
  PROVE  Pool!Next \/ UNCHANGED Life
<1> USE DEF IInv
<1>1. ASSUME NEW c \in Conn, Connect(c) \/ ClientCloses(c) \/ ReceiveCommand(c)
      PROVE  UNCHANGED Life
  <2>1. /\ InFlight' = InFlight /\ UNCHANGED <<sessions, lost>>
        /\ \A d \in InFlight : handling'[d] = handling[d]
    BY <1>1 DEF Connect, ClientCloses, ReceiveCommand, Replace, InFlight, TypeOK, manager
  <2>2. Building' = Building
    BY <2>1 DEF Building
  <2> QED
    BY <2>1, <2>2, StutterRefines
<1>2. ASSUME NEW c \in Conn, ReceiveDisconnect(c) PROVE Pool!Next
  BY <1>2, LeaveRefines DEF ReceiveDisconnect, Pool!Next
<1>3. ASSUME NEW c \in Conn, NEW s \in Sid, ReceiveAssemble(c, s) \/ ReceiveReset(c, s)
      PROVE  Pool!Next
  BY <1>3, BeginCreateRefines DEF ReceiveAssemble, ReceiveReset, Pool!Next
<1>4. ASSUME NEW c \in Conn, HandlerStep(c) PROVE Pool!Next \/ UNCHANGED Life
  BY <1>4, HandlerRefines
<1>5. ASSUME cleanup_stale \/ Shutdown PROVE Pool!Next
  <2>1. Building' = Building
    BY <1>5 DEF cleanup_stale, Shutdown, endpoint, Building, InFlight
  <2> QED
    BY <1>5, <2>1, DestroyRefines DEF cleanup_stale, Shutdown, Pool!Next
<1>6. ASSUME (\E s \in Sid : GoesIdle(s)) \/ Startup \/ UNCHANGED server
      PROVE  UNCHANGED Life
  <2>1. UNCHANGED <<sessions, lost>> /\ Building' = Building
    BY <1>6 DEF GoesIdle, Startup, server, manager, endpoint, Building, InFlight
  <2> QED
    BY <2>1, StutterRefines
<1> QED
  BY <1>1, <1>2, <1>3, <1>4, <1>5, <1>6 DEF Step, LoopStep, Outside

\* The server implements the abstract pool with capacity
\* max_sessions - 1 + the number of connections: whatever the interleaving,
\* a session is built, published and destroyed as a whole, and once.
THEOREM Refinement == Spec => ImplementsPool
<1>1. Init => Pool!Init
  BY DEF Init, Pool!Init, Life
<1>2. IInv /\ IInv' /\ [Next]_vars => [Pool!Next]_Life
  BY NextIsStep, NextRefines DEF IInv
<1> QED
  BY <1>1, <1>2, Inductive, PTL DEF Spec, ImplementsPool, Pool!Spec

----------------------------------------------------------------------------
(* The promise of the token bucket, for every burst, rate and clock        *)

\* Products of Rate and of Second with the other variables, named so that
\* the leaves below are linear.
LEMMA Products ==
  /\ \A x, y \in Nat : x * y \in Nat
  /\ \A x, y, z \in Int : x * (y - z) = x * y - x * z
  /\ \A x, y \in Int : (x + 1) * y = x * y + y
  /\ \A x, y \in Int : x * y = y * x
OBVIOUS

\* A message leaves the bucket between empty and full.
LEMMA RefilledInRange ==
  ASSUME LimiterTypeOK
  PROVE  Refilled \in tokens .. Full
<1>1. Full \in Nat /\ (now - last) * Rate \in Nat
  BY BurstAssumption, SecondAssumption, RateAssumption, Products DEF LimiterTypeOK, Full
<1> QED
  BY <1>1 DEF LimiterTypeOK, Refilled, Earned

\* A dispatch pays for itself, a refusal keeps the refill, and a full bucket
\* begins a new account.
LEMMA AccountKept ==
  ASSUME LimiterTypeOK, Account, Dispatch \/ Refuse
  PROVE  Account'
<1>1. /\ Full \in Nat /\ Second \in Nat \ {0}
      /\ (now - last) * Rate = Rate * now - Rate * last
      /\ Rate * (last - since) = Rate * last - Rate * since
      /\ Rate * (now - since) = Rate * now - Rate * since
      /\ Rate * (now - now) = 0
      /\ (spent + 1) * Second = spent * Second + Second
      /\ 1 * Second = Second
      /\ Rate * now \in Int /\ Rate * last \in Int /\ Rate * since \in Int
      /\ spent * Second \in Nat /\ tokens \in Nat
  <2>1. Full \in Nat
    BY BurstAssumption, SecondAssumption, Products DEF Full
  <2> QED
    BY <2>1, RateAssumption, SecondAssumption, Products DEF LimiterTypeOK
<1>2. Full' = Full
  BY DEF Full
<1>3. CASE Dispatch /\ Earned < Full
  <2>1. tokens' = Earned - Second /\ since' = since /\ spent' = spent + 1 /\ last' = now
    BY <1>3 DEF Dispatch, Refilled
  <2>2. spent' * Second = spent * Second + Second /\ Rate * (last' - since') = Rate * now - Rate * since
    BY <1>1, <2>1
  <2>3. tokens + spent * Second = Full + (Rate * last - Rate * since)
    BY <1>1 DEF Account
  <2>4. tokens' = tokens + (Rate * now - Rate * last) - Second
    BY <1>1, <2>1 DEF Earned
  <2>5. \A t, s, x, f, n, l, c \in Int :
           t + x = f + (l - c) => (t + (n - l) - s) + (x + s) = f + (n - c)
    OBVIOUS
  <2>6. (tokens + (Rate * now - Rate * last) - Second) + (spent * Second + Second)
          = Full + (Rate * now - Rate * since)
    <3>1. tokens \in Int /\ Second \in Int /\ spent * Second \in Int /\ Full \in Int
      BY <1>1
    <3> QED
      BY <1>1, <2>3, <2>5, <3>1
  <2>7. tokens' + spent' * Second = Full + Rate * (last' - since')
    BY <2>2, <2>4, <2>6, Zenon
  <2> QED
    BY <1>2, <2>7 DEF Account
<1>4. CASE Dispatch /\ ~ (Earned < Full)
  <2>1. tokens' = Full - Second /\ since' = now /\ spent' = 1 /\ last' = now
    BY <1>4 DEF Dispatch, Refilled
  <2>2. spent' * Second = Second /\ Rate * (last' - since') = 0
    BY <1>1, <2>1
  <2> QED
    BY <1>1, <1>2, <2>1, <2>2 DEF Account
<1>5. CASE Refuse
  <2>1. Second <= Full
    <3>1. Burst * Second = (Burst - 1) * Second + Second /\ (Burst - 1) * Second \in Nat
      BY BurstAssumption, SecondAssumption, Products
    <3> QED
      BY <1>1, <3>1 DEF Full
  <2>2. Earned < Full
    BY <1>1, <1>5, <2>1 DEF Refuse, Enough, Refilled, Earned
  <2>3. tokens' = Earned /\ since' = since /\ spent' = spent /\ last' = now
    BY <1>5, <2>2 DEF Refuse, Refilled
  <2>4. Rate * (last' - since') = Rate * now - Rate * since /\ spent' * Second = spent * Second
    BY <1>1, <2>3
  <2> QED
    BY <1>1, <1>2, <2>3, <2>4 DEF Account, Earned
<1> QED
  BY <1>3, <1>4, <1>5

\* The inductive invariant: a window's messages and what is left in the
\* bucket were paid for by the full bucket and the refill.
THEOREM LimiterInductive == LimiterSpec => []LimiterInv
<1>1. LimiterInit => LimiterInv
  <2>1. Burst * Second \in Nat /\ 0 * Second = 0 /\ Rate * (0 - 0) = 0
    BY BurstAssumption, RateAssumption, SecondAssumption, Products
  <2> QED
    BY <2>1 DEF LimiterInit, LimiterInv, LimiterTypeOK, Budget, Account, Full
<1>2. LimiterInv /\ [LimiterNext]_limiterVars => LimiterInv'
  <2> SUFFICES ASSUME LimiterInv, [LimiterNext]_limiterVars
               PROVE  LimiterInv'
    OBVIOUS
  <2> USE DEF LimiterInv
  <2>1. /\ Full \in Nat /\ Rate \in Nat /\ Second \in Nat \ {0}
        /\ Refilled \in tokens .. Full
        /\ Refilled <= tokens + Rate * (now - last)
    <3>1. Full \in Nat
      BY BurstAssumption, SecondAssumption, Products DEF Full
    <3>2. (now - last) * Rate \in Nat /\ (now - last) * Rate = Rate * (now - last)
      BY RateAssumption, Products DEF LimiterTypeOK
    <3> QED
      BY <3>1, <3>2, RefilledInRange, RateAssumption, SecondAssumption
      DEF LimiterTypeOK, Refilled, Earned
  <2> HIDE DEF LimiterInv
  <2>2. CASE Tick
    BY <2>1, <2>2 DEF Tick, LimiterInv, LimiterTypeOK, Budget, Account
  <2>3. CASE Dispatch
    <3>1. LimiterTypeOK'
      BY <2>1, <2>3 DEF Dispatch, Enough, LimiterInv, LimiterTypeOK, Full
    <3>2. taken' * Second = taken * Second + Second
      BY <2>1, <2>3, Products DEF Dispatch, LimiterInv, LimiterTypeOK
    <3>3. /\ from \in Int /\ last \in Int /\ now \in Int
          /\ Rate * (now - last) = Rate * now - Rate * last
          /\ Rate * (last - from) = Rate * last - Rate * from
          /\ Rate * (now - from) = Rate * now - Rate * from
          /\ Rate * (now - from) \in Nat
          /\ Rate * now \in Int /\ Rate * last \in Int /\ Rate * from \in Int
          /\ taken * Second \in Nat
      BY <2>1, Products DEF LimiterInv, LimiterTypeOK
    <3>4. taken = 0 => taken * Second = 0
      BY <2>1
    <3>5. Budget'
      <4>1. taken' * Second + tokens' <= Full + Rate * (now - from)
        BY <2>1, <2>3, <3>2, <3>3, <3>4 DEF Dispatch, LimiterInv, LimiterTypeOK, Budget
      <4> QED
        BY <4>1, <2>3 DEF Dispatch, Budget, LimiterInv, LimiterTypeOK, Full
    <3>6. Account'
      BY <2>1, <2>3, AccountKept DEF LimiterInv
    <3> QED
      BY <3>1, <3>5, <3>6 DEF LimiterInv
  <2>4. CASE Refuse
    <3>1. LimiterTypeOK'
      BY <2>1, <2>4 DEF Refuse, LimiterInv, LimiterTypeOK, Full
    <3>2. /\ from \in Int /\ last \in Int /\ now \in Int
          /\ Rate * (now - last) = Rate * now - Rate * last
          /\ Rate * (last - from) = Rate * last - Rate * from
          /\ Rate * (now - from) = Rate * now - Rate * from
          /\ Rate * now \in Int /\ Rate * last \in Int /\ Rate * from \in Int
          /\ taken * Second \in Nat
      BY <2>1, Products DEF LimiterInv, LimiterTypeOK
    <3>3. Budget'
      <4>1. taken = 0 \/ taken * Second + tokens' <= Full + Rate * (now - from)
        BY <2>1, <2>4, <3>2 DEF Refuse, LimiterInv, LimiterTypeOK, Budget
      <4> QED
        BY <4>1, <2>4 DEF Refuse, Budget, LimiterInv, LimiterTypeOK, Full
    <3>4. Account'
      BY <2>1, <2>4, AccountKept DEF LimiterInv
    <3> QED
      BY <3>1, <3>3, <3>4 DEF LimiterInv
  <2>5. CASE Watch
    BY <2>5 DEF Watch, LimiterInv, LimiterTypeOK, Budget, Account, Full
  <2>6. CASE UNCHANGED limiterVars
    BY <2>6 DEF limiterVars, LimiterInv, LimiterTypeOK, Budget, Account, Full
  <2> QED
    BY <2>2, <2>3, <2>4, <2>5, <2>6 DEF LimiterNext
<1> QED
  BY <1>1, <1>2, PTL DEF LimiterSpec

\* Every variable keeps its type: in particular the bucket is never overdrawn and
\* never above its ceiling, and time does not run backwards for it
\* (main.py:406-415).
THEOREM LimiterTypeCorrect == LimiterSpec => []LimiterTypeOK
<1>1. LimiterInv => LimiterTypeOK
  BY DEF LimiterInv
<1> QED
  BY <1>1, LimiterInductive, PTL

\* No window of time ever sees more dispatched messages than the burst and
\* the refill allow.
THEOREM WindowsBounded == LimiterSpec => []WindowBound
<1>1. LimiterInv => WindowBound
  <2> SUFFICES ASSUME LimiterInv
               PROVE  WindowBound
    OBVIOUS
  <2>1. /\ Full \in Nat /\ Rate \in Nat /\ Second \in Nat
        /\ taken * Second \in Nat
        /\ Rate * (now - from) \in Nat
        /\ Rate * (now - last) \in Nat
        /\ taken = 0 => taken * Second = 0
    BY BurstAssumption, SecondAssumption, RateAssumption, Products
    DEF LimiterInv, LimiterTypeOK, Full
  <2>2. /\ Rate * (now - last) = Rate * now - Rate * last
        /\ Rate * (last - from) = Rate * last - Rate * from
        /\ Rate * (now - from) = Rate * now - Rate * from
        /\ Rate * now \in Int /\ Rate * last \in Int /\ Rate * from \in Int
    BY <2>1, Products DEF LimiterInv, LimiterTypeOK
  <2> QED
    BY <2>1, <2>2 DEF LimiterInv, LimiterTypeOK, Budget, WindowBound
<1> QED
  BY <1>1, LimiterInductive, PTL

\* A refused message finds everything spent that was paid for since the
\* bucket was last full: no refusal ever loses a refill.
THEOREM RefusalsEarned == LimiterSpec => RefusedOnlyWhenSpent
<1>1. LimiterInv /\ [LimiterNext]_limiterVars
        => [Refuse => (spent + 1) * Second > Full + Rate * (now - since)]_limiterVars
  <2> SUFFICES ASSUME LimiterInv, Refuse
               PROVE  (spent + 1) * Second > Full + Rate * (now - since)
    OBVIOUS
  <2>1. /\ Full \in Nat /\ Second \in Nat \ {0} /\ Rate \in Nat
        /\ (now - last) * Rate = Rate * now - Rate * last
        /\ Rate * (last - since) = Rate * last - Rate * since
        /\ Rate * (now - since) = Rate * now - Rate * since
        /\ (spent + 1) * Second = spent * Second + Second
        /\ Rate * now \in Int /\ Rate * last \in Int /\ Rate * since \in Int
        /\ spent * Second \in Nat /\ tokens \in Nat
    <3>1. Full \in Nat
      BY BurstAssumption, SecondAssumption, Products DEF Full
    <3> QED
      BY <3>1, RateAssumption, SecondAssumption, Products DEF LimiterInv, LimiterTypeOK
  <2>2. Second <= Full
    <3>1. Burst * Second = (Burst - 1) * Second + Second /\ (Burst - 1) * Second \in Nat
      BY BurstAssumption, SecondAssumption, Products
    <3> QED
      BY <2>1, <3>1 DEF Full
  <2>3. Earned < Second
    BY <2>1, <2>2 DEF Refuse, Enough, Refilled, Earned
  <2> QED
    BY <2>1, <2>3 DEF LimiterInv, Account, Earned
<1> QED
  BY <1>1, LimiterInductive, PTL DEF LimiterSpec, RefusedOnlyWhenSpent
=============================================================================
