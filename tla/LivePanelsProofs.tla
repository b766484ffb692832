-------------------------- MODULE LivePanelsProofs --------------------------
(***************************************************************************)
(* Proofs about the panels of a live session, for any set of lines and      *)
(* channels of every length: types, the agreement of the gutter and GDB,    *)
(* and that no answer outlives its connection.                              *)
(***************************************************************************)
EXTENDS LivePanels, SequenceTheorems, TLAPS

\* The messages about a line ask for what the line is not, in turn, and the last
\* one for what the gutter shows.
Alternating(line, queue) ==
  \A i, j \in About(line, queue) :
    i < j /\ (\A k \in About(line, queue) : k <= i \/ j <= k) => queue[i].type # queue[j].type

LastTold(line, queue, marked) ==
  \A i \in About(line, queue) :
    (\A k \in About(line, queue) : k <= i) => (queue[i].type = "add" <=> line \in marked)

Told(line, queue, marked) == Alternating(line, queue) /\ LastTold(line, queue, marked)

\* The first message about a line is an add.
AwaitsAdd(line, queue) ==
  \E i \in About(line, queue) :
    (\A k \in About(line, queue) : i <= k) /\ queue[i].type = "add"

\* What GDB has of a line that nothing is on its way about is what the gutter shows;
\* otherwise the first message, if it is an add, finds no breakpoint there.
InGdb(line) ==
  /\ inserted[line] = IF line \in table THEN 1 ELSE 0
  /\ About(line, up) = {} => (line \in breakpoints <=> line \in table)
  /\ AwaitsAdd(line, up) => line \notin table

DownOfConnection == \A i \in 1..Len(down) : down[i].connection = connection

OnlyWhenOpen == socket # "open" => up = << >> /\ session # "alive"

NumberedIsThere == \A line \in table : inserted[line] > 0

AllTold == \A line \in Line : Told(line, up, breakpoints)

AllInGdb == session = "alive" => \A line \in Line \ doubt : InGdb(line)

IInv ==
  /\ TypeOK
  /\ ResultsOfConnection
  /\ DownOfConnection
  /\ OnlyWhenOpen
  /\ NumberedIsThere
  /\ AllTold
  /\ AllInGdb

----------------------------------------------------------------------------
(* Queues                                                                  *)

\* Lemma: a served message leaves the others, each one place further up.
LEMMA TailAbout ==
  ASSUME NEW queue \in Seq(Message), queue # << >>, NEW line
  PROVE  /\ Tail(queue) \in Seq(Message)
         /\ \A i : i \in About(line, Tail(queue)) <=> i \in Nat \ {0} /\ i + 1 \in About(line, queue)
         /\ \A i \in About(line, Tail(queue)) : Tail(queue)[i] = queue[i + 1]
<1>1. /\ Tail(queue) \in Seq(Message) /\ Len(Tail(queue)) = Len(queue) - 1
      /\ \A i \in 1..Len(Tail(queue)) : Tail(queue)[i] = queue[i + 1]
  BY HeadTailProperties
<1>2. Len(queue) \in Nat
  OBVIOUS
<1> QED
  BY <1>1, <1>2 DEF About

\* Lemma: an appended message is the last, and leaves the others where they are.
LEMMA AppendAbout ==
  ASSUME NEW queue \in Seq(Message), NEW msg \in Message, NEW line
  PROVE  /\ Append(queue, msg) \in Seq(Message)
         /\ \A i : i \in About(line, Append(queue, msg)) <=>
              \/ i \in About(line, queue)
              \/ i = Len(queue) + 1 /\ msg.type \in {"add", "remove"} /\ msg.line = line
         /\ \A i \in About(line, queue) : Append(queue, msg)[i] = queue[i] /\ i \in 1..Len(queue)
         /\ Append(queue, msg)[Len(queue) + 1] = msg
<1>1. /\ Append(queue, msg) \in Seq(Message) /\ Len(Append(queue, msg)) = Len(queue) + 1
      /\ \A i \in 1..Len(queue) : Append(queue, msg)[i] = queue[i]
      /\ Append(queue, msg)[Len(queue) + 1] = msg
  BY AppendProperties
<1>2. Len(queue) \in Nat
  OBVIOUS
<1> QED
  BY <1>1, <1>2 DEF About

\* Lemma: what is left of an alternation that ends well is one.
LEMMA TailTold ==
  ASSUME NEW queue \in Seq(Message), queue # << >>, NEW line, NEW marked,
         Told(line, queue, marked)
  PROVE  Told(line, Tail(queue), marked)
<1> DEFINE rest == Tail(queue)
<1>1. /\ \A i : i \in About(line, rest) <=> i \in Nat \ {0} /\ i + 1 \in About(line, queue)
      /\ \A i \in About(line, rest) : rest[i] = queue[i + 1]
  BY TailAbout
<1>2. \A i \in About(line, queue) : i \in Nat \ {0}
  BY DEF About
<1> HIDE DEF rest
<1>3. Alternating(line, rest)
  <2> SUFFICES ASSUME NEW i \in About(line, rest), NEW j \in About(line, rest), i < j,
                      \A k \in About(line, rest) : k <= i \/ j <= k
               PROVE  rest[i].type # rest[j].type
    BY DEF Alternating
  <2>1. \A k \in About(line, queue) : k <= i + 1 \/ j + 1 <= k
    <3> SUFFICES ASSUME NEW k \in About(line, queue), ~(k <= i + 1)
                 PROVE  j + 1 <= k
      OBVIOUS
    <3>1. k - 1 \in About(line, rest)
      BY <1>1, <1>2
    <3> QED
      BY <3>1, <1>1, <1>2
  <2>2. i + 1 \in About(line, queue) /\ j + 1 \in About(line, queue) /\ i + 1 < j + 1
    BY <1>1
  <2>3. queue[i + 1].type # queue[j + 1].type
    BY <2>1, <2>2 DEF Told, Alternating
  <2> QED
    BY <2>3, <1>1
<1>4. LastTold(line, rest, marked)
  <2> SUFFICES ASSUME NEW i \in About(line, rest), \A k \in About(line, rest) : k <= i
               PROVE  rest[i].type = "add" <=> line \in marked
    BY DEF LastTold
  <2>1. \A k \in About(line, queue) : k <= i + 1
    <3> SUFFICES ASSUME NEW k \in About(line, queue), ~(k <= i + 1)
                 PROVE  FALSE
      BY <1>1, <1>2
    <3>1. k - 1 \in About(line, rest)
      BY <1>1, <1>2
    <3> QED
      BY <3>1, <1>1, <1>2
  <2>2. queue[i + 1].type = "add" <=> line \in marked
    BY <2>1, <1>1 DEF Told, LastTold
  <2> QED
    BY <2>2, <1>1
<1> QED
  BY <1>3, <1>4 DEF rest, Told

\* Lemma: when the message served is about a line, the next one about it asks for
\* the contrary, and when there is none it said what the gutter shows.
LEMMA HeadTold ==
  ASSUME NEW queue \in Seq(Message), queue # << >>, NEW line, NEW marked,
         Told(line, queue, marked), Head(queue).type \in {"add", "remove"}, Head(queue).line = line
  PROVE  /\ About(line, Tail(queue)) = {} => (Head(queue).type = "add" <=> line \in marked)
         /\ Head(queue).type = "add" => AwaitsAdd(line, queue) /\ ~AwaitsAdd(line, Tail(queue))
<1> DEFINE rest == Tail(queue)
<1>1. /\ \A i : i \in About(line, rest) <=> i \in Nat \ {0} /\ i + 1 \in About(line, queue)
      /\ \A i \in About(line, rest) : rest[i] = queue[i + 1]
  BY TailAbout
<1>2. \A i \in About(line, queue) : i \in Nat \ {0}
  BY DEF About
<1>3. Head(queue) = queue[1] /\ 1 \in 1..Len(queue)
  OBVIOUS
<1>4. 1 \in About(line, queue)
  BY <1>3 DEF About
<1> HIDE DEF rest
<1>5. ASSUME About(line, rest) = {}
      PROVE  Head(queue).type = "add" <=> line \in marked
  <2>1. \A k \in About(line, queue) : k <= 1
    <3> SUFFICES ASSUME NEW k \in About(line, queue), ~(k <= 1)
                 PROVE  FALSE
      BY <1>2
    <3>1. k - 1 \in About(line, rest)
      BY <1>1, <1>2
    <3> QED
      BY <3>1, <1>5
  <2> QED
    BY <2>1, <1>3, <1>4 DEF Told, LastTold
<1>6. ASSUME NEW i \in About(line, rest), \A k \in About(line, rest) : i <= k
      PROVE  rest[i].type # Head(queue).type
  <2>1. \A k \in About(line, queue) : k <= 1 \/ i + 1 <= k
    <3> SUFFICES ASSUME NEW k \in About(line, queue), ~(k <= 1)
                 PROVE  i + 1 <= k
      BY <1>2
    <3>1. k - 1 \in About(line, rest)
      BY <1>1, <1>2
    <3> QED
      BY <3>1, <1>1, <1>2, <1>6
  <2>2. i + 1 \in About(line, queue) /\ 1 < i + 1
    BY <1>1, <1>6
  <2>3. queue[1].type # queue[i + 1].type
    BY <2>1, <2>2, <1>4 DEF Told, Alternating
  <2> QED
    BY <2>3, <1>1, <1>3, <1>6
<1>7. Head(queue).type = "add" => AwaitsAdd(line, queue)
  BY <1>2, <1>3, <1>4 DEF AwaitsAdd
<1> QED
  BY <1>5, <1>6, <1>7 DEF rest, AwaitsAdd

\* Lemma: serving a message about something else leaves the first message of a line.
LEMMA TailOther ==
  ASSUME NEW queue \in Seq(Message), queue # << >>, NEW line, 1 \notin About(line, queue)
  PROVE  /\ About(line, Tail(queue)) = {} => About(line, queue) = {}
         /\ AwaitsAdd(line, Tail(queue)) => AwaitsAdd(line, queue)
<1> DEFINE rest == Tail(queue)
<1>1. /\ \A i : i \in About(line, rest) <=> i \in Nat \ {0} /\ i + 1 \in About(line, queue)
      /\ \A i \in About(line, rest) : rest[i] = queue[i + 1]
  BY TailAbout
<1>2. \A i \in About(line, queue) : i \in Nat /\ i > 1
  BY DEF About
<1> HIDE DEF rest
<1>3. \A k \in About(line, queue) : k - 1 \in About(line, rest)
  BY <1>1, <1>2
<1>4. ASSUME AwaitsAdd(line, rest)
      PROVE  AwaitsAdd(line, queue)
  <2>1. PICK i \in About(line, rest) :
               (\A k \in About(line, rest) : i <= k) /\ rest[i].type = "add"
    BY <1>4 DEF AwaitsAdd
  <2>2. i + 1 \in About(line, queue) /\ queue[i + 1].type = "add"
    BY <2>1, <1>1
  <2>3. \A k \in About(line, queue) : i + 1 <= k
    BY <2>1, <1>1, <1>2, <1>3
  <2> QED
    BY <2>2, <2>3 DEF AwaitsAdd
<1> QED
  BY <1>3, <1>4 DEF rest

\* Lemma: a message about something else, sent, changes nothing for the line.
LEMMA AppendOther ==
  ASSUME NEW queue \in Seq(Message), NEW msg \in Message, NEW line, NEW marked,
         msg.type \in {"add", "remove"} => msg.line # line
  PROVE  /\ About(line, Append(queue, msg)) = About(line, queue)
         /\ Told(line, queue, marked) => Told(line, Append(queue, msg), marked)
         /\ AwaitsAdd(line, Append(queue, msg)) => AwaitsAdd(line, queue)
<1> DEFINE longer == Append(queue, msg)
<1>1. /\ \A i : i \in About(line, longer) <=> i \in About(line, queue)
      /\ \A i \in About(line, queue) : longer[i] = queue[i]
  <2>1. ~(msg.type \in {"add", "remove"} /\ msg.line = line)
    OBVIOUS
  <2> QED
    BY <2>1, AppendAbout
<1>2. About(line, longer) = About(line, queue)
  <2> HIDE DEF longer
  <2> QED
    BY <1>1
<1> HIDE DEF longer
<1>3. Told(line, queue, marked) => Told(line, longer, marked)
  BY <1>1, <1>2 DEF Told, Alternating, LastTold
<1>4. AwaitsAdd(line, longer) => AwaitsAdd(line, queue)
  BY <1>1, <1>2 DEF AwaitsAdd
<1> QED
  BY <1>2, <1>3, <1>4 DEF longer

\* Lemma: a line that is toggled is told of the contrary of what it was.
LEMMA AppendTold ==
  ASSUME NEW queue \in Seq(Message), NEW msg \in Message, NEW line, NEW marked, NEW after,
         Told(line, queue, marked), msg.type \in {"add", "remove"}, msg.line = line,
         msg.type = "add" <=> line \notin marked, msg.type = "add" <=> line \in after
  PROVE  /\ Told(line, Append(queue, msg), after)
         /\ About(line, Append(queue, msg)) # {}
         /\ AwaitsAdd(line, Append(queue, msg)) =>
              AwaitsAdd(line, queue) \/ (About(line, queue) = {} /\ line \notin marked)
<1> DEFINE longer == Append(queue, msg)
           last == Len(queue) + 1
<1>1. /\ \A i : i \in About(line, longer) <=> i \in About(line, queue) \/ i = last
      /\ \A i \in About(line, queue) : longer[i] = queue[i] /\ i \in 1..Len(queue)
      /\ longer[last] = msg
  BY AppendAbout
<1>2. Len(queue) \in Nat /\ last \in Nat
  OBVIOUS
<1>3. \A i \in About(line, queue) : i \in Nat /\ i < last
  BY <1>1, <1>2
<1> HIDE DEF longer, last
<1>4. Alternating(line, longer)
  <2> SUFFICES ASSUME NEW i \in About(line, longer), NEW j \in About(line, longer), i < j,
                      \A k \in About(line, longer) : k <= i \/ j <= k
               PROVE  longer[i].type # longer[j].type
    BY DEF Alternating
  <2>1. i \in About(line, queue)
    BY <1>1, <1>2, <1>3
  <2>2. CASE j \in About(line, queue)
    <3>1. queue[i].type # queue[j].type
      BY <2>1, <2>2, <1>1 DEF Told, Alternating
    <3> QED
      BY <3>1, <2>1, <2>2, <1>1
  <2>3. CASE j = last
    <3>1. \A k \in About(line, queue) : k <= i
      BY <2>3, <1>1, <1>2, <1>3
    <3>2. queue[i].type = "add" <=> line \in marked
      BY <3>1, <2>1 DEF Told, LastTold
    <3> QED
      BY <3>2, <2>1, <2>3, <1>1
  <2> QED
    BY <2>2, <2>3, <1>1
<1>5. LastTold(line, longer, after)
  <2> SUFFICES ASSUME NEW i \in About(line, longer), \A k \in About(line, longer) : k <= i
               PROVE  longer[i].type = "add" <=> line \in after
    BY DEF LastTold
  <2>1. last <= i
    BY <1>1
  <2>2. i = last
    BY <2>1, <1>1, <1>2, <1>3
  <2> QED
    BY <2>2, <1>1
<1>6. ASSUME AwaitsAdd(line, longer), About(line, queue) # {}
      PROVE  AwaitsAdd(line, queue)
  <2>1. PICK i \in About(line, longer) :
               (\A k \in About(line, longer) : i <= k) /\ longer[i].type = "add"
    BY <1>6 DEF AwaitsAdd
  <2>2. i \in About(line, queue)
    BY <2>1, <1>1, <1>2, <1>3, <1>6
  <2> QED
    BY <2>1, <2>2, <1>1 DEF AwaitsAdd
<1>7. ASSUME AwaitsAdd(line, longer), About(line, queue) = {}
      PROVE  line \notin marked
  BY <1>7, <1>1 DEF AwaitsAdd
<1> QED
  BY <1>1, <1>4, <1>5, <1>6, <1>7 DEF longer, Told

\* Lemma: nothing under way, or nothing but the request to run, tells no line anything.
LEMMA QuietAbout ==
  ASSUME NEW queue, queue = << >> \/ queue = <<[type |-> "run"]>>, NEW line, NEW marked
  PROVE  queue \in Seq(Message) /\ About(line, queue) = {} /\ Told(line, queue, marked)
<1>1. [type |-> "run"] \in Message
  BY DEF Message
<1>2. queue \in Seq(Message)
  <2>1. \A m \in Message : <<m>> \in Seq(Message)
    OBVIOUS
  <2>2. << >> \in Seq(Message)
    OBVIOUS
  <2> QED
    BY <2>1, <2>2, <1>1
<1>3. About(line, queue) = {}
  <2>1. CASE queue = << >>
    BY <2>1 DEF About
  <2>2. CASE queue = <<[type |-> "run"]>>
    <3>1. Len(queue) = 1 /\ queue[1].type = "run"
      BY <2>2
    <3> QED
      BY <3>1 DEF About
  <2> QED
    BY <2>1, <2>2
<1> QED
  BY <1>2, <1>3 DEF Told, Alternating, LastTold

----------------------------------------------------------------------------
(* The invariant                                                           *)

\* Lemma: nothing is marked, told or held when the workbench starts.
LEMMA Initial == Init => IInv
<1> SUFFICES ASSUME Init
             PROVE  IInv
  OBVIOUS
<1>1. TypeOK
  BY DEF Init, TypeOK
<1>2. ResultsOfConnection /\ DownOfConnection /\ OnlyWhenOpen /\ NumberedIsThere /\ AllInGdb
  BY DEF Init, ResultsOfConnection, DownOfConnection, OnlyWhenOpen, NumberedIsThere, AllInGdb
<1>3. AllTold
  BY QuietAbout DEF Init, AllTold
<1> QED
  BY <1>1, <1>2, <1>3 DEF IInv

\* Lemma: a socket that is made, opened or lost leaves no session and tells no line
\* anything.
LEMMA SocketKeeps == IInv /\ (Connect \/ Opened \/ Closed) => IInv'
<1> SUFFICES ASSUME IInv, Connect \/ Opened \/ Closed
             PROVE  IInv'
  OBVIOUS
<1> USE DEF IInv
<1>1. up' = << >> \/ up' = <<[type |-> "run"]>>
  BY DEF Connect, Opened, Closed
<1>2. up' \in Seq(Message) /\ AllTold'
  <2>1. up' \in Seq(Message)
    BY <1>1, QuietAbout
  <2>2. \A line \in Line : Told(line, up', breakpoints')
    BY <1>1, QuietAbout
  <2> QED
    BY <2>1, <2>2 DEF AllTold
<1>3. session' # "alive"
  BY DEF Connect, Opened, Closed, endpoint, OnlyWhenOpen
<1>4. AllInGdb' /\ OnlyWhenOpen' /\ NumberedIsThere'
  BY <1>3 DEF AllInGdb, OnlyWhenOpen, NumberedIsThere, Connect, Opened, Closed, endpoint
<1>5. TypeOK'
  <2>1. CASE Connect
    <3>1. results' \in [Kind -> Nat] /\ inserted' \in [Line -> Nat]
      BY <2>1 DEF Connect
    <3>2. down' \in Seq([kind : Kind, connection : Nat])
      BY <2>1 DEF Connect
    <3> QED
      BY <2>1, <3>1, <3>2, <1>2 DEF TypeOK, Connect
  <2>2. CASE Opened
    BY <2>2, <1>2 DEF TypeOK, Opened, endpoint
  <2>3. CASE Closed
    <3>1. inserted' \in [Line -> Nat]
      BY <2>3 DEF Closed
    <3>2. down' \in Seq([kind : Kind, connection : Nat])
      BY <2>3 DEF Closed
    <3> QED
      BY <2>3, <3>1, <3>2, <1>2 DEF TypeOK, Closed
  <2> QED
    BY <2>1, <2>2, <2>3
<1>6. ResultsOfConnection' /\ DownOfConnection'
  BY DEF ResultsOfConnection, DownOfConnection, TypeOK, Connect, Opened, Closed
<1> QED
  BY <1>2, <1>4, <1>5, <1>6

\* Lemma: a message that is not about a line changes nothing for any line.
LEMMA SendKeeps ==
  ASSUME IInv, NEW msg \in Message, msg.type \notin {"add", "remove"}, Send(msg),
         kept' \in [Query -> SUBSET Nat],
         UNCHANGED <<connection, socket, breakpoints, results, down, endpoint>>
  PROVE  IInv'
<1> USE DEF IInv, Send, endpoint
<1>1. up' \in Seq(Message)
  BY AppendAbout DEF TypeOK
<1>2. /\ \A line : About(line, up') = {} => About(line, up) = {}
      /\ \A line \in Line : Told(line, up', breakpoints)
      /\ \A line : AwaitsAdd(line, up') => AwaitsAdd(line, up)
  BY AppendOther DEF TypeOK, AllTold
<1>3. AllTold'
  BY <1>2 DEF AllTold
<1>4. AllInGdb'
  <2> SUFFICES ASSUME session = "alive", NEW line \in Line \ doubt
               PROVE  InGdb(line)'
    BY DEF AllInGdb
  <2>1. InGdb(line)
    BY DEF AllInGdb
  <2> QED
    BY <1>2, <2>1 DEF InGdb
<1>5. TypeOK' /\ OnlyWhenOpen' /\ NumberedIsThere' /\ ResultsOfConnection' /\ DownOfConnection'
  BY <1>1 DEF TypeOK, OnlyWhenOpen, NumberedIsThere, ResultsOfConnection, DownOfConnection
<1> QED
  BY <1>3, <1>4, <1>5

\* Lemma: what only changes answers changes nothing for the lines.
LEMMA AnswersKeep ==
  ASSUME IInv, TypeOK', ResultsOfConnection', DownOfConnection',
         UNCHANGED <<connection, socket, breakpoints, up, endpoint>>
  PROVE  IInv'
<1> USE DEF IInv, endpoint
<1>1. OnlyWhenOpen' /\ NumberedIsThere' /\ AllTold'
  BY DEF OnlyWhenOpen, NumberedIsThere, AllTold
<1>2. AllInGdb'
  BY DEF AllInGdb, InGdb
<1> QED
  BY <1>1, <1>2

\* Lemma: a toggled line is on its way to be told, and no other line is disturbed.
LEMMA ToggleKeeps ==
  ASSUME IInv, NEW line \in Line, ToggleBreakpoint(line)
  PROVE  IInv'
<1> USE DEF IInv
<1> DEFINE msg == [type |-> IF line \in breakpoints THEN "remove" ELSE "add", line |-> line]
<1>1. msg \in Message /\ msg.type \in {"add", "remove"} /\ msg.line = line
  BY DEF Message
<1>2. (msg.type = "add" <=> line \notin breakpoints) /\ (msg.type = "add" <=> line \in breakpoints')
  BY DEF ToggleBreakpoint
<1>3. /\ up' = IF socket = "open" THEN Append(up, msg) ELSE up
      /\ \A other \in Line : other # line => (other \in breakpoints' <=> other \in breakpoints)
      /\ breakpoints' \subseteq Line
      /\ UNCHANGED <<connection, socket, results, kept, down, session, table, inserted, doubt>>
  BY DEF ToggleBreakpoint, Send, endpoint, TypeOK
<1> HIDE DEF msg
<1>4. /\ up \in Seq(Message)
      /\ \A other \in Line : Told(other, up, breakpoints)
  BY DEF TypeOK, AllTold
<1>5. TypeOK' /\ OnlyWhenOpen' /\ NumberedIsThere' /\ ResultsOfConnection' /\ DownOfConnection'
  <2>1. up' \in Seq(Message)
    BY <1>1, <1>3, <1>4, AppendAbout
  <2> QED
    BY <1>3, <2>1 DEF TypeOK, OnlyWhenOpen, NumberedIsThere, ResultsOfConnection, DownOfConnection
<1>6. CASE socket # "open"
  <2>1. up' = << >> /\ session' # "alive"
    BY <1>3, <1>6 DEF OnlyWhenOpen
  <2>2. \A other \in Line : Told(other, up', breakpoints')
    BY <2>1, QuietAbout
  <2> QED
    BY <2>1, <2>2, <1>5 DEF AllTold, AllInGdb
<1>7. CASE socket = "open"
  <2>1. up' = Append(up, msg)
    BY <1>3, <1>7
  <2>2. /\ Told(line, up', breakpoints')
        /\ About(line, up') # {}
        /\ AwaitsAdd(line, up') => AwaitsAdd(line, up) \/ (About(line, up) = {} /\ line \notin breakpoints)
    BY <2>1, <1>1, <1>2, <1>4, AppendTold
  <2>3. ASSUME NEW other \in Line, other # line
        PROVE  /\ Told(other, up', breakpoints')
               /\ About(other, up') = About(other, up)
               /\ AwaitsAdd(other, up') => AwaitsAdd(other, up)
    <3>1. /\ Told(other, up', breakpoints)
          /\ About(other, up') = About(other, up)
          /\ AwaitsAdd(other, up') => AwaitsAdd(other, up)
      BY <2>1, <2>3, <1>1, <1>4, AppendOther
    <3>2. Told(other, up', breakpoints) => Told(other, up', breakpoints')
      BY <2>3, <1>3 DEF Told, LastTold
    <3> QED
      BY <3>1, <3>2
  <2>4. AllTold'
    BY <2>2, <2>3 DEF AllTold
  <2>5. AllInGdb'
    <3> SUFFICES ASSUME session = "alive", NEW other \in Line \ doubt
                 PROVE  InGdb(other)'
      BY <1>3 DEF AllInGdb
    <3>1. InGdb(other)
      BY DEF AllInGdb
    <3>2. CASE other = line
      BY <3>1, <3>2, <2>2, <1>3 DEF InGdb
    <3>3. CASE other # line
      BY <3>1, <3>3, <2>3, <1>3 DEF InGdb
    <3> QED
      BY <3>2, <3>3
  <2> QED
    BY <2>4, <2>5, <1>5
<1> QED
  BY <1>6, <1>7

\* Lemma: no step of the browser disturbs the invariant.
LEMMA BrowserKeeps == IInv /\ Browser => IInv'
<1> SUFFICES ASSUME IInv, Browser
             PROVE  IInv'
  OBVIOUS
<1>1. /\ [type |-> "reset"] \in Message
      /\ \A kind \in Kind : [type |-> "ask", kind |-> kind] \in Message
      /\ kept \in [Query -> SUBSET Nat]
  BY DEF Message, IInv, TypeOK
<1>2. CASE Connect \/ Opened \/ Closed
  BY <1>2, SocketKeeps
<1>3. CASE Reset
  BY <1>3, <1>1, SendKeeps DEF Reset, panels
<1>4. ASSUME NEW kind \in Kind, AskTool(kind) \/ AskSection(kind)
      PROVE  IInv'
  <2> DEFINE msg == [type |-> "ask", kind |-> kind]
  <2>1. msg \in Message /\ msg.type = "ask"
    BY <1>1
  <2>2. Send(msg) /\ UNCHANGED <<connection, socket, breakpoints, results, kept, down, endpoint>>
    BY <1>4 DEF AskTool, AskSection, panels
  <2> HIDE DEF msg
  <2> QED
    BY <1>1, <2>1, <2>2, SendKeeps
<1>5. ASSUME NEW kind \in Kind, Submit(kind)
      PROVE  IInv'
  <2> DEFINE msg == [type |-> "ask", kind |-> kind]
  <2>1. msg \in Message /\ msg.type = "ask"
    BY <1>1
  <2>2. Send(msg) /\ UNCHANGED <<connection, socket, breakpoints, results, down, endpoint>>
    BY <1>5 DEF Submit
  <2>3. kept' \in [Query -> SUBSET Nat]
    BY <1>1, <1>5 DEF Submit
  <2> HIDE DEF msg
  <2> QED
    BY <2>1, <2>2, <2>3, SendKeeps
<1>6. ASSUME NEW kind \in Kind, ClearHistory(kind) \/ Render(kind)
      PROVE  IInv'
  <2>1. kept' \in [Query -> SUBSET Nat]
    <3>1. results \in [Kind -> Nat] /\ Query \subseteq Kind
      BY DEF IInv, TypeOK, Kind
    <3> QED
      BY <3>1, <1>1, <1>6 DEF ClearHistory, Render
  <2>2. UNCHANGED <<connection, socket, breakpoints, results, up, down, endpoint>>
    BY <1>6 DEF ClearHistory, Render
  <2>3. TypeOK' /\ ResultsOfConnection' /\ DownOfConnection'
    BY <2>1, <2>2 DEF IInv, TypeOK, ResultsOfConnection, DownOfConnection, endpoint
  <2> QED
    BY <2>2, <2>3, AnswersKeep
<1>7. CASE Deliver
  <2>1. /\ down \in Seq([kind : Kind, connection : Nat]) /\ down # << >>
        /\ \A i \in 1..Len(down) : down[i].connection = connection
    BY <1>7 DEF IInv, TypeOK, DownOfConnection, Deliver
  <2>2. /\ Head(down) = down[1] /\ Head(down) \in [kind : Kind, connection : Nat]
        /\ 1 \in 1..Len(down)
        /\ Tail(down) \in Seq([kind : Kind, connection : Nat])
        /\ Len(Tail(down)) = Len(down) - 1
        /\ \A i \in 1..Len(Tail(down)) : Tail(down)[i] = down[i + 1]
    <3>1. \A S, queue : queue \in Seq(S) /\ queue # << >> =>
            /\ Head(queue) = queue[1] /\ Head(queue) \in S /\ 1 \in 1..Len(queue)
            /\ Tail(queue) \in Seq(S) /\ Len(Tail(queue)) = Len(queue) - 1
            /\ \A i \in 1..Len(Tail(queue)) : Tail(queue)[i] = queue[i + 1]
      BY HeadTailProperties
    <3> QED
      BY <2>1, <3>1
  <2>3. UNCHANGED <<connection, socket, breakpoints, kept, up, endpoint>>
    BY <1>7 DEF Deliver
  <2>4. Head(down).connection = connection /\ Head(down).kind \in Kind
    BY <2>1, <2>2
  <2>5. TypeOK'
    BY <1>7, <2>2, <2>3, <2>4 DEF Deliver, IInv, TypeOK, endpoint
  <2>6. ResultsOfConnection'
    BY <1>7, <2>3, <2>4 DEF Deliver, IInv, TypeOK, ResultsOfConnection
  <2>7. DownOfConnection'
    <3>1. Len(down) \in Nat
      BY <2>1
    <3> SUFFICES ASSUME NEW i \in 1..Len(Tail(down))
                 PROVE  Tail(down)[i].connection = connection
      BY <1>7, <2>3 DEF Deliver, DownOfConnection
    <3>2. i + 1 \in 1..Len(down)
      BY <3>1, <2>2
    <3> QED
      BY <3>2, <2>1, <2>2
  <2> QED
    BY <2>3, <2>5, <2>6, <2>7, AnswersKeep
<1>8. ASSUME NEW line \in Line, ToggleBreakpoint(line)
      PROVE  IInv'
  BY <1>8, ToggleKeeps
<1> QED
  BY <1>2, <1>3, <1>4, <1>5, <1>6, <1>7, <1>8 DEF Browser

\* Lemma: a message served leaves every line told, and InGdb of a line that it is
\* not about and does not touch.
LEMMA ServedTold ==
  ASSUME IInv, up # << >>, up' = Tail(up), UNCHANGED breakpoints
  PROVE  /\ up' \in Seq(Message)
         /\ AllTold'
         /\ \A line : /\ InGdb(line) /\ 1 \notin About(line, up)
                      /\ inserted'[line] = inserted[line]
                      /\ line \in table' <=> line \in table
                      => InGdb(line)'
<1>1. up \in Seq(Message) /\ \A line \in Line : Told(line, up, breakpoints)
  BY DEF IInv, TypeOK, AllTold
<1>2. up' \in Seq(Message)
  BY <1>1, TailAbout
<1>3. \A line \in Line : Told(line, up', breakpoints')
  BY <1>1, TailTold
<1>4. ASSUME NEW line, 1 \notin About(line, up)
      PROVE  /\ About(line, up') = {} => About(line, up) = {}
             /\ AwaitsAdd(line, up') => AwaitsAdd(line, up)
  BY <1>1, <1>4, TailOther
<1> QED
  BY <1>2, <1>3, <1>4 DEF AllTold, InGdb

\* Lemma: a message that is not about a line leaves the agreement, whether a new
\* session is made, none is left, or nothing changes.
LEMMA OtherServed ==
  ASSUME IInv, up # << >>, up' = Tail(up), Head(up).type \notin {"add", "remove"},
         UNCHANGED panels,
         down' \in Seq([kind : Kind, connection : Nat]), DownOfConnection',
         NewSession \/ (\E left \in {"none", "gone"} : NoSession(left)) \/ UNCHANGED endpoint
  PROVE  IInv'
<1> USE DEF IInv, panels, endpoint
<1>1. up' \in Seq(Message) /\ AllTold'
  BY ServedTold
<1>2. \A line : 1 \notin About(line, up)
  BY DEF About, TypeOK
<1>3. \A line : About(line, up') = {} => About(line, up) = {}
  BY <1>2, TailOther DEF TypeOK
<1>4. TypeOK'
  <2>1. inserted' \in [Line -> Nat] /\ table' \subseteq Line
    BY DEF NewSession, NoSession, TypeOK
  <2>2. session' \in {"none", "alive", "gone"} /\ doubt' \subseteq Line
    BY DEF NewSession, NoSession, TypeOK
  <2> QED
    BY <1>1, <2>1, <2>2 DEF TypeOK
<1>5. OnlyWhenOpen' /\ NumberedIsThere' /\ ResultsOfConnection'
  BY DEF OnlyWhenOpen, NumberedIsThere, ResultsOfConnection, NewSession, NoSession
<1>6. AllInGdb'
  <2>1. CASE NewSession
    <3> SUFFICES ASSUME NEW line \in Line, line \notin doubt'
                 PROVE  InGdb(line)'
      BY DEF AllInGdb
    <3>1. About(line, up) = {} => line \notin breakpoints
      BY <2>1 DEF NewSession, TypeOK
    <3> QED
      BY <2>1, <3>1, <1>3 DEF NewSession, InGdb
  <2>2. CASE \E left \in {"none", "gone"} : NoSession(left)
    BY <2>2 DEF NoSession, AllInGdb
  <2>3. CASE UNCHANGED endpoint
    BY <2>3, <1>2, ServedTold DEF AllInGdb
  <2> QED
    BY <2>1, <2>2, <2>3
<1> QED
  BY <1>1, <1>4, <1>5, <1>6

\* Lemma: a message about a line leaves the agreement when no other line is touched,
\* and this one is doubted or follows the message.
LEMMA LineServed ==
  ASSUME IInv, up # << >>, up' = Tail(up), UNCHANGED <<panels, down, session>>,
         NEW line \in Line, Head(up).type \in {"add", "remove"}, Head(up).line = line,
         table' \subseteq Line, inserted' \in [Line -> Nat],
         doubt' \in {doubt, doubt \cup {line}},
         \A other \in Line : other # line =>
           inserted'[other] = inserted[other] /\ (other \in table' <=> other \in table),
         line \in table' => inserted'[line] > 0,
         session = "alive" /\ line \notin doubt' /\ InGdb(line) => InGdb(line)'
  PROVE  IInv'
<1> USE DEF IInv, panels
<1>1. up' \in Seq(Message) /\ AllTold'
  BY ServedTold
<1>2. TypeOK'
  BY <1>1 DEF TypeOK
<1>3. OnlyWhenOpen' /\ ResultsOfConnection' /\ DownOfConnection' /\ NumberedIsThere'
  BY <1>2 DEF OnlyWhenOpen, ResultsOfConnection, DownOfConnection, NumberedIsThere, TypeOK
<1>4. AllInGdb'
  <2> SUFFICES ASSUME session = "alive", NEW other \in Line, other \notin doubt'
               PROVE  InGdb(other)'
    BY DEF AllInGdb
  <2>1. InGdb(other)
    BY DEF AllInGdb
  <2>2. CASE other = line
    BY <2>1, <2>2
  <2>3. CASE other # line
    <3>1. 1 \notin About(other, up)
      BY <2>3 DEF About, TypeOK
    <3> QED
      BY <2>1, <2>3, <3>1, ServedTold
  <2> QED
    BY <2>2, <2>3
<1> QED
  BY <1>1, <1>2, <1>3, <1>4

\* Lemma: what the messages say of the line that is served.
LEMMA HeadSays ==
  ASSUME IInv, up # << >>, Head(up).type \in {"add", "remove"}
  PROVE  /\ Head(up).line \in Line
         /\ About(Head(up).line, Tail(up)) = {} =>
              (Head(up).type = "add" <=> Head(up).line \in breakpoints)
         /\ Head(up).type = "add" =>
              AwaitsAdd(Head(up).line, up) /\ ~AwaitsAdd(Head(up).line, Tail(up))
<1>1. up \in Seq(Message) /\ Head(up) \in Message
  BY DEF IInv, TypeOK
<1>2. Head(up).line \in Line
  BY <1>1 DEF Message
<1>3. Told(Head(up).line, up, breakpoints)
  BY <1>2 DEF IInv, AllTold
<1> QED
  BY <1>1, <1>2, <1>3, HeadTold

\* Lemma: a breakpoint added where there is none, or removed where the table has its
\* number, is what the gutter shows once nothing else is on its way.
LEMMA ServeKeeps == IInv /\ Serve => IInv'
<1> SUFFICES ASSUME IInv, Serve
             PROVE  IInv'
  OBVIOUS
<1>1. up # << >> /\ up' = Tail(up) /\ UNCHANGED panels
  BY DEF Serve
<1>2. /\ Head(up) \in Message /\ table \subseteq Line /\ inserted \in [Line -> Nat]
      /\ doubt \subseteq Line /\ down \in Seq([kind : Kind, connection : Nat])
      /\ connection \in Nat
      /\ \A other \in table : inserted[other] > 0
  BY <1>1 DEF IInv, TypeOK, NumberedIsThere
<1>3. CASE Head(up).type = "add" /\ AddBreakpoint(Head(up).line) /\ UNCHANGED down
  <2>0. PICK line \in Line : line = Head(up).line
    BY <1>1, <1>3, HeadSays
  <2>1. /\ About(line, up') = {} => line \in breakpoints
        /\ AwaitsAdd(line, up) /\ ~AwaitsAdd(line, up')
    BY <2>0, <1>1, <1>3, HeadSays
  <2>2. /\ table' \in {table, table \cup {line}}
        /\ inserted' \in {inserted, [inserted EXCEPT ![line] = @ + 1]}
        /\ doubt' \in {doubt, doubt \cup {line}}
        /\ session' = session
        /\ line \notin doubt' => table' = table \cup {line} /\ inserted' = [inserted EXCEPT ![line] = @ + 1]
        /\ inserted' = inserted => table' = table
    BY <2>0, <1>2, <1>3 DEF AddBreakpoint, Doubted
  <2>3. inserted[line] \in Nat
    BY <2>1, <1>2
  <2>4. /\ table' \subseteq Line /\ inserted' \in [Line -> Nat]
        /\ \A other \in Line : other # line =>
             inserted'[other] = inserted[other] /\ (other \in table' <=> other \in table)
        /\ line \in table' => inserted'[line] > 0
    BY <2>1, <2>2, <2>3, <1>2
  <2>5. line \notin doubt' /\ InGdb(line) => InGdb(line)'
    BY <2>1, <2>2, <2>3, <1>1, <1>2 DEF InGdb, panels
  <2>6. Head(up).type \in {"add", "remove"} /\ Head(up).line = line
    BY <2>0, <1>3
  <2> QED
    BY <2>1, <2>2, <2>4, <2>5, <2>6, <1>1, <1>3, LineServed
<1>4. CASE Head(up).type = "remove" /\ RemoveBreakpoint(Head(up).line) /\ UNCHANGED down
  <2>0. PICK line \in Line : line = Head(up).line
    BY <1>1, <1>4, HeadSays
  <2>1. /\ About(line, up') = {} => line \notin breakpoints
    BY <2>0, <1>1, <1>4, HeadSays
  <2> DEFINE deleted == [inserted EXCEPT ![line] = IF line \in table THEN @ - 1 ELSE @]
  <2>2. inserted[line] \in Nat /\ deleted \in [Line -> Nat]
    BY <2>1, <1>2
  <2>3. /\ session' = session
        /\ doubt' \in {doubt, doubt \cup {line}}
        /\ inserted' \in {inserted, deleted}
        /\ table' = table \ {line} \/ (table' = table /\ inserted' = inserted)
        /\ line \notin doubt' => table' = table \ {line} /\ inserted' = deleted
    BY <2>0, <1>4 DEF RemoveBreakpoint, Doubted
  <2>4. /\ table' \subseteq Line /\ inserted' \in [Line -> Nat]
        /\ \A other \in Line : other # line =>
             inserted'[other] = inserted[other] /\ (other \in table' <=> other \in table)
        /\ line \in table' => inserted'[line] > 0
    BY <2>1, <2>2, <2>3, <1>2
  <2>5. line \notin doubt' /\ InGdb(line) => InGdb(line)'
    BY <2>1, <2>2, <2>3, <1>1, <1>2 DEF InGdb, panels
  <2>6. Head(up).type \in {"add", "remove"} /\ Head(up).line = line
    BY <2>0, <1>4
  <2> QED
    BY <2>1, <2>3, <2>4, <2>5, <2>6, <1>1, <1>4, LineServed
<1>5. CASE Head(up).type \in {"run", "reset"} /\ (Run \/ ResetSession) /\ UNCHANGED down
  <2>1. NewSession \/ (\E left \in {"none", "gone"} : NoSession(left)) \/ UNCHANGED endpoint
    BY <1>5 DEF Run, ResetSession
  <2>2. DownOfConnection'
    BY <1>1, <1>5 DEF IInv, DownOfConnection, panels
  <2> QED
    BY <2>1, <2>2, <1>1, <1>2, <1>5, OtherServed
<1>6. CASE /\ Head(up).type = "ask"
           /\ down' = Append(down, [kind |-> Head(up).kind, connection |-> connection])
           /\ UNCHANGED endpoint
  <2> DEFINE answer == [kind |-> Head(up).kind, connection |-> connection]
  <2>1. answer \in [kind : Kind, connection : Nat] /\ answer.connection = connection
    BY <1>2, <1>6 DEF Message
  <2> HIDE DEF answer
  <2>2. /\ Append(down, answer) \in Seq([kind : Kind, connection : Nat])
        /\ \A i \in 1..Len(Append(down, answer)) : i \in 1..Len(down) \/ Append(down, answer)[i] = answer
        /\ \A i \in 1..Len(down) : Append(down, answer)[i] = down[i]
    <3>1. \A S, queue, a : queue \in Seq(S) /\ a \in S =>
            /\ Append(queue, a) \in Seq(S) /\ Len(Append(queue, a)) = Len(queue) + 1
            /\ Len(queue) \in Nat
            /\ \A i \in 1..Len(queue) : Append(queue, a)[i] = queue[i]
            /\ Append(queue, a)[Len(queue) + 1] = a
      BY AppendProperties
    <3>2. /\ Append(down, answer) \in Seq([kind : Kind, connection : Nat])
          /\ Len(Append(down, answer)) = Len(down) + 1 /\ Len(down) \in Nat
          /\ \A i \in 1..Len(down) : Append(down, answer)[i] = down[i]
          /\ Append(down, answer)[Len(down) + 1] = answer
      BY <3>1, <2>1, <1>2
    <3> QED
      BY <3>2
  <2>3. down' = Append(down, answer)
    BY <1>6 DEF answer
  <2>4. DownOfConnection'
    BY <2>1, <2>2, <2>3, <1>1 DEF IInv, DownOfConnection, panels
  <2> QED
    BY <2>2, <2>3, <2>4, <1>1, <1>6, OtherServed
<1>7. CASE Head(up).type = "ask" /\ UNCHANGED <<down, endpoint>>
  <2>1. DownOfConnection'
    BY <1>1, <1>7 DEF IInv, DownOfConnection, panels
  <2> QED
    BY <2>1, <1>1, <1>2, <1>7, OtherServed
<1> QED
  BY <1>3, <1>4, <1>5, <1>6, <1>7 DEF Serve

\* Lemma: a refused message leaves its line in doubt.
LEMMA RefuseKeeps == IInv /\ Refuse => IInv'
<1> SUFFICES ASSUME IInv, Refuse
             PROVE  IInv'
  OBVIOUS
<1> USE DEF Refuse, panels, endpoint
<1>1. CASE Head(up).type \in {"add", "remove"}
  <2>1. Head(up).line \in Line
    BY <1>1, HeadSays
  <2>2. /\ table \subseteq Line /\ inserted \in [Line -> Nat]
        /\ \A line \in table : inserted[line] > 0
    BY DEF IInv, TypeOK, NumberedIsThere
  <2> QED
    BY <1>1, <2>1, <2>2, LineServed
<1>2. CASE Head(up).type \notin {"add", "remove"}
  <2>1. down' \in Seq([kind : Kind, connection : Nat]) /\ DownOfConnection'
    BY DEF IInv, TypeOK, DownOfConnection
  <2> QED
    BY <1>2, <2>1, OtherServed
<1> QED
  BY <1>1, <1>2

\* Lemma: no agreement is asked for without a session.
LEMMA EvictKeeps == IInv /\ Evict => IInv'
<1> SUFFICES ASSUME IInv, Evict
             PROVE  IInv'
  OBVIOUS
<1> USE DEF Evict, NoSession, panels, IInv
<1>1. TypeOK'
  BY DEF TypeOK
<1>2. ResultsOfConnection' /\ DownOfConnection' /\ OnlyWhenOpen' /\ NumberedIsThere' /\ AllInGdb'
  BY DEF ResultsOfConnection, DownOfConnection, OnlyWhenOpen, NumberedIsThere, AllInGdb
<1>3. AllTold'
  BY DEF AllTold
<1> QED
  BY <1>1, <1>2, <1>3

----------------------------------------------------------------------------
(* The theorems                                                            *)

\* Theorem: the messages on their way about a line alternate and end with what the
\* gutter shows, and what GDB has is what they started from.
THEOREM Inductive == Spec => []IInv
<1>1. IInv /\ [Next]_vars => IInv'
  <2> SUFFICES ASSUME IInv, [Next]_vars
               PROVE  IInv'
    OBVIOUS
  <2>1. CASE UNCHANGED vars
    BY <2>1, AnswersKeep
    DEF vars, panels, endpoint, IInv, TypeOK, ResultsOfConnection, DownOfConnection
  <2> QED
    BY <2>1, BrowserKeeps, ServeKeeps, RefuseKeeps, EvictKeeps DEF Next
<1> QED
  BY <1>1, Initial, PTL DEF Spec

\* Theorem: channels, tables and panels keep their types; a removed breakpoint had a
\* number, so that GDB never counts below none.
THEOREM TypeCorrect == Spec => []TypeOK
<1>1. IInv => TypeOK
  BY DEF IInv
<1> QED
  BY <1>1, Inductive, PTL

\* Theorem: the gutter and GDB agree on every line that nothing is on its way about
\* and nothing failed for, with any number of messages under way.
THEOREM Agreement == Spec => []BreakpointsAgree
<1>1. IInv => BreakpointsAgree
  BY DEF IInv, AllInGdb, InGdb, BreakpointsAgree
<1> QED
  BY <1>1, Inductive, PTL

\* Theorem: an answer the hook holds is of the connection that is shown.
THEOREM AnswersOfConnection == Spec => []ResultsOfConnection
<1>1. IInv => ResultsOfConnection
  BY DEF IInv
<1> QED
  BY <1>1, Inductive, PTL
=============================================================================
