---------------------------- MODULE OfflineProofs ----------------------------
(***************************************************************************)
(* The workbench without a session, for any number of traces under way, of  *)
(* any length, and whatever GDB prints.                                    *)
(***************************************************************************)
EXTENDS Offline, Recurrence, SequenceTheorems, TLAPS

----------------------------------------------------------------------------
(* The sequences that are cut down: a recording to its steps, the history   *)

\* Lemma: the elements that are kept are some of those there were, and no other ones
\* twice.
LEMMA ThoseFacts ==
  ASSUME NEW X, NEW s \in Seq(X), NEW S
  PROVE  /\ Those(s, S) \in Seq(X \cap S)
         /\ Len(Those(s, S)) <= Len(s)
         /\ IsInjective(s) => IsInjective(Those(s, S))
<1> DEFINE n       == Len(s)
           Y       == X \cap S
           some(t, i) == \A j \in 1..Len(t) : \E h \in 1..i : t[j] = s[h]
           once(t) == \A j, h \in 1..Len(t) : t[j] = t[h] => j = h
           set(i)  == { t \in Seq(Y) : Len(t) <= i /\ some(t, i) /\ (IsInjective(s) => once(t)) }
           I       == [i \in 0..n |-> set(i)]
           e       == << >>
           op      == [p \in (1..n) \X Seq(Y) |-> IF s[p[1]] \in S THEN Append(p[2], s[p[1]]) ELSE p[2]]
           value(f, i) == IF i = 0 THEN << >>
                          ELSE IF s[i] \in S THEN Append(f[i - 1], s[i]) ELSE f[i - 1]
<1>0. n \in Nat /\ \A i \in 1..n : s[i] \in X
  OBVIOUS
<1>a. ASSUME NEW i \in 0..n, NEW t
      PROVE  t \in I[i] <=> /\ t \in Seq(Y) /\ Len(t) <= i /\ some(t, i)
                            /\ IsInjective(s) => once(t)
  <2>1. I[i] = set(i)
    OBVIOUS
  <2>2. t \in set(i) <=> t \in Seq(Y) /\ Len(t) <= i /\ some(t, i) /\ (IsInjective(s) => once(t))
    OBVIOUS
  <2> HIDE DEF set, I
  <2> QED
    BY <2>1, <2>2
<1> HIDE DEF I
<1>1. e \in I[0]
  <2>1. 0 \in 0..n /\ e \in Seq(Y) /\ Len(e) <= 0 /\ Len(e) = 0 /\ 1..0 = {}
    BY <1>0
  <2>2. some(e, 0) /\ once(e)
    BY <2>1
  <2> HIDE DEF e
  <2> QED
    BY <1>a, <2>1, <2>2
<1>2. ASSUME NEW i \in 1..n, NEW t \in I[i - 1]
      PROVE  op[<<i, t>>] \in I[i] /\ op[<<i, t>>] = IF s[i] \in S THEN Append(t, s[i]) ELSE t
  <2>0. i \in Nat \ {0} /\ i \in 0..n /\ i - 1 \in 0..n
    BY <1>0
  <2>1. t \in Seq(Y) /\ Len(t) \in Nat /\ Len(t) <= i - 1 /\ some(t, i - 1) /\ (IsInjective(s) => once(t))
    BY <1>a, <2>0
  <2>2. op[<<i, t>>] = IF s[i] \in S THEN Append(t, s[i]) ELSE t
    BY <2>1
  <2> HIDE DEF op
  <2>3. CASE s[i] \notin S
    <3>1. some(t, i)
      BY <2>0, <2>1
    <3> QED
      BY <1>a, <2>0, <2>1, <2>2, <2>3, <3>1
  <2>4. CASE s[i] \in S
    <3> DEFINE u == Append(t, s[i])
    <3>1. /\ u \in Seq(Y) /\ Len(u) = Len(t) + 1
          /\ u[Len(t) + 1] = s[i] /\ \A j \in 1..Len(t) : u[j] = t[j]
      <4>1. s[i] \in Y
        BY <1>0, <2>4
      <4> QED
        BY <2>1, <4>1, AppendProperties
    <3> HIDE DEF u
    <3>2. \A j \in 1..Len(u) : j = Len(t) + 1 \/ j \in 1..Len(t)
      BY <2>1, <3>1
    <3>3. some(u, i)
      <4> TAKE j \in 1..Len(u)
      <4>1. CASE j = Len(t) + 1
        <5>1. i \in 1..i
          BY <2>0
        <5> QED
          BY <3>1, <4>1, <5>1
      <4>2. CASE j \in 1..Len(t)
        <5>1. PICK h \in 1..(i - 1) : t[j] = s[h]
          BY <2>1, <4>2
        <5>2. h \in 1..i
          BY <2>0
        <5> QED
          BY <3>1, <4>2, <5>1, <5>2
      <4> QED
        BY <3>2, <4>1, <4>2
    <3>4. ASSUME IsInjective(s) PROVE once(u)
      <4>1. ASSUME NEW j \in 1..Len(t) PROVE t[j] # s[i]
        <5>1. PICK h \in 1..(i - 1) : t[j] = s[h]
          BY <2>1
        <5>2. h \in DOMAIN s /\ i \in DOMAIN s /\ h # i
          BY <1>0, <2>0
        <5> QED
          BY <3>4, <5>1, <5>2 DEF IsInjective
      <4>2. once(t)
        BY <2>1, <3>4
      <4> QED
        BY <3>1, <3>2, <4>1, <4>2
    <3>5. Len(u) <= i
      BY <2>0, <2>1, <3>1
    <3>6. op[<<i, t>>] = u
      BY <2>2, <2>4 DEF u
    <3>7. u \in I[i]
      BY <1>a, <2>0, <3>1, <3>3, <3>4, <3>5
    <3> QED
      BY <2>4, <3>6, <3>7 DEF u
  <2> QED
    BY <2>2, <2>3, <2>4
<1>b. PICK f : Follows(f, n, e, op) /\ Within(f, n, I)
  <2>1. Leads(op, n, I)
    BY <1>2 DEF Leads
  <2>2. n \in Nat
    BY <1>0
  <2> HIDE DEF op, n, e
  <2> QED
    BY <1>1, <2>1, <2>2, Recursion
<1>3. /\ f[0] = e
      /\ \A i \in 1..n : f[i] = op[<<i, f[i - 1]>>]
      /\ \A i \in 0..n : f[i] \in I[i]
  <2> HIDE DEF op, n, e
  <2> QED
    BY <1>b DEF Follows, Within
<1>4. ASSUME NEW i \in 0..n PROVE f[i] = value(f, i)
  <2>1. CASE i = 0
    BY <1>3, <2>1
  <2>2. CASE i # 0
    <3>1. i \in 1..n /\ i - 1 \in 0..n
      BY <1>0, <2>2
    <3> HIDE DEF op
    <3> QED
      BY <1>2, <1>3, <2>2, <3>1
  <2> QED
    BY <2>1, <2>2
<1> DEFINE kept == CHOOSE k : k = [i \in 0..n |-> value(k, i)]
<1>5. Those(s, S) = kept[n]
  BY DEF Those
<1>6. kept = [i \in 0..n |-> value(kept, i)]
  <2> DEFINE g == [i \in 0..n |-> f[i]]
  <2>1. \A i \in 0..n : g[i] = f[i]
    OBVIOUS
  <2>2. g = [i \in 0..n |-> g[i]]
    OBVIOUS
  <2> HIDE DEF g
  <2>3. ASSUME NEW i \in 0..n PROVE g[i] = value(g, i)
    <3>1. i # 0 => i - 1 \in 0..n
      BY <1>0
    <3> QED
      BY <1>4, <2>1, <3>1
  <2>4. g = [i \in 0..n |-> value(g, i)]
    BY <2>2, <2>3
  <2> QED
    BY <2>4
<1>7. ASSUME NEW i \in 0..n PROVE kept[i] = f[i]
  <2> DEFINE Same == { k \in 0..n : kept[k] = f[k] }
  <2>1. 0 \in Same
    <3>1. 0 \in 0..n
      BY <1>0
    <3> HIDE DEF kept, op
    <3> QED
      BY <1>4, <1>6, <3>1
  <2>2. ASSUME NEW k \in 1..n, k - 1 \in Same PROVE k \in Same
    <3>1. k \in 0..n /\ k # 0
      BY <1>0
    <3> HIDE DEF kept, op
    <3> QED
      BY <1>4, <1>6, <2>2, <3>1
  <2> HIDE DEF Same
  <2>3. 0..n \subseteq Same
    BY <1>0, <2>1, <2>2, Induction
  <2> QED
    BY <2>3 DEF Same
<1>8. Those(s, S) \in I[n]
  <2>1. n \in 0..n
    BY <1>0
  <2> HIDE DEF kept, op
  <2> QED
    BY <1>3, <1>5, <1>7, <2>1
<1>9. Those(s, S) \in Seq(Y) /\ Len(Those(s, S)) <= n /\ (IsInjective(s) => once(Those(s, S)))
  <2>1. n \in 0..n
    BY <1>0
  <2> HIDE DEF op, kept
  <2> QED
    BY <1>a, <1>8, <2>1
<1> QED
  BY <1>9 DEF IsInjective

\* Lemma: a trace has no more steps than the GDB script asks for.
LEMMA TraceFacts ==
  ASSUME NEW t \in Trace
  PROVE  Len(t) \in 0..MaxSteps /\ (t # << >> => Len(t) > 0)
<1>1. PICK raw \in Recording : t = ParseGdbTrace(raw)
  BY DEF Trace
<1> DEFINE steps == Those(raw, { block \in Block : block.regs })
           n     == Len(steps)
<1>2. raw \in Seq(Block) /\ Len(raw) <= MaxSteps
  BY RecordingAssumption
<1>3. n \in Nat /\ n <= Len(raw)
  <2> DEFINE X == Block
             S == { block \in Block : block.regs }
  <2>1. Those(raw, S) \in Seq(X \cap S) /\ Len(Those(raw, S)) <= Len(raw)
    <3> HIDE DEF X, S
    <3>1. raw \in Seq(X)
      BY <1>2 DEF X
    <3> QED
      BY <3>1, ThoseFacts
  <2> HIDE DEF X, S
  <2>2. Len(Those(raw, S)) \in Nat
    BY <2>1
  <2> QED
    BY <2>1, <2>2 DEF S
<1>4. t = [i \in 1..n |-> IF steps[i].line = NoLine THEN 1 ELSE steps[i].line]
  BY <1>1 DEF ParseGdbTrace
<1> HIDE DEF n, steps
<1>5. Len(t) = n
  BY <1>3, <1>4
<1>6. n = 0 => t = << >>
  BY <1>4
<1> QED
  BY <1>2, <1>3, <1>5, <1>6, MaxStepsAssumption

\* What is kept of a history: programs, each once, and no more than HISTORY_MAX.
IsHistory(programs) ==
  programs \in Seq(Program) /\ Len(programs) <= HISTORY_MAX /\ IsInjective(programs)

\* Lemma: the first HISTORY_MAX programs.
LEMMA KeptFacts ==
  ASSUME NEW programs \in Seq(Program), IsInjective(programs)
  PROVE  IsHistory(Kept(programs))
<1> DEFINE n == Min({Len(programs), HISTORY_MAX})
<1>1. Len(programs) \in Nat /\ HISTORY_MAX \in Nat
  BY HistoryMaxAssumption
<1>2. n \in Nat /\ n <= Len(programs) /\ n <= HISTORY_MAX
  <2> DEFINE S == {Len(programs), HISTORY_MAX}
  <2>1. \E x \in S : \A y \in S : x <= y
    <3>1. CASE Len(programs) <= HISTORY_MAX
      BY <1>1, <3>1
    <3>2. CASE HISTORY_MAX <= Len(programs)
      BY <1>1, <3>2
    <3> QED
      BY <1>1, <3>1, <3>2
  <2>2. Min(S) \in S /\ \A y \in S : Min(S) <= y
    <3> HIDE DEF S
    <3> QED
      BY <2>1 DEF Min
  <2> QED
    BY <1>1, <2>2
<1> HIDE DEF n
<1>3. Kept(programs) = SubSeq(programs, 1, n)
  BY DEF Kept, n
<1>4. /\ SubSeq(programs, 1, n) \in Seq(Program) /\ Len(SubSeq(programs, 1, n)) = n
      /\ \A i \in 1..n : SubSeq(programs, 1, n)[i] = programs[i]
  <2>1. \A i \in 1..n : programs[i] \in Program
    BY <1>1, <1>2
  <2> QED
    BY <1>1, <1>2, <2>1, SubSeqProperties
<1>5. IsInjective(Kept(programs))
  <2>1. DOMAIN Kept(programs) = 1..n /\ \A i \in 1..n : i \in DOMAIN programs
    BY <1>1, <1>2, <1>3, <1>4
  <2> QED
    BY <1>3, <1>4, <2>1 DEF IsInjective
<1> QED
  BY <1>2, <1>3, <1>4, <1>5 DEF IsHistory

\* Lemma: saving a program leaves a history.
LEMMA SavedFacts ==
  ASSUME IsHistory(history), NEW code \in Program \cup {Blank}
  PROVE  IsHistory(Saved(code))
<1>1. CASE code = Blank
  BY <1>1 DEF Saved
<1>2. CASE code # Blank
  <2> DEFINE S == Program \ {code}
             t == Those(history, S)
             u == << code >> \o t
  <2>1. t \in Seq(S) /\ IsInjective(t)
    <3>1. history \in Seq(Program) /\ IsInjective(history) /\ Program \cap S = S
      BY DEF IsHistory
    <3>2. Those(history, S) \in Seq(Program \cap S) /\ IsInjective(Those(history, S))
      <4> HIDE DEF S
      <4> QED
        BY <3>1, ThoseFacts
    <3> HIDE DEF S
    <3> QED
      BY <3>1, <3>2
  <2> HIDE DEF t
  <2>2. Len(t) \in Nat /\ \A i \in 1..Len(t) : t[i] \in Program /\ t[i] # code
    BY <2>1
  <2>3. code \in Program /\ t \in Seq(Program) /\ << code >> \in Seq(Program) /\ Len(<< code >>) = 1
    <3>1. code \in Program
      BY <1>2
    <3> QED
      BY <2>1, <3>1
  <2>4. /\ u \in Seq(Program) /\ Len(u) = Len(t) + 1
        /\ u[1] = code /\ \A i \in 2..Len(u) : u[i] = t[i - 1]
    <3>1. /\ u \in Seq(Program) /\ Len(u) = Len(<< code >>) + Len(t)
          /\ \A i \in 1..Len(u) : u[i] = IF i <= Len(<< code >>) THEN << code >>[i] ELSE t[i - Len(<< code >>)]
      BY <2>3, ConcatProperties
    <3> QED
      BY <2>2, <2>3, <3>1
  <2> HIDE DEF u
  <2>5. IsInjective(u)
    <3>1. DOMAIN u = 1..Len(u) /\ DOMAIN t = 1..Len(t)
      BY <2>1, <2>4
    <3>2. \A i \in 1..Len(u) : i = 1 \/ (i \in 2..Len(u) /\ i - 1 \in 1..Len(t))
      BY <2>2, <2>4
    <3>3. ASSUME NEW i \in 1..Len(u), NEW j \in 1..Len(u), u[i] = u[j] PROVE i = j
      <4>1. CASE i = 1 \/ j = 1
        BY <2>2, <2>4, <3>2, <3>3, <4>1
      <4>2. CASE i # 1 /\ j # 1
        <5>1. t[i - 1] = t[j - 1] /\ i - 1 \in DOMAIN t /\ j - 1 \in DOMAIN t
          BY <2>4, <3>1, <3>2, <3>3, <4>2
        <5>2. i - 1 = j - 1
          BY <2>1, <5>1 DEF IsInjective
        <5> QED
          BY <2>2, <5>2
      <4> QED
        BY <4>1, <4>2
    <3> QED
      BY <3>1, <3>3 DEF IsInjective
  <2>6. Saved(code) = Kept(u)
    BY <1>2 DEF Saved, t, u
  <2> QED
    BY <2>4, <2>5, <2>6, KeptFacts
<1> QED
  BY <1>1, <1>2

----------------------------------------------------------------------------
(* The build server                                                        *)

\* Lemma: serving, removing directories, failing and starting again keep the types.
LEMMA ServerStep ==
  ASSUME TypeOKServer, ServerNext \/ Restart
  PROVE  TypeOKServer'
<1> DEFINE Answers == {NoAnswer, Failed, Lost} \cup { Traced(steps) : steps \in Trace }
<1>1. /\ phase \in [Request -> Phase] /\ answer \in [Request -> Answers] /\ up \in BOOLEAN
      /\ made \subseteq Request /\ removing \subseteq Request /\ given \subseteq Request
  BY DEF TypeOKServer
<1>2. ASSUME NEW r \in Request, NEW from, NEW reply \in Answers, Respond(r, from, reply)
      PROVE  TypeOKServer'
  <2>1. "over" \in Phase
    BY DEF Phase
  <2>2. phase' \in [Request -> Phase] /\ answer' \in [Request -> Answers]
    <3> HIDE DEF Answers
    <3> QED
      BY <1>1, <1>2, <2>1 DEF Respond, Becomes
  <2> QED
    BY <1>1, <1>2, <2>2 DEF Respond, TypeOKServer
<1>3. ASSUME NEW r \in Request, NEW from, NEW to \in Phase, Advance(r, from, to)
      PROVE  TypeOKServer'
  BY <1>1, <1>3 DEF Advance, Becomes, TypeOKServer
<1>4. ASSUME NEW r \in Request, Serve(r) PROVE TypeOKServer'
  <2>1. Phase = {"idle", "received", "source", "assembling", "linking", "script", "tracing", "running", "over"}
    BY DEF Phase
  <2>2. Failed \in Answers
    OBVIOUS
  <2>3. CASE Refuse(r)
    BY <1>2, <2>2, <2>3 DEF Refuse
  <2>4. CASE MakeDirectory(r)
    <3>1. phase' \in [Request -> Phase]
      BY <1>1, <2>1, <2>4 DEF MakeDirectory, Becomes
    <3> QED
      BY <1>1, <2>4, <3>1 DEF MakeDirectory, TypeOKServer
  <2>5. CASE WriteSource(r)
    BY <1>3, <2>1, <2>5 DEF WriteSource
  <2>6. CASE Assemble(r)
    BY <1>2, <1>3, <2>1, <2>2, <2>6 DEF Assemble
  <2>7. CASE Link(r)
    BY <1>2, <1>3, <2>1, <2>2, <2>7 DEF Link
  <2>8. CASE WriteScript(r)
    BY <1>3, <2>1, <2>8 DEF WriteScript
  <2>9. CASE RunGdb(r)
    BY <1>3, <2>1, <2>9 DEF RunGdb
  <2>10. CASE Answer(r)
    <3>1. PICK recording \in Recording : Respond(r, "running", Traced(ParseGdbTrace(recording)))
      BY <2>10 DEF Answer
    <3>2. Traced(ParseGdbTrace(recording)) \in Answers
      BY DEF Trace
    <3> HIDE DEF Answers
    <3> QED
      BY <1>2, <3>1, <3>2
  <2> QED
    BY <1>4, <2>3, <2>4, <2>5, <2>6, <2>7, <2>8, <2>9, <2>10 DEF Serve
<1>5. ASSUME NEW r \in Request, RemoveDirectory(r) PROVE TypeOKServer'
  BY <1>1, <1>5 DEF RemoveDirectory, TypeOKServer
<1>6. ASSUME NEW r \in Request, FileFails(r) PROVE TypeOKServer'
  <2>1. "over" \in Phase
    BY DEF Phase
  <2>2. phase' \in [Request -> Phase]
    BY <1>1, <1>6, <2>1 DEF FileFails
  <2>3. answer' \in [Request -> Answers]
    <3>1. Lost \in Answers
      OBVIOUS
    <3> HIDE DEF Answers
    <3> QED
      BY <1>1, <1>6, <3>1 DEF FileFails
  <2> QED
    BY <1>1, <1>6, <2>2, <2>3 DEF FileFails, TypeOKServer
<1>7. CASE Restart
  BY <1>1, <1>7 DEF Restart, TypeOKServer
<1> QED
  BY <1>4, <1>5, <1>6, <1>7 DEF ServerNext

----------------------------------------------------------------------------
(* The workbench                                                           *)

\* Unless a trace has come that was not waited for, what the interval walks is the
\* trace on display.
PlayInTrace == ~overtaken /\ play.on => play.steps = traceSteps

IInv == TypeOK /\ PlayInTrace /\ StepInTrace

\* Lemma: the last step of what may be walked is at most MaxSteps.
LEMMA ShownFacts ==
  ASSUME NEW t \in Trace \cup {EmptySnap}
  PROVE  Len(t) \in Nat /\ Len(t) - 1 <= MaxSteps /\ (t # << >> => Len(t) >= 1)
<1>1. CASE t \in Trace
  BY <1>1, TraceFacts, MaxStepsAssumption
<1>2. CASE t = EmptySnap
  <2>1. Len(t) = 1
    BY <1>2 DEF EmptySnap
  <2> QED
    BY <2>1, MaxStepsAssumption
<1> QED
  BY <1>1, <1>2

\* Lemma: the facts of the types that the steps below need.
LEMMA StateFacts ==
  ASSUME TypeOK
  PROVE  /\ End \in 0..MaxSteps /\ step \in 0..MaxSteps /\ MaxSteps \in Nat
         /\ traceSteps \in Trace \cup {EmptySnap} /\ traceSteps # << >>
         /\ play.on \in BOOLEAN /\ (play.on => play.steps \in Trace \cup {EmptySnap})
         /\ IsHistory(history)
<1>1. EmptySnap # << >>
  BY DEF EmptySnap
<1>2. traceSteps \in Trace \cup {EmptySnap} /\ traceSteps # << >>
  BY <1>1 DEF TypeOK
<1>3. End \in 0..MaxSteps
  BY <1>2, ShownFacts, MaxStepsAssumption DEF End
<1>4. play.on \in BOOLEAN /\ (play.on => play.steps \in Trace \cup {EmptySnap})
  <2> DEFINE Shown == Trace \cup {EmptySnap}
             Lines == SUBSET BreakLine
  <2>1. play = NoPlay \/ play \in [on : {TRUE}, steps : Shown, stops : Lines]
    BY DEF TypeOK
  <2> HIDE DEF Shown, Lines
  <2>2. CASE play = NoPlay
    BY <2>2 DEF NoPlay
  <2>3. CASE play \in [on : {TRUE}, steps : Shown, stops : Lines]
    <3>1. play.on = TRUE /\ play.steps \in Shown
      BY <2>3
    <3> QED
      BY <3>1 DEF Shown
  <2> QED
    BY <2>1, <2>2, <2>3
<1> QED
  BY <1>2, <1>3, <1>4, MaxStepsAssumption DEF TypeOK, IsHistory

LEMMA Start == Init => IInv
<1> SUFFICES ASSUME Init PROVE IInv
  OBVIOUS
<1>1. TypeOKServer
  <2>1. "idle" \in Phase
    BY DEF Phase
  <2> QED
    BY <2>1 DEF Init, InitServer, TypeOKServer
<1>2. << >> \in Seq(Program) /\ Len(<< >>) <= HISTORY_MAX /\ IsInjective(<< >>)
  BY HistoryMaxAssumption DEF IsInjective
<1>3. TypeOK
  <2>1. traceSteps = EmptySnap /\ play = NoPlay /\ history = << >> /\ step = 0 /\ breakpoints = {}
        /\ isTracing = FALSE /\ overtaken = FALSE
    BY DEF Init
  <2>2. 0 \in 0..MaxSteps
    BY MaxStepsAssumption
  <2> QED
    BY <1>1, <1>2, <2>1, <2>2 DEF TypeOK
<1>4. PlayInTrace
  BY DEF Init, PlayInTrace, NoPlay
<1>5. StepInTrace
  BY <1>3, StateFacts DEF Init, StepInTrace
<1> QED
  BY <1>3, <1>4, <1>5 DEF IInv

\* Lemma: a new run and the answers.
LEMMA RunStep ==
  ASSUME IInv, NEW r \in Request, NEW code \in Program \cup {Blank},
         HandleRun(r, code) \/ AnswerArrives(r)
  PROVE  IInv'
<1> DEFINE Answers == {NoAnswer, Failed, Lost} \cup { Traced(steps) : steps \in Trace }
<1>0. TypeOK /\ PlayInTrace /\ StepInTrace
  BY DEF IInv
<1>1. /\ phase \in [Request -> Phase] /\ answer \in [Request -> Answers]
      /\ TypeOKServer
  BY <1>0 DEF TypeOK, TypeOKServer
<1>2. NoAnswer \in Answers /\ Lost \in Answers
  OBVIOUS
<1>3. CASE HandleRun(r, code)
  <2>1. TypeOKServer'
    <3>1. "received" \in Phase /\ "over" \in Phase
      BY DEF Phase
    <3>2. phase' \in [Request -> Phase]
      BY <1>1, <1>3, <3>1 DEF HandleRun, Receive
    <3>3. answer' \in [Request -> Answers]
      <4> HIDE DEF Answers
      <4> QED
        BY <1>1, <1>2, <1>3 DEF HandleRun, Receive
    <3> QED
      BY <1>1, <1>3, <3>2, <3>3 DEF HandleRun, Receive, TypeOKServer
  <2>2. IsHistory(history')
    <3>1. history' = Saved(code)
      BY <1>3 DEF HandleRun
    <3> QED
      BY <1>0, <3>1, StateFacts, SavedFacts
  <2>3. TypeOK'
    BY <1>0, <1>3, <2>1, <2>2 DEF HandleRun, TypeOK, IsHistory
  <2>4. StepInTrace' /\ PlayInTrace'
    BY <1>0, <1>3 DEF HandleRun, StepInTrace, PlayInTrace, End, NoPlay
  <2> QED
    BY <2>3, <2>4 DEF IInv
<1>4. CASE AnswerArrives(r)
  <2> DEFINE steps == answer[r].steps
  <2>1. answer' = [answer EXCEPT ![r] = NoAnswer]
    BY <1>4 DEF AnswerArrives
  <2>2. answer' \in [Request -> Answers]
    <3> HIDE DEF Answers
    <3> QED
      BY <1>1, <1>2, <2>1
  <2>3. TypeOKServer'
    BY <1>1, <1>4, <2>2 DEF AnswerArrives, TypeOKServer
  <2>4. CASE steps = << >>
    <3>1. UNCHANGED <<traceSteps, step, overtaken, breakpoints, play, history>> /\ isTracing' = FALSE
      BY <1>4, <2>4 DEF AnswerArrives
    <3> QED
      BY <1>0, <2>3, <3>1 DEF IInv, TypeOK, StepInTrace, PlayInTrace, End
  <2>5. CASE steps # << >>
    <3>1. /\ traceSteps' = steps /\ step' = 0 /\ overtaken' = play.on /\ isTracing' = FALSE
          /\ UNCHANGED <<breakpoints, play, history>>
      BY <1>4, <2>5 DEF AnswerArrives
    <3>2. steps \in Trace
      <4>1. answer[r] \in Answers
        <5> HIDE DEF Answers
        <5> QED
          BY <1>1
      <4> QED
        BY <2>5, <4>1 DEF NoAnswer, Failed, Lost, Traced
    <3>3. play.on \in BOOLEAN
      BY <1>0, StateFacts
    <3>4. TypeOK'
      <4>1. traceSteps' \in Trace \ {<< >>}
        BY <2>5, <3>1, <3>2
      <4> HIDE DEF steps
      <4>2. step' \in 0..MaxSteps
        BY <3>1, MaxStepsAssumption
      <4>3. isTracing' \in BOOLEAN /\ overtaken' \in BOOLEAN
        BY <3>1, <3>3, Zenon
      <4> QED
        BY <1>0, <2>3, <3>1, <4>1, <4>2, <4>3 DEF TypeOK
    <3>5. StepInTrace' /\ PlayInTrace'
      <4>1. (Len(steps) >= 1) /\ Len(steps) \in Nat
        BY <2>5, <3>2, ShownFacts
      <4> QED
        BY <3>1, <4>1 DEF StepInTrace, PlayInTrace, End
    <3> QED
      BY <3>4, <3>5 DEF IInv
  <2> QED
    BY <2>4, <2>5
<1> QED
  BY <1>3, <1>4

\* Lemma: walking the trace by hand, by the interval, and to a breakpoint.
LEMMA WalkStep == IInv /\ Walk => IInv'
<1> SUFFICES ASSUME IInv, Walk PROVE IInv'
  OBVIOUS
<1>0. TypeOK /\ PlayInTrace /\ StepInTrace
  BY DEF IInv
<1>1. /\ End \in 0..MaxSteps /\ step \in 0..MaxSteps /\ MaxSteps \in Nat
      /\ traceSteps \in Trace \cup {EmptySnap}
      /\ play.on => play.steps \in Trace \cup {EmptySnap}
  BY <1>0, StateFacts
<1>2. UNCHANGED server => TypeOKServer'
  BY <1>0 DEF TypeOK, TypeOKServer, server
<1>4. CASE StepNext
  <2>1. step' \in 0..MaxSteps /\ step' <= End
    BY <1>1, <1>4 DEF StepNext
  <2>2. TypeOK'
    BY <1>0, <1>2, <1>4, <2>1 DEF StepNext, TypeOK
  <2> QED
    BY <1>0, <1>4, <2>1, <2>2 DEF StepNext, IInv, PlayInTrace, StepInTrace, End
<1>5. CASE StepBack
  <2>1. step' \in 0..MaxSteps /\ step' <= step
    BY <1>1, <1>5 DEF StepBack
  <2>2. TypeOK'
    BY <1>0, <1>2, <1>5, <2>1 DEF StepBack, TypeOK
  <2>3. End' = End /\ (~overtaken => step' <= End)
    BY <1>0, <1>1, <1>5, <2>1 DEF StepBack, StepInTrace, End
  <2> QED
    BY <1>0, <1>5, <2>2, <2>3 DEF StepBack, IInv, PlayInTrace, StepInTrace
<1>6. CASE Reset
  <2>1. step' \in 0..MaxSteps /\ step' <= End /\ End' = End /\ play' = NoPlay
    BY <1>1, <1>6 DEF Reset, End
  <2>2. TypeOK'
    BY <1>0, <1>2, <1>6, <2>1 DEF Reset, TypeOK
  <2> QED
    BY <2>1, <2>2 DEF IInv, PlayInTrace, StepInTrace, NoPlay
<1>7. CASE HandleRunToBreakpoint
  <2> DEFINE stops == { s \in (step + 1)..End : At(traceSteps, s) \in breakpoints }
             least == CHOOSE s \in stops : \A t \in stops : s <= t
  <2>1. step' = IF stops = {} THEN End ELSE least
    BY <1>7 DEF HandleRunToBreakpoint
  <2>2. stops \in SUBSET (1..End)
    BY <1>1
  <2>3. stops # {} => least \in stops
    <3>1. stops # {} => \E s \in stops : \A t \in stops : s <= t
      <4>1. End \in Nat
        BY <1>1
      <4> HIDE DEF stops
      <4> QED
        BY <4>1, <2>2, LeastExists
    <3> HIDE DEF stops
    <3> QED
      BY <3>1
  <2> HIDE DEF stops, least
  <2>4. step' \in 0..MaxSteps /\ step' <= End
    BY <1>1, <2>1, <2>2, <2>3
  <2>5. play' = NoPlay \/ play' = play
    BY <1>7 DEF HandleRunToBreakpoint
  <2>6. TypeOK'
    BY <1>0, <1>2, <1>7, <2>4, <2>5 DEF HandleRunToBreakpoint, TypeOK
  <2> QED
    BY <1>0, <1>7, <2>4, <2>5, <2>6 DEF HandleRunToBreakpoint, IInv, PlayInTrace, StepInTrace, End, NoPlay
<1>8. CASE ToggleBreakpoint
  BY <1>0, <1>2, <1>8 DEF ToggleBreakpoint, TypeOK, IInv, PlayInTrace, StepInTrace, End
<1>9. CASE StartAutoStep
  <2>1. play' = [on |-> TRUE, steps |-> traceSteps, stops |-> breakpoints]
    BY <1>9 DEF StartAutoStep
  <2>2. TypeOK'
    BY <1>0, <1>1, <1>2, <1>9, <2>1 DEF StartAutoStep, TypeOK
  <2>3. PlayInTrace'
    BY <1>9, <2>1 DEF StartAutoStep, PlayInTrace
  <2>4. StepInTrace'
    BY <1>0, <1>9 DEF StartAutoStep, StepInTrace, End
  <2> QED
    BY <2>2, <2>3, <2>4 DEF IInv
<1>10. CASE StopAutoStep
  BY <1>0, <1>2, <1>10 DEF StopAutoStep, TypeOK, IInv, PlayInTrace, StepInTrace, End, NoPlay
<1>11. CASE AutoStepTick
  <2>1. /\ play.on
        /\ step' = IF step + 1 >= Len(play.steps) THEN step ELSE step + 1
        /\ play' = NoPlay \/ play' = play
        /\ UNCHANGED <<server, traceSteps, breakpoints, isTracing, overtaken, history>>
    BY <1>11 DEF AutoStepTick
  <2>2. Len(play.steps) \in Nat /\ Len(play.steps) - 1 <= MaxSteps
    BY <1>1, <2>1, ShownFacts
  <2>3. step' \in 0..MaxSteps
    BY <1>1, <2>1, <2>2
  <2>4. ~overtaken => step' <= End
    <3>1. ~overtaken => Len(play.steps) = End + 1 /\ step <= End
      BY <1>0, <1>1, <2>1, ShownFacts DEF PlayInTrace, StepInTrace, End
    <3> QED
      BY <1>1, <2>1, <2>2, <3>1
  <2>5. TypeOK'
    BY <1>0, <1>2, <2>1, <2>3 DEF TypeOK
  <2> QED
    BY <1>0, <2>1, <2>4, <2>5 DEF IInv, PlayInTrace, StepInTrace, End, NoPlay
<1> QED
  BY <1>4, <1>5, <1>6, <1>7, <1>8, <1>9, <1>10, <1>11 DEF Walk

\* Lemma: the invariant of the workbench and its build server is inductive.
LEMMA Inductive ==
  /\ Init => IInv
  /\ IInv /\ [Next]_vars => IInv'
<1>1. ASSUME IInv, [Next]_vars PROVE IInv'
  <2>0. TypeOK /\ PlayInTrace /\ StepInTrace
    BY <1>1 DEF IInv
  <2>1. CASE Walk
    BY <1>1, <2>1, WalkStep
  <2>2. ASSUME NEW r \in Request, NEW code \in Program \cup {Blank}, HandleRun(r, code) PROVE IInv'
    BY <1>1, <2>2, RunStep
  <2>3. ASSUME NEW r \in Request, AnswerArrives(r) PROVE IInv'
    BY <1>1, <2>3, RunStep
  <2>4. CASE (ServerNext \/ Restart) /\ UNCHANGED workbench
    <3>1. TypeOKServer'
      BY <2>0, <2>4, ServerStep DEF TypeOK
    <3> QED
      BY <2>0, <2>4, <3>1 DEF workbench, IInv, TypeOK, PlayInTrace, StepInTrace, End
  <2>5. CASE UNCHANGED vars
    BY <2>0, <2>5 DEF vars, server, workbench, IInv, TypeOK, TypeOKServer, PlayInTrace, StepInTrace, End
  <2> QED
    BY <1>1, <2>1, <2>2, <2>3, <2>4, <2>5 DEF Next
<1> QED
  BY <1>1, Start

\* The workbench without a session keeps its types: there is always a step to show,
\* the step asked for is at most MaxSteps, and the history holds at most HISTORY_MAX
\* programs, each once (App.tsx:39-52).
THEOREM TypeCorrect == Spec => []TypeOK
<1>1. IInv => TypeOK
  BY DEF IInv
<1> QED
  BY <1>1, Inductive, PTL DEF Spec

\* Whatever was walked, played, run to a breakpoint or answered meanwhile, the step
\* is one of the trace on display, except after a trace that came during the play
\* of an older one (App.tsx:226-232, 266-270).
THEOREM StepStaysInTrace == Spec => []StepInTrace
<1>1. IInv => StepInTrace
  BY DEF IInv
<1> QED
  BY <1>1, Inductive, PTL DEF Spec

----------------------------------------------------------------------------
(* What is left for the fairness to do                                     *)

\* While the button is busy there is a request that is being served or an answer on
\* its way: something under Fairness will make it usable again.
Awaited == isTracing => \E r \in Request : phase[r] \in Working \/ answer[r].kind # "none"

\* The directory of a request that is over is being removed or was given up; there
\* is none before the handler makes it.
Accounted ==
  \A r \in Request :
    /\ phase[r] \in {"idle", "received"} => r \notin made
    /\ phase[r] = "over" /\ r \in made => r \in removing \cup given
    /\ r \in removing => r \in made

FInv == TypeOKServer /\ Awaited /\ Accounted

\* Lemma: an answer and the end of its handler.
LEMMA RespondFacts ==
  ASSUME FInv, UNCHANGED isTracing, NEW r \in Request, NEW from, NEW reply,
         reply.kind # "none", Respond(r, from, reply)
  PROVE  Awaited' /\ Accounted'
<1>1. /\ phase' = [phase EXCEPT ![r] = "over"] /\ answer' = [answer EXCEPT ![r] = reply]
      /\ removing' = IF r \in made THEN removing \cup {r} ELSE removing
      /\ UNCHANGED <<made, given>>
  BY DEF Respond, Becomes
<1>2. DOMAIN phase = Request /\ DOMAIN answer = Request
  BY DEF FInv, TypeOKServer
<1>3. answer'[r].kind # "none"
  BY <1>1, <1>2
<1>4. Awaited'
  BY <1>3 DEF Awaited
<1>5. Accounted'
  <2> SUFFICES ASSUME NEW q \in Request
               PROVE  /\ phase'[q] \in {"idle", "received"} => q \notin made'
                      /\ phase'[q] = "over" /\ q \in made' => q \in removing' \cup given'
                      /\ q \in removing' => q \in made'
    BY DEF Accounted
  <2>1. CASE q = r
    BY <1>1, <1>2, <2>1 DEF FInv, Accounted
  <2>2. CASE q # r
    BY <1>1, <1>2, <2>2 DEF FInv, Accounted
  <2> QED
    BY <2>1, <2>2
<1> QED
  BY <1>4, <1>5

\* Lemma: a handler that goes on.
LEMMA AdvanceFacts ==
  ASSUME FInv, UNCHANGED isTracing, NEW r \in Request, NEW from,
         NEW to \in Working \ {"received"}, Advance(r, from, to)
  PROVE  Awaited' /\ Accounted'
<1>1. phase' = [phase EXCEPT ![r] = to] /\ UNCHANGED <<made, removing, given, answer>>
  BY DEF Advance, Becomes
<1>2. DOMAIN phase = Request
  BY DEF FInv, TypeOKServer
<1>3. Awaited'
  BY <1>1, <1>2 DEF FInv, Awaited
<1>4. to \notin {"idle", "received", "over"}
  BY DEF Working
<1>5. Accounted'
  BY <1>1, <1>2, <1>4 DEF FInv, Accounted
<1> QED
  BY <1>3, <1>5

\* Lemma: a step of the build server, or of nothing it looks at.
LEMMA ServerAccounts ==
  ASSUME FInv, UNCHANGED isTracing, ServerNext \/ Restart
  PROVE  Awaited' /\ Accounted'
<1>1. Working = {"received", "source", "assembling", "linking", "script", "tracing", "running"}
  BY DEF Working, Phase
<1>2. Failed.kind # "none" /\ Lost.kind # "none" /\ \A steps : Traced(steps).kind # "none"
  BY DEF Failed, Lost, Traced
<1>3. DOMAIN phase = Request /\ DOMAIN answer = Request
  BY DEF FInv, TypeOKServer
<1>4. ASSUME NEW r \in Request, Serve(r) PROVE Awaited' /\ Accounted'
  <2>1. CASE Refuse(r)
    BY <1>2, <2>1, RespondFacts DEF Refuse
  <2>2. CASE MakeDirectory(r)
    <3>1. /\ phase' = [phase EXCEPT ![r] = "source"] /\ made' = made \cup {r}
          /\ UNCHANGED <<removing, given, answer>>
      BY <2>2 DEF MakeDirectory, Becomes
    <3>2. Awaited'
      BY <1>1, <1>3, <3>1 DEF FInv, Awaited
    <3>3. Accounted'
      BY <1>3, <3>1 DEF FInv, Accounted
    <3> QED
      BY <3>2, <3>3
  <2>3. CASE WriteSource(r)
    BY <1>1, <2>3, AdvanceFacts DEF WriteSource
  <2>4. CASE Assemble(r)
    BY <1>1, <1>2, <2>4, AdvanceFacts, RespondFacts DEF Assemble
  <2>5. CASE Link(r)
    BY <1>1, <1>2, <2>5, AdvanceFacts, RespondFacts DEF Link
  <2>6. CASE WriteScript(r)
    BY <1>1, <2>6, AdvanceFacts DEF WriteScript
  <2>7. CASE RunGdb(r)
    BY <1>1, <2>7, AdvanceFacts DEF RunGdb
  <2>8. CASE Answer(r)
    BY <1>2, <2>8, RespondFacts DEF Answer
  <2> QED
    BY <1>4, <2>1, <2>2, <2>3, <2>4, <2>5, <2>6, <2>7, <2>8 DEF Serve
<1>5. ASSUME NEW r \in Request, RemoveDirectory(r) PROVE Awaited' /\ Accounted'
  BY <1>5 DEF RemoveDirectory, FInv, Awaited, Accounted
<1>6. ASSUME NEW r \in Request, FileFails(r) PROVE Awaited' /\ Accounted'
  <2>1. /\ \A q \in Request : phase'[q] = IF phase[q] \in Working THEN "over" ELSE phase[q]
        /\ \A q \in Request : answer'[q] = IF phase[q] \in Working THEN Lost ELSE answer[q]
        /\ given' = given \cup made /\ removing' = {} /\ UNCHANGED made
    BY <1>6 DEF FileFails
  <2>2. Awaited'
    BY <1>2, <2>1 DEF FInv, Awaited
  <2>3. Accounted'
    BY <1>1, <2>1 DEF FInv, Accounted
  <2> QED
    BY <2>2, <2>3
<1>7. CASE Restart
  BY <1>7 DEF Restart, FInv, Awaited, Accounted
<1> QED
  BY <1>4, <1>5, <1>6, <1>7 DEF ServerNext

\* Lemma: both hold of every state of the program.
LEMMA Owed ==
  /\ Init => FInv
  /\ IInv /\ Awaited /\ Accounted /\ [Next]_vars => Awaited' /\ Accounted'
<1>1. ASSUME Init PROVE FInv
  BY <1>1, Start DEF Init, InitServer, IInv, TypeOK, FInv, Awaited, Accounted
<1>2. ASSUME IInv, Awaited, Accounted, [Next]_vars PROVE Awaited' /\ Accounted'
  <2>1. FInv
    BY <1>2 DEF IInv, TypeOK, FInv
  <2>2. DOMAIN phase = Request /\ DOMAIN answer = Request
    BY <2>1 DEF FInv, TypeOKServer
  <2>3. ASSUME NEW r \in Request, NEW code \in Program \cup {Blank}, HandleRun(r, code)
        PROVE  Awaited' /\ Accounted'
    <3>1. /\ phase[r] = "idle" /\ UNCHANGED <<made, removing, given>>
          /\ \/ phase' = [phase EXCEPT ![r] = "received"]
             \/ phase' = [phase EXCEPT ![r] = "over"] /\ answer' = [answer EXCEPT ![r] = Lost]
      BY <2>3 DEF HandleRun, Receive
    <3>2. "received" \in Working /\ Lost.kind # "none"
      BY DEF Working, Phase, Lost
    <3>3. Awaited'
      BY <2>2, <3>1, <3>2 DEF Awaited
    <3>4. Accounted'
      BY <2>1, <2>2, <3>1 DEF FInv, Accounted
    <3> QED
      BY <3>3, <3>4
  <2>4. ASSUME NEW r \in Request, AnswerArrives(r) PROVE Awaited' /\ Accounted'
    BY <2>1, <2>4 DEF AnswerArrives, FInv, Awaited, Accounted
  <2>5. CASE Walk
    <3>1. UNCHANGED <<server, isTracing>>
      BY <2>5 DEF Walk, StepNext, StepBack, Reset, HandleRunToBreakpoint, ToggleBreakpoint,
                  StartAutoStep, StopAutoStep, AutoStepTick
    <3> QED
      BY <2>1, <3>1 DEF FInv, server, Awaited, Accounted
  <2>6. CASE (ServerNext \/ Restart) /\ UNCHANGED workbench
    BY <2>1, <2>6, ServerAccounts DEF workbench
  <2>7. CASE UNCHANGED vars
    BY <2>1, <2>7 DEF vars, server, workbench, FInv, Awaited, Accounted
  <2> QED
    BY <1>2, <2>3, <2>4, <2>5, <2>6, <2>7 DEF Next
<1> QED
  BY <1>1, <1>2

\* The busy button always waits for somebody: of the overlapping traces one is still
\* being served or answered, whatever failed, ended or came back (App.tsx:261-277).
THEOREM TracingIsAwaited == Spec => []Awaited
<1>1. FInv => Awaited /\ Accounted
  BY DEF FInv
<1> QED
  BY <1>1, Inductive, Owed, PTL DEF Spec

\* No handler ends without its directory being removed or given up
\* (vite-plugin-asm-runner.ts:213, 219, 274).
THEOREM DirectoriesAreAccounted == Spec => []Accounted
<1>1. FInv => Awaited /\ Accounted
  BY DEF FInv
<1> QED
  BY <1>1, Inductive, Owed, PTL DEF Spec
=============================================================================
