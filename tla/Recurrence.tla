----------------------------- MODULE Recurrence -----------------------------
(***************************************************************************)
(* Induction and recursion over the first natural numbers, for the proofs   *)
(* about sequences.  The theorems of the library take the statement to be   *)
(* proved as an operator, which the provers cannot instantiate; here it is  *)
(* the set where it holds.                                                 *)
(***************************************************************************)
EXTENDS Integers, FiniteSetTheorems, TLAPS

\* Lemma: among sets of numbers up to n one includes no other.
LEMMA SmallestSet ==
  ASSUME NEW n \in Nat, NEW F, \A X \in F : X \in SUBSET (1..n), F # {}
  PROVE  \E X \in F : \A Y \in F : Y \subseteq X => Y = X
<1>0. IsFiniteSet(1..n)
  BY FS_Interval
<1>1. FiniteSubsetsOf(1..n) = SUBSET (1..n)
  BY <1>0, FS_FiniteSubsetsOfFinite
<1>2. IsWellFoundedOn(StrictSubsetOrdering(1..n), SUBSET (1..n))
  BY <1>1, FS_StrictSubsetOrderingWellFounded
<1>3. \E X \in F : \A Y \in F : ~ (<<Y, X>> \in StrictSubsetOrdering(1..n))
  <2>1. F \subseteq SUBSET (1..n)
    OBVIOUS
  <2> QED
    BY <1>2, <2>1, WFMin
<1> QED
  BY <1>3 DEF StrictSubsetOrdering

\* Lemma: a set of positions that is not empty has a least one.
LEMMA LeastExists ==
  ASSUME NEW n \in Nat, NEW S \in SUBSET (1..n), S # {}
  PROVE  \E k \in S : \A j \in S : k <= j
<1> DEFINE F == { 1..k : k \in S }
<1>1. (\A X \in F : X \in SUBSET (1..n)) /\ F # {}
  <2>1. \A k \in S : 1..k \in SUBSET (1..n)
    OBVIOUS
  <2>2. PICK k \in S : TRUE
    OBVIOUS
  <2>3. 1..k \in F
    OBVIOUS
  <2> QED
    BY <2>1, <2>3
<1>2. PICK X \in F : \A Y \in F : Y \subseteq X => Y = X
  <2> HIDE DEF F
  <2> QED
    BY <1>1, SmallestSet
<1>3. PICK k \in S : X = 1..k
  OBVIOUS
<1> SUFFICES ASSUME NEW j \in S, j < k PROVE FALSE
  OBVIOUS
<1>4. 1..j \in F /\ 1..j \subseteq 1..k /\ k \in 1..k /\ k \notin 1..j
  OBVIOUS
<1> QED
  BY <1>2, <1>3, <1>4

\* Lemma: and a greatest one.
LEMMA GreatestExists ==
  ASSUME NEW n \in Nat, NEW S \in SUBSET (1..n), S # {}
  PROVE  \E k \in S : \A j \in S : k >= j
<1> DEFINE F == { k..n : k \in S }
<1>1. (\A X \in F : X \in SUBSET (1..n)) /\ F # {}
  <2>1. \A k \in S : k..n \in SUBSET (1..n)
    OBVIOUS
  <2>2. PICK k \in S : TRUE
    OBVIOUS
  <2>3. k..n \in F
    OBVIOUS
  <2> QED
    BY <2>1, <2>3
<1>2. PICK X \in F : \A Y \in F : Y \subseteq X => Y = X
  <2> HIDE DEF F
  <2> QED
    BY <1>1, SmallestSet
<1>3. PICK k \in S : X = k..n
  OBVIOUS
<1> SUFFICES ASSUME NEW j \in S, k < j PROVE FALSE
  OBVIOUS
<1>4. j..n \in F /\ j..n \subseteq k..n /\ k \in k..n /\ k \notin j..n
  OBVIOUS
<1> QED
  BY <1>2, <1>3, <1>4

\* Lemma: a set that has 0, and with each number below n the next one, has all up to n.
LEMMA Induction ==
  ASSUME NEW n \in Nat, NEW S, 0 \in S, \A i \in 1..n : i - 1 \in S => i \in S
  PROVE  0..n \subseteq S
<1> SUFFICES ASSUME NEW x \in 0..n, x \notin S PROVE FALSE
  OBVIOUS
<1> DEFINE B == { i \in 1..n : i \notin S }
<1>1. B \in SUBSET (1..n) /\ x \in B
  OBVIOUS
<1>2. PICK k \in B : \A j \in B : k <= j
  <2> HIDE DEF B
  <2> QED
    BY <1>1, LeastExists
<1>3. k - 1 = 0 \/ k - 1 \in 1..n
  OBVIOUS
<1>4. k - 1 \in S
  BY <1>2, <1>3
<1> QED
  BY <1>4

\* A step function that leads from a state of I[i - 1] to one of I[i], the course it
\* takes from a start, and that all of this is in I.
Leads(op, n, I) == \A i \in 1..n : \A x \in I[i - 1] : op[<<i, x>>] \in I[i]
Follows(f, n, start, op) == f[0] = start /\ \A i \in 1..n : f[i] = op[<<i, f[i - 1]>>]
Within(f, n, I) == \A i \in 0..n : f[i] \in I[i]

\* Lemma: recursion over the numbers up to n, where the state at i is one of I[i].
LEMMA Recursion ==
  ASSUME NEW n \in Nat, NEW I, NEW start, start \in I[0], NEW op, Leads(op, n, I)
  PROVE  \E f : Follows(f, n, start, op) /\ Within(f, n, I)
<1> DEFINE Good(f, k) == /\ f[0] = start
                         /\ \A i \in 1..k : f[i] = op[<<i, f[i - 1]>>]
                         /\ \A i \in 0..k : f[i] \in I[i]
           S == { k \in 0..n : \E f : Good(f, k) }
<1>1. \A k \in 0..n : k \in S <=> \E f : Good(f, k)
  OBVIOUS
<1> HIDE DEF S
<1>2. \E f : Good(f, 0)
  <2> DEFINE f == [i \in 0..0 |-> start]
  <2>1. f[0] = start /\ (\A i \in 0..0 : i = 0) /\ 1..0 = {}
    OBVIOUS
  <2> HIDE DEF f
  <2> QED
    BY <2>1
<1>3. ASSUME NEW k \in 1..n, NEW g, Good(g, k - 1) PROVE \E f : Good(f, k)
  <2> DEFINE f == [i \in 0..k |-> IF i = k THEN op[<<k, g[k - 1]>>] ELSE g[i]]
  <2>0. k \in Nat \ {0} /\ k - 1 \in 0..(k - 1)
    OBVIOUS
  <2>1. f[k] = op[<<k, g[k - 1]>>]
    BY <2>0
  <2>2. \A i \in 0..(k - 1) : i \in 0..k /\ i # k
    BY <2>0
  <2>3. \A i \in 0..(k - 1) : f[i] = g[i]
    BY <2>2
  <2> HIDE DEF f
  <2>4. f[k] = op[<<k, f[k - 1]>>] /\ f[k] \in I[k]
    <3>1. f[k - 1] = g[k - 1] /\ g[k - 1] \in I[k - 1]
      BY <1>3, <2>0, <2>3
    <3> QED
      BY <2>0, <2>1, <3>1 DEF Leads
  <2>5. ASSUME NEW i \in 1..(k - 1) PROVE f[i] = op[<<i, f[i - 1]>>]
    <3>1. g[i] = op[<<i, g[i - 1]>>] /\ i \in 0..(k - 1) /\ i - 1 \in 0..(k - 1)
      BY <1>3, <2>0
    <3> QED
      BY <2>3, <3>1
  <2>6. f[0] = start /\ \A i \in 0..(k - 1) : f[i] \in I[i]
    BY <1>3, <2>0, <2>3
  <2>7. /\ \A i \in 0..k : i = k \/ i \in 0..(k - 1)
        /\ \A i \in 1..k : i = k \/ i \in 1..(k - 1)
    BY <2>0
  <2> QED
    BY <2>4, <2>5, <2>6, <2>7
<1>4. n \in S
  <2>1. 0 \in S
    <3>1. 0 \in 0..n
      OBVIOUS
    <3> QED
      BY <1>1, <1>2, <3>1
  <2>2. ASSUME NEW k \in 1..n, k - 1 \in S PROVE k \in S
    <3>1. k \in 0..n /\ k - 1 \in 0..n
      OBVIOUS
    <3>2. PICK g : Good(g, k - 1)
      BY <1>1, <2>2, <3>1
    <3>3. \E f : Good(f, k)
      BY <1>3, <3>2
    <3> QED
      BY <1>1, <3>1, <3>3
  <2> HIDE DEF Good
  <2>3. 0..n \subseteq S
    BY <2>1, <2>2, Induction
  <2> QED
    BY <2>3
<1>5. PICK f : Good(f, n)
  BY <1>1, <1>4
<1> QED
  BY <1>5 DEF Follows, Within
=============================================================================
