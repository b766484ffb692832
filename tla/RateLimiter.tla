---------------------------- MODULE RateLimiter ----------------------------
(***************************************************************************)
(* The token bucket of one WebSocket connection (backend/app/main.py).     *)
(* Time runs in ticks; a token is Second units and every tick refills Rate  *)
(* units, so the code's floats become integers.                            *)
(***************************************************************************)
EXTENDS Integers

CONSTANTS Burst,    \* _rl_tokens' ceiling, 30 tokens in the code
          Rate,     \* _rl_rate, 20 tokens a second in the code
          Second,   \* ticks in a second
          Horizon   \* bound: the clock of a model stops here

ASSUME BurstAssumption   == Burst \in Nat \ {0}
ASSUME RateAssumption    == Rate \in Nat \ {0}
ASSUME SecondAssumption  == Second \in Nat \ {0}
ASSUME HorizonAssumption == Horizon \in Nat

VARIABLES now,      \* time.monotonic()
          tokens,   \* _rl_tokens, in units of 1/Second token
          last,     \* _rl_last
          verdict,  \* what became of the last message
          from,     \* history: when the watched window of time began
          taken,    \* history: messages dispatched since then
          since,    \* history: when the bucket was last found full
          spent     \* history: messages dispatched since then

limiterVars == <<now, tokens, last, verdict, from, taken, since, spent>>

Full == Burst * Second

LimiterTypeOK ==
  /\ now \in Nat
  /\ tokens \in 0 .. Full
  /\ last \in 0 .. now
  /\ verdict \in {"none", "dispatched", "refused"}
  /\ from \in 0 .. now
  /\ taken \in Nat
  /\ since \in 0 .. last
  /\ spent \in Nat

\* The endpoint starts with a full bucket.
LimiterInit ==
  /\ now = 0
  /\ tokens = Full
  /\ last = 0
  /\ verdict = "none"
  /\ from = 0
  /\ taken = 0
  /\ since = 0
  /\ spent = 0

Tick ==
  /\ now < Horizon
  /\ now' = now + 1
  /\ UNCHANGED <<tokens, last, verdict, from, taken, since, spent>>

Earned == tokens + (now - last) * Rate

\* min(30.0, _rl_tokens + (now - _rl_last) * _rl_rate)
Refilled == IF Earned < Full THEN Earned ELSE Full

Enough == Refilled >= Second

\* Mutant: the bucket is charged before it is looked at.
Dispatch_Unguarded ==
  /\ last' = now
  /\ tokens' = Refilled - Second
  /\ verdict' = "dispatched"
  /\ taken' = taken + 1
  /\ IF Earned < Full
     THEN since' = since /\ spent' = spent + 1
     ELSE since' = now /\ spent' = 1
  /\ UNCHANGED <<now, from>>

Dispatch ==
  /\ Enough
  /\ last' = now
  /\ tokens' = Refilled - Second
  /\ verdict' = "dispatched"
  /\ taken' = taken + 1
  /\ IF Earned < Full
     THEN since' = since /\ spent' = spent + 1
     ELSE since' = now /\ spent' = 1
  /\ UNCHANGED <<now, from>>

\* Mutant: a refusal forgets the refill.
Refuse_LosesRefill ==
  /\ ~ Enough
  /\ last' = now
  /\ verdict' = "refused"
  /\ UNCHANGED <<now, tokens, from, taken, since, spent>>

\* Mutant: a refusal keeps the refill and not its time.
Refuse_KeepsLast ==
  /\ ~ Enough
  /\ tokens' = Refilled
  /\ verdict' = "refused"
  /\ UNCHANGED <<now, last, from, taken, since, spent>>

\* "Rate limit exceeded": the refill is kept, and nothing is spent.
Refuse ==
  /\ ~ Enough
  /\ last' = now
  /\ tokens' = Refilled
  /\ verdict' = "refused"
  /\ UNCHANGED <<now, from, taken, since, spent>>

\* History only: a window of time may be watched from any moment.
Watch ==
  /\ from' = now
  /\ taken' = 0
  /\ UNCHANGED <<now, tokens, last, verdict, since, spent>>

LimiterNext == Tick \/ Dispatch \/ Refuse \/ Watch

LimiterSpec == LimiterInit /\ [][LimiterNext]_limiterVars

----------------------------------------------------------------------------
(* Properties                                                              *)

\* The limiter's promise (docs/ARCHITECTURE.md:275, 30 burst and 20/s): in
\* every window of time, whenever it begins, the endpoint dispatches at most
\* Burst messages and Rate more a second.
WindowBound == taken * Second <= Full + Rate * (now - from)

\* The other half of the promise: a message is refused only when everything
\* the burst and the refill paid for since the bucket was last full has been
\* dispatched, however many messages were refused in between.
RefusedOnlyWhenSpent ==
  [][Refuse => (spent + 1) * Second > Full + Rate * (now - since)]_limiterVars

\* The potential argument behind WindowBound: what was dispatched and what is
\* left in the bucket are both paid for by the full bucket and the refill.
Budget ==
  \/ taken = 0
  \/ /\ from <= last
     /\ taken * Second + tokens <= Full + Rate * (last - from)

\* The same account to the unit, since the bucket was last full.
Account == tokens + spent * Second = Full + Rate * (last - since)

LimiterInv == LimiterTypeOK /\ Budget /\ Account
============================================================================
