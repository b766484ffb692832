---------------------------- MODULE SessionPool ----------------------------
(***************************************************************************)
(* What the session manager promises about every debug session, without    *)
(* saying who asked for it: a session is built, published, and destroyed   *)
(* once; it holds a workspace and a GDB from the moment it is being built  *)
(* until it is destroyed; and no more than Capacity sessions are being     *)
(* built or published at once.  A build that raises is lost: nothing will  *)
(* ever release what it holds.                                             *)
(***************************************************************************)
EXTENDS Naturals, FiniteSets

CONSTANTS Sid,       \* session identifiers
          Capacity   \* the most sessions that occupy the pool at once

VARIABLE life        \* the stage each session has reached

Stage == {"absent", "building", "live", "lost"}

TypeOK == life \in [Sid -> Stage]

Occupying(stage) == {s \in Sid : stage[s] \in {"building", "live"}}

Init == life = [s \in Sid |-> "absent"]

\* Any number of live sessions are destroyed while at most one new session
\* starts being built, if there is room for it then.
Replace ==
  /\ life' \in [Sid -> Stage]
  /\ \A s \in Sid : life'[s] # life[s] =>
       <<life[s], life'[s]>> \in {<<"live", "absent">>, <<"absent", "building">>}
  /\ \A s, t \in Sid :
       life[s] = "absent" /\ life[t] = "absent" /\ life'[s] = "building"
                         /\ life'[t] = "building" => s = t
  /\ Cardinality(Occupying(life')) <= Capacity

\* A build that leaves the pool's hands: published, given up or lost.
Settle(s, stage) ==
  /\ life[s] = "building"
  /\ life' = [life EXCEPT ![s] = stage]

Next == \/ Replace
        \/ \E s \in Sid, stage \in {"live", "absent", "lost"} : Settle(s, stage)

Spec == Init /\ [][Next]_life
============================================================================
