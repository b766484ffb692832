-------------------------- MODULE MCSessionServer --------------------------
(* Small instances of SessionServer: sessions and connections are            *)
(* interchangeable, so the safety runs use their symmetry.                   *)
EXTENDS SessionServer, TLC

Symmetry == Permutations(Conn) \cup Permutations(Sid)
============================================================================
