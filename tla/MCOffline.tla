------------------------------ MODULE MCOffline ------------------------------
(***************************************************************************)
(* What GDB prints in the runs: nothing, a program of two lines, a loop     *)
(* whose last block has no registers, and a block without a line.          *)
(***************************************************************************)
EXTENDS Offline

Stop(line) == [regs |-> TRUE, line |-> line]

MCRecording ==
  { << >>, << Stop(NoLine), Stop(2) >>,
    << Stop(1), Stop(2), Stop(1), [regs |-> FALSE, line |-> NoLine] >> }
=============================================================================
