------------------------------ MODULE MCWindow ------------------------------
(***************************************************************************)
(* A tour with a step of each kind of preparation, one section, and a        *)
(* palette that lists its commands or nothing.                              *)
(***************************************************************************)
EXTENDS Window, TLC

MCTourSteps ==
  << [target |-> "editor",   prepare |-> "none"],
     [target |-> "stack",    prepare |-> "stack"],
     [target |-> "console",  prepare |-> "open_console"],
     [target |-> "right",    prepare |-> "expand_right"],
     [target |-> "terminal", prepare |-> "close_console"] >>

MCResults ==
  ("" :> << "terminal", "console", "right", "tour" >>) @@ ("x" :> << >>)
=============================================================================
