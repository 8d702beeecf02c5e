----------------------------- MODULE MCWinSerial -----------------------------
(***************************************************************************)
(* Instances of WinSerial for TLC.                                         *)
(***************************************************************************)
EXTENDS WinSerial

\* With and without each timeout, and options that are refused.
SomeOptions ==
  {[valid |-> TRUE, rd |-> 0, wr |-> 0],
   [valid |-> TRUE, rd |-> 0, wr |-> 5],
   [valid |-> TRUE, rd |-> 5, wr |-> 0],
   [valid |-> FALSE, rd |-> 5, wr |-> 5]}
=============================================================================
