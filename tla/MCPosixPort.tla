---------------------------- MODULE MCPosixPort ----------------------------
(***************************************************************************)
(* Instances of PosixPort for TLC.                                         *)
(***************************************************************************)
EXTENDS PosixPort, TLC

CONSTANTS s1, s2

TwoInstances == {s1, s2}
OneInstance == {s1}

Symmetry == Permutations(TwoInstances)

Opt(rate, size, par, stop, rd, wr) ==
  [baudrate |-> rate, bytesz |-> size, parity |-> par, stopbits |-> stop,
   timeouts |-> [rd |-> rd, wr |-> wr]]

\* Sound options and refused ones, a standard and a custom rate.
MixedOptions ==
  {Opt(9600, 8, "none", "1", 0, 0), Opt(38400, 7, "odd", "2", 5, 0),
   Opt(250000, 8, "space", "1", 0, 0), Opt(250000, 5, "even", "1.5", 0, 0)}

WriteOptions == {Opt(9600, 8, "none", "1", 0, 5)}

CookedTios == [speed |-> 9600, cs |-> 8, flags |-> {"CREAD", "HUPCL"}]
=============================================================================
