--------------------------- MODULE MCPosixWatcher ---------------------------
(***************************************************************************)
(* One watcher on one port for TLC, with a timeout and without.            *)
(***************************************************************************)
EXTENDS PosixWatcher

CONSTANT r1

NoThreads == {}
OneReader == {r1}
ReadTimeouts == {[rd |-> 2, wr |-> 0], [rd |-> 0, wr |-> 0]}
=============================================================================
