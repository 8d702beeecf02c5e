--------------------------- MODULE WriteContract ---------------------------
(***************************************************************************)
(* What ser_write promises (comms.h): a call hands the buffer to the port  *)
(* piece by piece and returns a code and the number of bytes written.  The *)
(* number is what was written, and a return of 0 means all of it was.      *)
(***************************************************************************)
EXTENDS Integers

CONSTANTS
  Writer,  \* the threads that write
  Sizes    \* the sizes of the buffers they write

VARIABLES
  busy,    \* the writers inside a call
  size,    \* the size of each writer's last buffer
  done,    \* how many bytes of it the port has taken
  result   \* what each writer's last call returned

wvars == <<busy, size, done, result>>

Init ==
  /\ busy = {}
  /\ size = [w \in Writer |-> 0]
  /\ done = [w \in Writer |-> 0]
  /\ result = [w \in Writer |-> [r |-> 0, n |-> 0]]

Begin(w, sz) ==
  /\ w \notin busy
  /\ busy' = busy \cup {w}
  /\ size' = [size EXCEPT ![w] = sz]
  /\ done' = [done EXCEPT ![w] = 0]
  /\ UNCHANGED result

\* The port takes k more bytes.
Take(w, k) ==
  /\ w \in busy
  /\ done[w] + k <= size[w]
  /\ done' = [done EXCEPT ![w] = @ + k]
  /\ UNCHANGED <<busy, size, result>>

\* The call returns after the port took k last bytes.
Finish(w, k, r) ==
  /\ w \in busy
  /\ done[w] + k <= size[w]
  /\ r = 0 => done[w] + k = size[w]
  /\ busy' = busy \ {w}
  /\ done' = [done EXCEPT ![w] = @ + k]
  /\ result' = [result EXCEPT ![w] = [r |-> r, n |-> done[w] + k]]
  /\ UNCHANGED size

Next ==
  \E w \in Writer :
    \/ \E sz \in Sizes : Begin(w, sz)
    \/ \E k \in 1..size[w] : Take(w, k)
    \/ \E k \in 0..size[w], r \in -8..0 : Finish(w, k, r)

Spec == Init /\ [][Next]_wvars
=============================================================================
