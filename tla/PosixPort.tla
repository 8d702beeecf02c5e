------------------------------ MODULE PosixPort ------------------------------
(***************************************************************************)
(* The life of library instances on one port of a POSIX system: ser_create *)
(* and ser_destroy (sercomm/posix/base.c), ser_open with port_configure,   *)
(* and ser_close with port_restore (sercomm/posix/comms.c), as built for   *)
(* Linux.                                                                  *)
(*                                                                         *)
(* The settings belong to the device, not to the instance: every instance  *)
(* saves what it finds and puts that back.  A system call is a step, so    *)
(* that instances and the unplugging of the device may come between them.  *)
(***************************************************************************)
EXTENDS Integers, SerErrors

CONSTANTS
  Instances,    \* library instances
  Options,      \* the ser_opts_t they are opened with
  InitialTios,  \* the settings of the port before the library is used
  BaudBase,     \* the UART's base rate, for custom divisors
  Faults        \* what may fail on a device that is there: "open", "tcgetattr",
                \* "tcsetattr", "noserial" (TIOCGSERIAL and TIOCSSERIAL)

ASSUME OptionsAssumption ==
  /\ Options # {}
  /\ Options \subseteq
       [baudrate : Nat, bytesz : Int, parity : STRING, stopbits : STRING,
        timeouts : [rd : Int, wr : Int]]

VARIABLES
  plugged,   \* the device is there
  tios,      \* its terminal settings
  serial,    \* its driver's settings for custom rates
  pc,        \* where each instance is
  fd,        \* its descriptor: "none", "ok" or "dead" (hung up)
  opts,      \* the options of its session
  tios_old,  \* ser->tios_old
  timeouts,  \* ser->timeouts
  ret,       \* what its last ser_open returned
  shared,    \* history: two instances had the present device open at once
  left       \* history: the settings of it that a session changed for good

device == <<plugged, tios, serial>>
instance == <<pc, fd, opts, tios_old, timeouts, ret>>
history == <<shared, left>>
vars == <<device, instance, history>>

NoDivisor == [cust |-> FALSE, divisor |-> 0]

\* What stands for the options of an instance without a session.
NoOptions == CHOOSE o \in Options : TRUE

Init ==
  /\ plugged \in BOOLEAN /\ tios = InitialTios /\ serial = NoDivisor
  /\ pc = [s \in Instances |-> "none"]
  /\ fd = [s \in Instances |-> "none"]
  /\ opts = [s \in Instances |-> NoOptions]
  /\ tios_old = [s \in Instances |-> InitialTios]
  /\ timeouts = [s \in Instances |-> [rd |-> 0, wr |-> 0]]
  /\ ret = [s \in Instances |-> 0]
  /\ shared = FALSE /\ left = {}

-----------------------------------------------------------------------------
(***************************************************************************)
(* port_configure: what the options mean.                                  *)
(***************************************************************************)

\* The rates that have a constant B<rate> in Linux's termios.h; the others of
\* the switch are compiled out.
SlowRates ==
  {0, 50, 75, 110, 134, 150, 200, 300, 600, 1200, 1800, 2400, 4800, 9600,
   19200, 57600}

FastRates ==
  {38400, 115200, 230400, 460800, 576000, 921600, 1000000, 1152000, 1500000,
   2000000, 2500000, 3000000, 3500000, 4000000}

StandardRate(o) == o.baudrate \in SlowRates \cup FastRates

\* The speed set in the new settings: zeroed by memset for a custom rate.
Speed(o) == IF StandardRate(o) THEN o.baudrate ELSE 0

Divisor(o) == [cust |-> TRUE, divisor |-> BaudBase \div o.baudrate]

\* The flags CS5 ... CS8; the code an option is refused with and its flags.
ByteSize(o) ==
  IF o.bytesz \in 5..8 THEN [r |-> 0, cs |-> o.bytesz]
                       ELSE [r |-> SER_EINVAL, cs |-> 5]

\* Mutant: the flag of odd parity is lost.
Parity_NoOdd(o) ==
  CASE o.parity = "none"                     -> [r |-> 0, flags |-> {}]
    [] o.parity \in {"odd", "even"}          -> [r |-> 0, flags |-> {"PARENB"}]
    [] o.parity = "mark"  -> [r |-> 0, flags |-> {"PARENB", "CMSPAR", "PARODD"}]
    [] o.parity = "space" -> [r |-> 0, flags |-> {"PARENB", "CMSPAR"}]
    [] OTHER              -> [r |-> SER_EINVAL, flags |-> {}]

Parity(o) ==
  CASE o.parity = "none"  -> [r |-> 0, flags |-> {}]
    [] o.parity = "odd"   -> [r |-> 0, flags |-> {"PARENB", "PARODD"}]
    [] o.parity = "even"  -> [r |-> 0, flags |-> {"PARENB"}]
    [] o.parity = "mark"  -> [r |-> 0, flags |-> {"PARENB", "CMSPAR", "PARODD"}]
    [] o.parity = "space" -> [r |-> 0, flags |-> {"PARENB", "CMSPAR"}]
    [] OTHER              -> [r |-> SER_EINVAL, flags |-> {}]

StopBits(o) ==
  CASE o.stopbits = "1"   -> [r |-> 0, flags |-> {}]
    [] o.stopbits = "1.5" -> [r |-> SER_ENOTSUP, flags |-> {}]
    [] o.stopbits = "2"   -> [r |-> 0, flags |-> {"CSTOPB"}]
    [] OTHER              -> [r |-> SER_EINVAL, flags |-> {}]

\* The code of the first option that is refused, 0 if none is.
Refusal(o) ==
  IF ByteSize(o).r < 0 THEN ByteSize(o).r
  ELSE IF Parity(o).r < 0 THEN Parity(o).r ELSE StopBits(o).r

NewTios(o) ==
  [speed |-> Speed(o), cs |-> ByteSize(o).cs,
   flags |-> {"CREAD", "CLOCAL"} \cup Parity(o).flags \cup StopBits(o).flags]

\* Both timeouts are taken from the option for reading.
NewTimeouts(o) == [rd |-> o.timeouts.rd, wr |-> o.timeouts.rd]

-----------------------------------------------------------------------------
(***************************************************************************)
(* The life of an instance.                                                *)
(***************************************************************************)
At(s, from, to) == pc[s] = from /\ pc' = [pc EXCEPT ![s] = to]

Ret(s, r) == ret' = [ret EXCEPT ![s] = r]

SerCreate(s) ==
  /\ At(s, "none", "unopened")   \* a NULL of calloc changes nothing
  /\ UNCHANGED <<device, fd, opts, tios_old, timeouts, ret, history>>

SerDestroy(s) ==
  /\ At(s, "unopened", "none")
  /\ UNCHANGED <<device, fd, opts, tios_old, timeouts, ret, history>>

\* Why open() may fail.
OpenErrors ==
  (IF plugged THEN {} ELSE {"ENOENT"})
    \cup (IF "open" \in Faults THEN {"EBUSY", "EACCES", "ENXIO"} ELSE {})

\* ser_open: open().
SerOpen(s, o) ==
  /\ \/ /\ plugged
        /\ At(s, "unopened", "tcgetattr")
        /\ opts' = [opts EXCEPT ![s] = o]
        /\ fd' = [fd EXCEPT ![s] = "ok"]
        /\ shared' = (shared \/ \E other \in Instances : fd[other] = "ok")
        /\ UNCHANGED ret
     \/ /\ At(s, "unopened", "unopened")
        /\ \E e \in OpenErrors : Ret(s, ErrorSet(e))
        /\ UNCHANGED <<fd, opts, shared>>
  /\ UNCHANGED <<device, tios_old, timeouts, left>>

\* Mutant: an error of ser_open leaves without closing the descriptor.
Cleanup_NoClose(s, r) == At(s, pc[s], "unopened") /\ Ret(s, r)

\* An error in port_configure: ser_open goes to its label cleanup.
Cleanup(s, r) == At(s, pc[s], "close") /\ Ret(s, r)

\* port_configure: tcgetattr().
SaveSettings(s) ==
  /\ pc[s] = "tcgetattr"
  /\ \/ fd[s] = "dead" /\ Cleanup(s, ErrorSet("EIO")) /\ UNCHANGED tios_old
     \/ /\ "tcgetattr" \in Faults
        /\ Cleanup(s, ErrorSet("ENOTTY")) /\ UNCHANGED tios_old
     \/ /\ fd[s] = "ok"
        /\ tios_old' = [tios_old EXCEPT ![s] = tios]
        /\ At(s, "tcgetattr",
              IF StandardRate(opts[s]) THEN "tcsetattr" ELSE "getserial")
        /\ UNCHANGED ret
  /\ UNCHANGED <<device, fd, opts, timeouts, history>>

\* port_configure: TIOCGSERIAL for a custom rate.
GetSerial(s) ==
  /\ pc[s] = "getserial"
  /\ \/ fd[s] = "dead" /\ Cleanup(s, ErrorSet("EIO"))
     \/ "noserial" \in Faults /\ Cleanup(s, ErrorSet("ENOTTY"))
     \/ fd[s] = "ok" /\ At(s, "getserial", "setserial") /\ UNCHANGED ret
  /\ UNCHANGED <<device, fd, opts, tios_old, timeouts, history>>

\* Mutant: the rate is stored where its divisor belongs.
SetSerial_Rate(s) ==
  /\ pc[s] = "setserial"
  /\ \/ fd[s] = "dead" /\ Cleanup(s, ErrorSet("EIO")) /\ UNCHANGED serial
     \/ /\ fd[s] = "ok"
        /\ serial' = [cust |-> TRUE, divisor |-> opts[s].baudrate]
        /\ At(s, "setserial", "tcsetattr") /\ UNCHANGED ret
  /\ UNCHANGED <<plugged, tios, fd, opts, tios_old, timeouts, history>>

\* port_configure: TIOCSSERIAL.  Nothing in the library undoes it.
SetSerial(s) ==
  /\ pc[s] = "setserial"
  /\ \/ /\ \/ fd[s] = "dead" /\ Cleanup(s, ErrorSet("EIO"))
           \/ "noserial" \in Faults /\ Cleanup(s, ErrorSet("EPERM"))
        /\ UNCHANGED <<serial, left>>
     \/ /\ fd[s] = "ok"
        /\ serial' = Divisor(opts[s]) /\ left' = left \cup {"serial"}
        /\ At(s, "setserial", "tcsetattr") /\ UNCHANGED ret
  /\ UNCHANGED <<plugged, tios, fd, opts, tios_old, timeouts, shared>>

\* port_configure: the options are checked in turn; only when all are good
\* are the timeouts stored and tcsetattr() called.
ApplySettings(s) ==
  /\ pc[s] = "tcsetattr"
  /\ IF Refusal(opts[s]) < 0
     THEN Cleanup(s, Refusal(opts[s])) /\ UNCHANGED <<tios, timeouts>>
     ELSE /\ timeouts' = [timeouts EXCEPT ![s] = NewTimeouts(opts[s])]
          /\ \/ fd[s] = "dead" /\ Cleanup(s, ErrorSet("EIO")) /\ UNCHANGED tios
             \/ /\ "tcsetattr" \in Faults
                /\ Cleanup(s, ErrorSet("EINTR")) /\ UNCHANGED tios
             \/ /\ fd[s] = "ok"
                /\ tios' = NewTios(opts[s])
                /\ At(s, "tcsetattr", "open") /\ Ret(s, 0)
  /\ UNCHANGED <<plugged, serial, fd, opts, tios_old, history>>

\* Mutant: ser_close does not restore the settings.
PortRestore_Forgotten(s) ==
  /\ At(s, "open", "close")
  /\ UNCHANGED <<device, fd, opts, tios_old, timeouts, ret, history>>

\* ser_close: port_restore, which does not look at what tcsetattr() returns.
PortRestore(s) ==
  /\ At(s, "open", "close")
  /\ \/ fd[s] = "ok" /\ tios' = tios_old[s] /\ UNCHANGED left
     \/ fd[s] = "dead" /\ UNCHANGED <<tios, left>>
     \/ /\ fd[s] = "ok" /\ "tcsetattr" \in Faults
        /\ left' = left \cup {"tios"} /\ UNCHANGED tios
  /\ UNCHANGED <<plugged, serial, fd, opts, tios_old, timeouts, ret, shared>>

\* close(), for ser_close and for a failed ser_open.
CloseFd(s) ==
  /\ At(s, "close", "unopened")
  /\ fd' = [fd EXCEPT ![s] = "none"]
  /\ opts' = [opts EXCEPT ![s] = NoOptions]
  /\ UNCHANGED <<device, tios_old, timeouts, ret, history>>

-----------------------------------------------------------------------------
(***************************************************************************)
(* The device.  Unplugging it hangs up every descriptor; what is plugged   *)
(* in next has the initial settings and nobody has it open.                *)
(***************************************************************************)
Unplug ==
  /\ plugged
  /\ plugged' = FALSE
  /\ fd' = [s \in Instances |-> IF fd[s] = "ok" THEN "dead" ELSE fd[s]]
  /\ tios' = InitialTios /\ serial' = NoDivisor
  /\ shared' = FALSE /\ left' = {}
  /\ UNCHANGED <<pc, opts, tios_old, timeouts, ret>>

Plug ==
  /\ ~plugged
  /\ plugged' = TRUE
  /\ UNCHANGED <<tios, serial, instance, history>>

-----------------------------------------------------------------------------
Step(s) ==
  \/ SerCreate(s) \/ SerDestroy(s)
  \/ \E o \in Options : SerOpen(s, o)
  \/ SaveSettings(s) \/ GetSerial(s) \/ SetSerial(s) \/ ApplySettings(s)
  \/ PortRestore(s) \/ CloseFd(s)

Next == (\E s \in Instances : Step(s)) \/ Unplug \/ Plug

Spec == Init /\ [][Next]_vars

-----------------------------------------------------------------------------
(***************************************************************************)
(* Properties.                                                             *)
(***************************************************************************)
Settings == {InitialTios} \cup {NewTios(o) : o \in Options}

Divisors ==
  {NoDivisor} \cup {Divisor(o) : o \in {op \in Options : ~StandardRate(op)}}

Places ==
  {"none", "unopened", "tcgetattr", "getserial", "setserial", "tcsetattr",
   "open", "close"}

\* The variables have the types their C counterparts have.
TypeOK ==
  /\ plugged \in BOOLEAN /\ shared \in BOOLEAN /\ left \subseteq {"tios", "serial"}
  /\ tios \in Settings
  /\ serial \in Divisors
  /\ pc \in [Instances -> Places]
  /\ fd \in [Instances -> {"none", "ok", "dead"}]
  /\ opts \in [Instances -> Options]
  /\ tios_old \in [Instances -> Settings]
  /\ timeouts \in [Instances -> [rd : Int, wr : Int]]
  /\ ret \in [Instances -> ReturnCodes]

\* An instance has a descriptor from the open() that succeeded to the close()
\* that ends the session, also when ser_open fails half way or the device
\* goes: nothing is left open and nothing is closed twice.
DescriptorIsOwned ==
  \A s \in Instances : fd[s] = "none" <=> pc[s] \in {"none", "unopened"}

\* When every session on the port is over, whether it was opened in full or
\* failed half way, the port has its initial terminal settings (comms.c:466),
\* and its driver the initial rate; as long as no two sessions overlapped.  Two
\* things stay changed until the device is unplugged: the terminal, once the
\* tcsetattr() of a port_restore failed, and the driver, once a session set a
\* custom rate (comms.c:366), since port_restore knows nothing of it.
ClosedMeansRestored ==
  ~shared /\ (\A s \in Instances : fd[s] # "ok") =>
    /\ tios = InitialTios \/ "tios" \in left
    /\ serial = NoDivisor \/ "serial" \in left

\* What termios(3) and ser_opts_t say the settings mean.
Meaning(t) ==
  [bytesz   |-> t.cs,
   parity   |-> IF "PARENB" \notin t.flags THEN "none"
                ELSE IF "CMSPAR" \in t.flags
                     THEN IF "PARODD" \in t.flags THEN "mark" ELSE "space"
                     ELSE IF "PARODD" \in t.flags THEN "odd" ELSE "even",
   stopbits |-> IF "CSTOPB" \in t.flags THEN "2" ELSE "1"]

InUse(s) == pc[s] = "open" /\ fd[s] = "ok"

\* A session that has the port to itself has it with the options it asked
\* for: the character format, a standard rate, the read timeout.  (The rate is
\* the terminal's: a driver that was left with a custom divisor puts that in the
\* place of 38400.)
OpenHasOptions ==
  \A s \in Instances : InUse(s) /\ ~shared =>
    LET o == opts[s] IN
    /\ Meaning(tios) =
         [bytesz |-> o.bytesz, parity |-> o.parity, stopbits |-> o.stopbits]
    /\ StandardRate(o) => tios.speed = o.baudrate
    /\ timeouts[s].rd = o.timeouts.rd

\* The write timeout is the one of the options (comms.h:112, "Write").
WriteTimeoutIsOption ==
  \A s \in Instances : pc[s] = "open" => timeouts[s].wr = opts[s].timeouts.wr
=============================================================================
