--------------------------- MODULE PosixPortProofs ---------------------------
(***************************************************************************)
(* Proofs about PosixPort, for any number of instances, any options and    *)
(* any initial settings of the port.                                       *)
(***************************************************************************)
EXTENDS PosixPort, TLAPS

-----------------------------------------------------------------------------
(***************************************************************************)
(* What the options mean.                                                  *)
(***************************************************************************)
LEMMA RefusalIsCode ==
  ASSUME NEW o \in Options
  PROVE  Refusal(o) \in ReturnCodes
  BY DEF Refusal, ByteSize, Parity, StopBits, ReturnCodes, SER_EINVAL, SER_ENOTSUP

LEMMA NoOptionsIsOption == NoOptions \in Options
  BY OptionsAssumption DEF NoOptions

LEMMA ErrorIsCode ==
  ASSUME NEW errno
  PROVE  ErrorSet(errno) \in ReturnCodes
  BY DEF ErrorSet, ReturnCodes, SER_ENODEV, SER_EBUSY, SER_EDISCONN, SER_EEMPTY,
         SER_EFAIL

\* The settings made of options that are not refused mean those options.
LEMMA SettingsMeanOptions ==
  ASSUME NEW o \in Options, Refusal(o) >= 0
  PROVE  /\ Meaning(NewTios(o)) =
              [bytesz |-> o.bytesz, parity |-> o.parity, stopbits |-> o.stopbits]
         /\ StandardRate(o) => NewTios(o).speed = o.baudrate
<1>1. /\ o.bytesz \in 5..8
      /\ o.parity \in {"none", "odd", "even", "mark", "space"}
      /\ o.stopbits \in {"1", "2"}
  BY DEF Refusal, ByteSize, Parity, StopBits, SER_EINVAL, SER_ENOTSUP
<1> DEFINE flags == NewTios(o).flags
<1>2. NewTios(o).cs = o.bytesz
  BY <1>1 DEF NewTios, ByteSize
<1>3. flags = {"CREAD", "CLOCAL"} \cup Parity(o).flags \cup StopBits(o).flags
  BY DEF NewTios
<1>4. /\ "PARENB" \in flags <=> o.parity # "none"
      /\ "CMSPAR" \in flags <=> o.parity \in {"mark", "space"}
      /\ "PARODD" \in flags <=> o.parity \in {"odd", "mark"}
      /\ "CSTOPB" \in flags <=> o.stopbits = "2"
  BY <1>1, <1>3 DEF Parity, StopBits
<1>5. StandardRate(o) => NewTios(o).speed = o.baudrate
  BY DEF NewTios, Speed
<1>6. QED
  BY <1>1, <1>2, <1>4, <1>5 DEF Meaning

-----------------------------------------------------------------------------
(***************************************************************************)
(* The inductive invariant.                                                *)
(***************************************************************************)

\* Nobody has a descriptor of a device that is not there.
Present == ~plugged => \A s \in Instances : fd[s] # "ok"

\* As long as the present device has not been shared, one instance has it.
Exclusive ==
  ~shared => \A s, u \in Instances : fd[s] = "ok" /\ fd[u] = "ok" => s = u

\* The places between tcgetattr() and port_restore().
Configuring == {"getserial", "setserial", "tcsetattr"}

\* What it saved is what the port had at first, unless a session before it could
\* not put that back.
Saved ==
  ~shared /\ "tios" \notin left => \A s \in Instances :
    fd[s] = "ok" /\ pc[s] \in Configuring \cup {"open"} =>
      tios_old[s] = InitialTios

\* An open session has the settings of its options; otherwise the port has its
\* initial ones, unless they could not be put back.
Applied ==
  ~shared =>
    /\ \A s \in Instances :
         fd[s] = "ok" /\ pc[s] = "open" => tios = NewTios(opts[s])
    /\ "tios" \in left
       \/ tios = InitialTios
       \/ \E s \in Instances : fd[s] = "ok" /\ pc[s] = "open"

\* Only a custom rate changes the driver's settings.
DriverLeft == serial = NoDivisor \/ "serial" \in left

\* A session is open with options that were not refused.
Accepted ==
  \A s \in Instances : pc[s] = "open" =>
    Refusal(opts[s]) >= 0 /\ timeouts[s] = NewTimeouts(opts[s])

\* The driver's settings are read and written for a custom rate only.
CustomRate ==
  \A s \in Instances :
    pc[s] \in {"getserial", "setserial"} => ~StandardRate(opts[s])

IInv ==
  /\ TypeOK /\ DescriptorIsOwned /\ CustomRate
  /\ Present /\ Exclusive /\ Saved /\ Applied /\ Accepted /\ DriverLeft

-----------------------------------------------------------------------------
(***************************************************************************)
(* The invariant holds at first and is preserved by every action.          *)
(***************************************************************************)
LEMMA InitEstablishes == Init => IInv
<1> SUFFICES ASSUME Init PROVE IInv
  OBVIOUS
<1>1. NoOptions \in Options
  BY NoOptionsIsOption
<1>2. tios \in Settings /\ serial \in Divisors
  BY DEF Init, Settings, Divisors
<1>3. /\ opts \in [Instances -> Options]
      /\ tios_old \in [Instances -> Settings]
      /\ timeouts \in [Instances -> [rd : Int, wr : Int]]
      /\ ret \in [Instances -> ReturnCodes]
  BY <1>1 DEF Init, Settings, ReturnCodes
<1>4. TypeOK
  BY <1>2, <1>3 DEF Init, TypeOK, Places
<1>5. QED
  BY <1>4 DEF Init, IInv, DescriptorIsOwned, Present, Exclusive, Saved, Applied,
              Accepted, Configuring, CustomRate, DriverLeft

\* An error keeps the types.
LEMMA CleanupTypes ==
  ASSUME TypeOK, NEW s \in Instances, NEW errno, Cleanup(s, ErrorSet(errno))
  PROVE  pc' \in [Instances -> Places] /\ ret' \in [Instances -> ReturnCodes]
<1>1. ErrorSet(errno) \in ReturnCodes /\ "close" \in Places
  BY ErrorIsCode DEF Places
<1>2. QED
  BY <1>1 DEF Cleanup, At, Ret, TypeOK

LEMMA TypesPreserved == TypeOK /\ CustomRate /\ [Next]_vars => TypeOK'
<1> SUFFICES ASSUME TypeOK, CustomRate, [Next]_vars PROVE TypeOK'
  OBVIOUS
<1> USE DEF TypeOK, Places, At, Ret, Cleanup, device, history
<1>1. ASSUME NEW s \in Instances, SerCreate(s) \/ SerDestroy(s) PROVE TypeOK'
  BY <1>1 DEF SerCreate, SerDestroy
<1>2. ASSUME NEW s \in Instances, NEW o \in Options, SerOpen(s, o) PROVE TypeOK'
  <2>1. ret' \in [Instances -> ReturnCodes]
    <3>1. ASSUME NEW e, ret' = [ret EXCEPT ![s] = ErrorSet(e)]
          PROVE  ret' \in [Instances -> ReturnCodes]
      <4>1. ErrorSet(e) \in ReturnCodes
        BY ErrorIsCode
      <4>2. QED
        BY <3>1, <4>1
    <3>2. CASE \E e \in OpenErrors : Ret(s, ErrorSet(e))
      BY <3>1, <3>2
    <3>3. CASE UNCHANGED ret
      BY <3>3
    <3>4. QED
      BY <1>2, <3>2, <3>3 DEF SerOpen
  <2>2. shared' \in BOOLEAN
    BY <1>2 DEF SerOpen
  <2>3. /\ pc' \in [Instances -> Places] /\ opts' \in [Instances -> Options]
        /\ fd' \in [Instances -> {"none", "ok", "dead"}]
    <3>1. \/ /\ pc' = [pc EXCEPT ![s] = "tcgetattr"]
             /\ opts' = [opts EXCEPT ![s] = o] /\ fd' = [fd EXCEPT ![s] = "ok"]
          \/ pc' = [pc EXCEPT ![s] = "unopened"] /\ UNCHANGED <<opts, fd>>
      BY <1>2 DEF SerOpen
    <3>2. QED
      BY <3>1
  <2>4. UNCHANGED <<plugged, tios, serial, tios_old, timeouts, left>>
    BY <1>2 DEF SerOpen
  <2>5. QED
    BY <2>1, <2>2, <2>3, <2>4
<1>3. ASSUME NEW s \in Instances, SaveSettings(s) PROVE TypeOK'
  <2>1. pc' \in [Instances -> Places] /\ ret' \in [Instances -> ReturnCodes]
    <3>1. CASE \E e : Cleanup(s, ErrorSet(e))
      BY <3>1, CleanupTypes
    <3>2. CASE ~ \E e : Cleanup(s, ErrorSet(e))
      BY <1>3, <3>2 DEF SaveSettings
    <3>3. QED
      BY <3>1, <3>2
  <2>2. tios_old' \in [Instances -> Settings]
    BY <1>3 DEF SaveSettings
  <2>3. QED
    BY <1>3, <2>1, <2>2 DEF SaveSettings
<1>4. ASSUME NEW s \in Instances, GetSerial(s) PROVE TypeOK'
  <2>1. pc' \in [Instances -> Places] /\ ret' \in [Instances -> ReturnCodes]
    <3>1. CASE \E e : Cleanup(s, ErrorSet(e))
      BY <3>1, CleanupTypes
    <3>2. CASE ~ \E e : Cleanup(s, ErrorSet(e))
      BY <1>4, <3>2 DEF GetSerial
    <3>3. QED
      BY <3>1, <3>2
  <2>2. QED
    BY <1>4, <2>1 DEF GetSerial
<1>5. ASSUME NEW s \in Instances, SetSerial(s) PROVE TypeOK'
  <2>1. pc' \in [Instances -> Places] /\ ret' \in [Instances -> ReturnCodes]
    <3>1. CASE \E e : Cleanup(s, ErrorSet(e))
      BY <3>1, CleanupTypes
    <3>2. CASE ~ \E e : Cleanup(s, ErrorSet(e))
      BY <1>5, <3>2 DEF SetSerial
    <3>3. QED
      BY <3>1, <3>2
  <2>2. serial' \in Divisors /\ left' \subseteq {"tios", "serial"}
    BY <1>5 DEF SetSerial, CustomRate, Divisors
  <2>3. QED
    BY <1>5, <2>1, <2>2 DEF SetSerial
<1>6. ASSUME NEW s \in Instances, ApplySettings(s) PROVE TypeOK'
  <2>1. opts[s] \in Options
    OBVIOUS
  <2>2. /\ ErrorSet("EIO") \in ReturnCodes /\ 0 \in ReturnCodes
        /\ ErrorSet("EINTR") \in ReturnCodes
        /\ Refusal(opts[s]) \in ReturnCodes
    BY <2>1, ErrorIsCode, RefusalIsCode DEF ReturnCodes
  <2>3. NewTimeouts(opts[s]) \in [rd : Int, wr : Int]
    BY <2>1, OptionsAssumption DEF NewTimeouts
  <2>4. NewTios(opts[s]) \in Settings
    BY <2>1 DEF Settings
  <2>5. CASE Refusal(opts[s]) < 0
    <3>1. Cleanup(s, Refusal(opts[s])) /\ UNCHANGED <<tios, timeouts>>
      BY <1>6, <2>5 DEF ApplySettings
    <3>2. pc' \in [Instances -> Places] /\ ret' \in [Instances -> ReturnCodes]
      BY <2>2, <3>1
    <3>3. QED
      BY <1>6, <3>1, <3>2 DEF ApplySettings
  <2>6. CASE ~(Refusal(opts[s]) < 0)
    <3>1. /\ tios' \in Settings
          /\ timeouts' \in [Instances -> [rd : Int, wr : Int]]
      BY <1>6, <2>3, <2>4, <2>6 DEF ApplySettings
    <3>2. pc' \in [Instances -> Places] /\ ret' \in [Instances -> ReturnCodes]
      <4>1. \/ Cleanup(s, ErrorSet("EIO")) \/ Cleanup(s, ErrorSet("EINTR"))
            \/ /\ pc' = [pc EXCEPT ![s] = "open"]
               /\ ret' = [ret EXCEPT ![s] = 0]
        BY <1>6, <2>6 DEF ApplySettings
      <4>2. CASE pc' = [pc EXCEPT ![s] = "open"] /\ ret' = [ret EXCEPT ![s] = 0]
        BY <2>2, <4>2
      <4>3. QED
        BY <4>1, <4>2, CleanupTypes
    <3>3. QED
      BY <1>6, <3>1, <3>2 DEF ApplySettings
  <2>7. QED
    BY <2>5, <2>6
<1>7. ASSUME NEW s \in Instances, PortRestore(s) PROVE TypeOK'
  <2>1. tios_old[s] \in Settings /\ left \cup {"tios"} \subseteq {"tios", "serial"}
    OBVIOUS
  <2>2. tios' \in {tios, tios_old[s]} /\ left' \in {left, left \cup {"tios"}}
    BY <1>7 DEF PortRestore
  <2>3. tios' \in Settings /\ left' \subseteq {"tios", "serial"}
    BY <2>1, <2>2
  <2>4. QED
    BY <1>7, <2>3 DEF PortRestore
<1>8. ASSUME NEW s \in Instances, CloseFd(s) PROVE TypeOK'
  BY <1>8, NoOptionsIsOption DEF CloseFd
<1>9. CASE Unplug
  <2>1. InitialTios \in Settings /\ NoDivisor \in Divisors
    BY DEF Settings, Divisors
  <2>2. fd' \in [Instances -> {"none", "ok", "dead"}]
    BY <1>9 DEF Unplug
  <2>3. QED
    BY <1>9, <2>1, <2>2 DEF Unplug
<1>10. CASE Plug
  BY <1>10 DEF Plug, instance
<1>11. CASE UNCHANGED vars
  BY <1>11 DEF vars, instance
<1>12. QED
  BY <1>1, <1>2, <1>3, <1>4, <1>5, <1>6, <1>7, <1>8, <1>9, <1>10, <1>11
     DEF Next, Step

LEMMA StepPreserves == IInv /\ [Next]_vars => IInv'
<1> SUFFICES ASSUME IInv, [Next]_vars PROVE IInv'
  OBVIOUS
<1>types. TypeOK /\ TypeOK'
  BY TypesPreserved DEF IInv
<1> USE DEF IInv, DescriptorIsOwned, CustomRate, Present, Exclusive, Saved,
        Applied, Accepted, DriverLeft, Configuring, At, Ret, Cleanup, device,
        history
<1>1. ASSUME NEW s \in Instances, SerCreate(s) \/ SerDestroy(s) PROVE IInv'
  BY <1>1, <1>types DEF SerCreate, SerDestroy, TypeOK
<1>2. ASSUME NEW s \in Instances, NEW o \in Options, SerOpen(s, o) PROVE IInv'
  <2>1. CASE pc'[s] = "unopened"
    <3>1. UNCHANGED <<pc, fd, opts, device, tios_old, timeouts, shared, left>>
      BY <1>2, <2>1, <1>types DEF SerOpen, TypeOK
    <3>2. QED
      BY <3>1, <1>types
  <2>2. CASE pc'[s] # "unopened"
    <3>1. /\ plugged /\ pc[s] = "unopened" /\ pc' = [pc EXCEPT ![s] = "tcgetattr"]
          /\ opts' = [opts EXCEPT ![s] = o] /\ fd' = [fd EXCEPT ![s] = "ok"]
          /\ shared' = (shared \/ \E other \in Instances : fd[other] = "ok")
          /\ UNCHANGED <<device, tios_old, timeouts, left>>
      BY <1>2, <2>2, <1>types DEF SerOpen, TypeOK
    <3>2. DescriptorIsOwned' /\ CustomRate' /\ Present' /\ Exclusive'
      BY <3>1, <1>types DEF TypeOK
    <3>3. Saved' /\ Applied' /\ Accepted' /\ DriverLeft'
      BY <3>1, <1>types DEF TypeOK
    <3>4. QED
      BY <3>2, <3>3, <1>types
  <2>3. QED
    BY <2>1, <2>2
<1>3. ASSUME NEW s \in Instances, SaveSettings(s) PROVE IInv'
  BY <1>3, <1>types DEF SaveSettings, TypeOK
<1>4. ASSUME NEW s \in Instances, GetSerial(s) PROVE IInv'
  BY <1>4, <1>types DEF GetSerial, TypeOK
<1>5. ASSUME NEW s \in Instances, SetSerial(s) PROVE IInv'
  BY <1>5, <1>types DEF SetSerial, TypeOK
<1>6. ASSUME NEW s \in Instances, ApplySettings(s) PROVE IInv'
  <2>1. CASE Refusal(opts[s]) < 0
    BY <1>6, <2>1, <1>types DEF ApplySettings, TypeOK
  <2>2. CASE ~(Refusal(opts[s]) < 0)
    <3>1. Refusal(opts[s]) \in Int
      BY <1>types, RefusalIsCode DEF TypeOK, ReturnCodes
    <3>2. CASE pc'[s] = "close"
      <4>1. /\ pc[s] = "tcsetattr" /\ pc' = [pc EXCEPT ![s] = "close"]
            /\ timeouts' = [timeouts EXCEPT ![s] = NewTimeouts(opts[s])]
            /\ UNCHANGED <<device, fd, opts, tios_old, shared, left>>
        BY <1>6, <2>2, <3>2, <1>types DEF ApplySettings, TypeOK
      <4>2. DescriptorIsOwned' /\ CustomRate' /\ Present' /\ Exclusive'
        BY <4>1, <1>types DEF TypeOK
      <4>3. Saved' /\ Applied' /\ Accepted' /\ DriverLeft'
        BY <4>1, <1>types DEF TypeOK
      <4>4. QED
        BY <4>2, <4>3, <1>types
    <3>3. CASE pc'[s] # "close"
      <4>1. /\ Refusal(opts[s]) >= 0 /\ fd[s] = "ok"
            /\ timeouts' = [timeouts EXCEPT ![s] = NewTimeouts(opts[s])]
            /\ tios' = NewTios(opts[s])
            /\ pc' = [pc EXCEPT ![s] = "open"]
            /\ UNCHANGED <<plugged, serial, fd, opts, tios_old, shared, left>>
        BY <1>6, <2>2, <3>1, <3>3, <1>types DEF ApplySettings, TypeOK
      <4>2. Accepted'
        BY <4>1, <1>types DEF TypeOK
      <4>3. Applied' /\ Saved'
        BY <1>6, <4>1, <3>3, <1>types DEF TypeOK, ApplySettings
      <4>4. QED
        BY <1>6, <4>1, <4>2, <4>3, <1>types DEF TypeOK, ApplySettings
    <3>4. QED
      BY <3>2, <3>3
  <2>3. QED
    BY <2>1, <2>2
<1>7. ASSUME NEW s \in Instances, PortRestore(s) PROVE IInv'
  BY <1>7, <1>types DEF PortRestore, TypeOK
<1>8. ASSUME NEW s \in Instances, CloseFd(s) PROVE IInv'
  BY <1>8, <1>types DEF CloseFd, TypeOK
<1>9. CASE Unplug
  BY <1>9, <1>types DEF Unplug, TypeOK
<1>10. CASE Plug
  BY <1>10, <1>types DEF Plug, instance, TypeOK
<1>11. CASE UNCHANGED vars
  BY <1>11, <1>types DEF vars, instance
<1>12. QED
  BY <1>1, <1>2, <1>3, <1>4, <1>5, <1>6, <1>7, <1>8, <1>9, <1>10, <1>11
     DEF Next, Step

\* The invariant holds in every state of every behaviour.
THEOREM Invariance == Spec => []IInv
  BY InitEstablishes, StepPreserves, PTL DEF Spec

-----------------------------------------------------------------------------
(***************************************************************************)
(* The theorems.                                                           *)
(***************************************************************************)

\* Every variable keeps its type.
THEOREM TypeCorrect == Spec => []TypeOK
  BY Invariance, PTL DEF IInv

\* An instance has a descriptor from its open() to its close(), whatever fails
\* in between and whether or not the device stays (comms.c:569-602).
THEOREM DescriptorsAreOwned == Spec => []DescriptorIsOwned
  BY Invariance, PTL DEF IInv

\* When the sessions on a port that was not shared are over, it has its
\* initial terminal settings, unless a port_restore failed, and its driver the
\* initial rate, unless a session asked for a custom one (comms.c:366, 473).
THEOREM SettingsAreRestored == Spec => []ClosedMeansRestored
<1>1. IInv => ClosedMeansRestored
  BY DEF IInv, Applied, DriverLeft, ClosedMeansRestored
<1>2. QED
  BY <1>1, Invariance, PTL

\* A session that has the port to itself has it as its options ask, whatever
\* other sessions failed or lost their device before (comms.c:123-463).
THEOREM SessionsHaveOptions == Spec => []OpenHasOptions
<1>1. IInv => OpenHasOptions
  <2> SUFFICES ASSUME IInv, ~shared, NEW s \in Instances, InUse(s)
               PROVE  /\ Meaning(tios) =
                           [bytesz |-> opts[s].bytesz, parity |-> opts[s].parity,
                            stopbits |-> opts[s].stopbits]
                      /\ StandardRate(opts[s]) => tios.speed = opts[s].baudrate
                      /\ timeouts[s].rd = opts[s].timeouts.rd
    BY DEF OpenHasOptions
  <2>1. opts[s] \in Options
    BY DEF IInv, TypeOK
  <2>2. Refusal(opts[s]) >= 0 /\ timeouts[s] = NewTimeouts(opts[s])
    BY DEF IInv, Accepted, InUse
  <2>3. tios = NewTios(opts[s])
    BY DEF IInv, Applied, InUse
  <2>4. QED
    BY <2>1, <2>2, <2>3, SettingsMeanOptions DEF NewTimeouts
<1>2. QED
  BY <1>1, Invariance, PTL
=============================================================================
