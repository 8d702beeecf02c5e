------------------------------- MODULE DevList -------------------------------
(***************************************************************************)
(* ser_dev_list_get and ser_dev_list_destroy on Linux, macOS and Windows   *)
(* (sercomm/posix/dev_linux.c, sercomm/posix/dev_macos.c, sercomm/win/dev.c)*)
(* and a program that gets a list, reads it and destroys it.               *)
(*                                                                         *)
(* The system gives a snapshot; its entries are looked at one by one while *)
(* devices go.  The list grows at its head; a node is an address.          *)
(***************************************************************************)
EXTENDS Integers, Sequences, FiniteSets, SequencesExt

CONSTANTS
  Platforms,  \* among "linux", "macos" and "windows"
  Devices,    \* the serial devices
  Others,     \* entries that are none: a tty without a device, a printer port
  NoDev,      \* what an entry holds when its device could not be read
  Nodes,      \* the addresses calloc returns
  Climb,      \* how many registry entries above a device macOS looks at
  Usb,        \* the devices for which the last of them is of USB
  FaultChoices \* what may fail: "udev_new", "enumerate_new", "matching",
               \* "class_devs", "malloc", "registry", "calloc"

NULL == 0

ASSUME PlatformsAssumption == Platforms \subseteq {"linux", "macos", "windows"}
ASSUME NodesAssumption == Nodes \subseteq Nat \ {NULL}
ASSUME DevicesAssumption ==
  /\ NoDev \notin Devices /\ Devices \cap Others = {}
  /\ IsFiniteSet(Devices \cup Others)
ASSUME ClimbAssumption ==
  /\ Climb \in [Devices \cup Others -> Nat]
  /\ \A d \in Usb : d \in Devices /\ Climb[d] > 0

VARIABLES
  os,       \* the platform
  faults,   \* what may fail in this behaviour
  pc,       \* where the calling thread is
  plugged,  \* the devices present
  todo,     \* the entries of the snapshot not yet looked at
  lst,      \* the local variables lst and prev, and the pointer returned
  prev,
  curr,     \* the local variable of ser_dev_list_destroy
  heap,     \* the nodes that are allocated
  next,     \* their members next and dev
  dev,
  held,     \* objects of the system that are to be released
  owed,     \* the devices above which a registry entry is retained (macOS)
  err,      \* the last error was set in this call
  stayed    \* history: the devices of the snapshot that have not gone since

memory == <<heap, next, dev>>
vars == <<os, faults, pc, plugged, todo, lst, prev, curr, memory, held, owed, err,
          stayed>>

Init ==
  /\ os \in Platforms /\ faults \in FaultChoices
  /\ pc = "idle" /\ plugged \in SUBSET Devices
  /\ todo = <<>> /\ lst = NULL /\ prev = NULL /\ curr = NULL
  /\ heap = {} /\ next = [n \in Nodes |-> NULL] /\ dev = [n \in Nodes |-> NoDev]
  /\ held = {} /\ owed = {} /\ err = FALSE /\ stayed = {}

-----------------------------------------------------------------------------
(***************************************************************************)
(* ser_dev_list_get.                                                       *)
(***************************************************************************)
Get ==
  /\ pc \in {"idle", "null"}
  /\ pc' = CASE os = "linux"   -> "udev_new"
             [] os = "macos"   -> "matching"
             [] os = "windows" -> "class_devs"
  /\ err' = FALSE
  /\ UNCHANGED <<os, faults, plugged, todo, lst, prev, curr, memory, held, owed,
                 stayed>>

\* A call that yields the object "got", or sets the last error.
Acquire(at, got, place, onFailure) ==
  \/ pc = at /\ pc' = place /\ held' = held \cup {got} /\ UNCHANGED err
  \/ pc = at /\ at \in faults /\ pc' = onFailure /\ err' = TRUE /\ UNCHANGED held

\* The snapshot, in the order of the system.  A set that Windows cannot create
\* is one without entries.
Enumerate ==
  /\ \/ Acquire("udev_new", "uinst", "enumerate_new", "release")
     \/ Acquire("enumerate_new", "uenum", "foreach", "release")
     \/ Acquire("matching", "io_iter", "foreach", "release")
     \/ pc = "class_devs" /\ pc' = "foreach"
        /\ held' = held \cup {"dev_info_set"} /\ UNCHANGED err
  /\ IF pc' = "foreach"
     THEN /\ todo' \in SetToSeqs(IF os = "macos" THEN plugged ELSE plugged \cup Others)
                       \cup (IF os = "windows" /\ "class_devs" \in faults
                             THEN {<<>>} ELSE {})
          /\ stayed' = ToSet(todo') \cap Devices
     ELSE UNCHANGED <<todo, stayed>>
  /\ UNCHANGED <<os, faults, plugged, lst, prev, curr, memory, owed>>

\* udev_list_entry_is_device; the port name that Windows has in its registry,
\* which is skipped if it is "LPT".  Printer ports have a number as well, so
\* that none is.
Skipped(d) ==
  \/ os = "linux" /\ (d \notin plugged \/ "malloc" \in faults)
  \/ os = "windows" /\ "registry" \in faults

Taken(d) == os = "linux" => d \in plugged

Skip ==
  /\ pc = "foreach" /\ todo # <<>> /\ Skipped(Head(todo))
  /\ todo' = Tail(todo)
  /\ err' = (err \/ (os = "linux" /\ Head(todo) \in plugged))
  /\ UNCHANGED <<os, faults, pc, plugged, lst, prev, curr, memory, held, owed,
                 stayed>>

\* Mutant: what is destroyed is the pointer calloc has just overwritten.
Alloc_DestroysNull ==
  /\ pc = "foreach" /\ todo # <<>> /\ Taken(Head(todo))
  /\ prev' = lst
  /\ \/ \E n \in Nodes \ heap :
          /\ lst' = n /\ heap' = heap \cup {n} /\ pc' = "fill"
          /\ next' = [next EXCEPT ![n] = NULL] /\ dev' = [dev EXCEPT ![n] = NoDev]
          /\ UNCHANGED <<curr, err>>
     \/ /\ "calloc" \in faults
        /\ lst' = NULL /\ curr' = NULL /\ pc' = "destroy_prev" /\ err' = TRUE
        /\ UNCHANGED memory
  /\ UNCHANGED <<os, faults, plugged, todo, held, owed, stayed>>

\* calloc for an entry that is a device; if it fails, what there is of the
\* list is destroyed.  macOS holds the entry's io_dev meanwhile.
Alloc ==
  /\ pc = "foreach" /\ todo # <<>> /\ Taken(Head(todo))
  /\ prev' = lst
  /\ \/ \E n \in Nodes \ heap :
          /\ lst' = n /\ heap' = heap \cup {n} /\ pc' = "fill"
          /\ next' = [next EXCEPT ![n] = NULL] /\ dev' = [dev EXCEPT ![n] = NoDev]
          /\ UNCHANGED <<curr, err>>
     \/ /\ "calloc" \in faults
        /\ lst' = NULL /\ curr' = lst /\ pc' = "destroy_prev" /\ err' = TRUE
        /\ UNCHANGED memory
  /\ held' = IF os = "macos" THEN held \cup {"io_dev"} ELSE held
  /\ UNCHANGED <<os, faults, plugged, todo, owed, stayed>>

\* Mutant: the new node is not linked to the list so far.
Fill_Unlinked ==
  /\ pc = "fill" /\ pc' = "foreach"
  /\ dev' = [dev EXCEPT ![lst] = Head(todo)]
  /\ todo' = Tail(todo)
  /\ held' = held \ {"io_dev"}
  /\ UNCHANGED <<os, faults, plugged, lst, prev, curr, heap, next, owed, err,
                 stayed>>

\* The path that is read of a device: none, in udev, if it went in the meantime,
\* and maybe none in the IOKit registry.
Properties(d) ==
  CASE d \in plugged \/ os = "windows" -> {d}
    [] d \notin plugged /\ os = "linux" -> {NoDev}
    [] d \notin plugged /\ os = "macos" -> {d, NoDev}

\* On macOS the loop climbs from the device to the first entry above it that is
\* of USB, or to the root: every entry it climbs to is retained and, if it is
\* one of USB, the last is released.  How many stay retained; the climb may end
\* early if the device has gone.
Leaves(d) ==
  {n - (IF d \in Usb /\ n = Climb[d] THEN 1 ELSE 0) :
     n \in IF d \in plugged THEN {Climb[d]} ELSE 0..Climb[d]}

\* The properties are stored and the node is linked to the list so far.
Fill ==
  /\ pc = "fill" /\ pc' = "foreach"
  /\ \E value \in Properties(Head(todo)) : dev' = [dev EXCEPT ![lst] = value]
  /\ next' = [next EXCEPT ![lst] = prev]
  /\ todo' = Tail(todo)
  /\ held' = held \ {"io_dev"}
  /\ IF os = "macos"
     THEN \E n \in Leaves(Head(todo)) :
            owed' = IF n = 0 THEN owed ELSE owed \cup {Head(todo)}
     ELSE UNCHANGED owed
  /\ UNCHANGED <<os, faults, plugged, lst, prev, curr, heap, err, stayed>>

\* The end of the loop: "No devices found" if the list is empty.
Finish ==
  /\ pc = "foreach" /\ todo = <<>>
  /\ pc' = "release" /\ err' = (err \/ lst = NULL)
  /\ UNCHANGED <<os, faults, plugged, todo, lst, prev, curr, memory, held, owed,
                 stayed>>

\* The clean up labels, and the return.  On macOS the io_dev of an entry that
\* calloc failed for is not among what is released.
Release ==
  /\ pc = "release"
  /\ pc' = IF lst = NULL THEN "null" ELSE "returned"
  /\ held' = held \ {"uinst", "uenum", "io_iter", "dev_info_set"}
  /\ todo' = <<>>
  /\ UNCHANGED <<os, faults, plugged, lst, prev, curr, memory, owed, err, stayed>>

-----------------------------------------------------------------------------
(***************************************************************************)
(* ser_dev_list_destroy, for the program and for a ser_dev_list_get that   *)
(* fails half way.                                                         *)
(***************************************************************************)
Destroy ==
  /\ pc = "returned"
  /\ pc' = "destroy" /\ curr' = lst
  /\ UNCHANGED <<os, faults, plugged, todo, lst, prev, memory, held, owed, err,
                 stayed>>

\* free(curr), for the node after it has been read.
FreeNode ==
  /\ pc \in {"destroy", "destroy_prev"} /\ curr # NULL
  /\ curr' = next[curr] /\ heap' = heap \ {curr}
  /\ UNCHANGED <<os, faults, pc, plugged, todo, lst, prev, next, dev, held, owed,
                 err, stayed>>

DestroyReturns ==
  /\ pc \in {"destroy", "destroy_prev"} /\ curr = NULL
  /\ IF pc = "destroy" THEN pc' = "idle" /\ lst' = NULL
                        ELSE pc' = "release" /\ UNCHANGED lst
  /\ UNCHANGED <<os, faults, plugged, todo, prev, curr, memory, held, owed, err,
                 stayed>>

-----------------------------------------------------------------------------
Plug(d) ==
  /\ d \notin plugged /\ plugged' = plugged \cup {d}
  /\ UNCHANGED <<os, faults, pc, todo, lst, prev, curr, memory, held, owed, err,
                 stayed>>

Unplug(d) ==
  /\ d \in plugged /\ plugged' = plugged \ {d} /\ stayed' = stayed \ {d}
  /\ UNCHANGED <<os, faults, pc, todo, lst, prev, curr, memory, held, owed, err>>

-----------------------------------------------------------------------------
Next ==
  \/ Get \/ Enumerate \/ Skip \/ Alloc \/ Fill \/ Finish \/ Release
  \/ Destroy \/ FreeNode \/ DestroyReturns
  \/ \E d \in Devices : Plug(d) \/ Unplug(d)

Spec == Init /\ [][Next]_vars

-----------------------------------------------------------------------------
(***************************************************************************)
(* Properties.                                                             *)
(***************************************************************************)
Address == Nodes \cup {NULL}

\* The variables have the types their C counterparts have.
TypeOK ==
  /\ os \in Platforms /\ faults \in FaultChoices
  /\ pc \in {"idle", "null", "udev_new", "enumerate_new", "matching",
             "class_devs", "foreach", "fill", "destroy_prev", "release",
             "returned", "destroy"}
  /\ plugged \subseteq Devices /\ stayed \subseteq Devices
  /\ todo \in Seq(Devices \cup Others)
  /\ lst \in Address /\ prev \in Address /\ curr \in Address
  /\ heap \subseteq Nodes
  /\ next \in [Nodes -> Address]
  /\ dev \in [Nodes -> Devices \cup Others \cup {NoDev}]
  /\ held \subseteq {"uinst", "uenum", "io_iter", "dev_info_set", "io_dev"}
  /\ owed \subseteq Devices \cup Others
  /\ err \in BOOLEAN

\* The i-th node, or the end of the list.
At(order, i) == IF i \in DOMAIN order THEN order[i] ELSE NULL

\* The links lead from "first" through the nodes in this order, and end.
Links(first, order) ==
  /\ first = At(order, 1)
  /\ \A i \in DOMAIN order : next[order[i]] = At(order, i + 1)

Listed(d) == {n \in heap : dev[n] = d}

\* The list a program receives ends, holds every node that is allocated, and
\* names every device that was there all along, once: however many entries
\* were skipped and devices went while it was built.  No device is left out
\* but for a failure to look at it.
ListIsComplete ==
  pc = "returned" =>
    /\ \E order \in SetToSeqs(heap) : Links(lst, order)
    /\ \A d \in Devices : Cardinality(Listed(d)) <= 1
    /\ faults \cap {"malloc", "registry"} = {} =>
         \A d \in stayed : Cardinality(Listed(d)) = 1

\* A node is allocated when it is freed, no node is left when there is no
\* list, and no object of the system is held between calls; but for what macOS
\* leaves: the io_dev for which calloc fails, and registry entries above a
\* device, unless its parent is of USB.  A NULL comes with a reason.
NothingHeld ==
  /\ pc \in {"destroy", "destroy_prev"} => curr \in heap \cup {NULL}
  /\ pc \in {"idle", "null"} => heap = {}
  /\ pc \in {"idle", "null", "returned"} =>
       held \subseteq IF os = "macos" /\ "calloc" \in faults THEN {"io_dev"} ELSE {}
  /\ \A d \in owed : os = "macos" /\ ~(d \in Usb /\ Climb[d] = 1)
  /\ pc = "null" => err
=============================================================================
