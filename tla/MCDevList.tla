------------------------------ MODULE MCDevList ------------------------------
(***************************************************************************)
(* Instances of DevList for TLC.                                           *)
(***************************************************************************)
EXTENDS DevList

CONSTANTS d1, d2, lpt

TwoDevices == {d1, d2}

\* d1 is below a USB entry; d2 is not a USB device, two entries below the root.
RegistryPath == (d1 :> 1) @@ (d2 :> 2) @@ (lpt :> 0)

UsbDevices == {d1}

\* Each failure where it matters, and none.
EveryFault ==
  {{}, {"udev_new", "enumerate_new", "matching", "class_devs", "calloc"},
   {"malloc", "registry"}}
=============================================================================
