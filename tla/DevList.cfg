\* Lists that are got and destroyed while devices come and go.
SPECIFICATION Spec
CONSTANTS
  d1 = d1
  d2 = d2
  lpt = lpt
  Platforms = {"linux", "macos", "windows"}
  Devices <- TwoDevices
  Others = {lpt}
  NoDev = nodev
  Climb <- RegistryPath
  Usb <- UsbDevices
  Nodes = {1, 2, 3}
  FaultChoices <- EveryFault
INVARIANTS
  ListIsComplete
  NothingHeld
