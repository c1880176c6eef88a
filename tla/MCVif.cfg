\* Interfaces, connections, scans and remain-on-channel.
SPECIFICATION Spec
CONSTANTS
  wlan = wlan
  p2p = p2p
  dev = dev
  Netdevs = {wlan, p2p}
  Wlan0 = wlan
  P2pDev = dev
  TypeOf <- MCTypeOf
  Scenes <- MCScenes
  MaxIdx = 3
  AliveTicks = 2
  WorkTicks = 0
  MaxCalls = 6
  MaxFaults = 1
  MaxLost = 1
INVARIANTS TablesExact NoOops
PROPERTY Settles
CHECK_DEADLOCK FALSE
