\* An access point: stations, channel switches, channel availability checks.
SPECIFICATION Spec
CONSTANTS
  m1 = m1
  m2 = m2
  Macs = {m1, m2}
  Scenes <- MCScenes
  MaxCalls = 4
  MaxFaults = 1
  MaxEvents = 2
INVARIANTS ApExact NothingLeft
PROPERTY Ends
CHECK_DEADLOCK FALSE
