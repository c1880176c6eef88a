\* The life of a device in the loader and in the WLAN driver.
SPECIFICATION Spec
CONSTANTS
  Configs <- MCConfigs
  Chunk = 2
  Urbs = 2
  MaxPoll = 1
  Scenes <- MCScenes
INVARIANTS LifeSafe
PROPERTIES UsersFirst Ends
CHECK_DEADLOCK FALSE
