SPECIFICATION MCSpec
CONSTANTS
  Lines <- MCLines
  Lengths = {0, 4, 200}
  PrivScenes <- MCPrivScenes
  Nets <- MCNets
  Rooms = {900, 2500}
  WextScenes <- MCWextScenes
  AttrLists <- MCLists
  VendorCalls = {0, 1}
  ParScenes <- MCParScenes
INVARIANTS  DeclaredFit
PROPERTY CommandsReturn
CHECK_DEADLOCK FALSE
