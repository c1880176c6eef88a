\* Every sequence number may arrive at any time, the bus is suspended and
\* resumed, the station leaves and comes back once.  The window is the smallest
\* with room for two gaps.  A buffer takes four fragments, the ring three frames,
\* and its index starts again after six.  CHECK_DEADLOCK FALSE: the model stops when
\* a freed control is still in use, and when every frame has come.
SPECIFICATION MCSpec
CONSTANTS
  SnMod = 10
  WSize = 4
  MaxLeaves = 1
  MaxDuring = 1
  Room = 4
  UpScenes <- MCUpScenes
  RingSize = 3
  Wrap = 6
  RingScenes <- MCRingScenes
INVARIANTS WindowExact FramesOwned
PROPERTIES InOrder PartsGo
CHECK_DEADLOCK FALSE
