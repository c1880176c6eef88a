SPECIFICATION MCSpec
CONSTANTS
  Bufs = 2
  QMax = 4
  MsgQMax = 2
  Scenes <- MCScenes
  Conns = {"c1", "c2"}
  Slots = {0, 1}
  First <- MCFirst
  SeqMod = 8
  MaxDrop = 2
  AckScenes <- MCAckScenes
INVARIANTS RxSafe AckKept
PROPERTY EverythingServed
CHECK_DEADLOCK FALSE
