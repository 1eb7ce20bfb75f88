CONSTANTS
  Savers = {periodic}
  Inodes = {i1, i2, i3}
  Chunks = 3
  Faults = {"create", "write", "close", "rename"}
  MaxVersion = 4
  NoInode = NoInode
SPECIFICATION PersistSpec
INVARIANTS
  OnlyTailLost
PROPERTIES
  RestoresLastSaveOrNothing
SYMMETRY InodeSymmetry
CHECK_DEADLOCK FALSE
