CONSTANTS
  Savers = {periodic, shutdown}
  Inodes = {i1, i2, i3, i4}
  Chunks = 3
  Faults = {}
  MaxVersion = 4
  NoInode = NoInode
SPECIFICATION PersistSpec
INVARIANTS
  CacheFileWhole
SYMMETRY InodeSymmetry
CHECK_DEADLOCK FALSE
