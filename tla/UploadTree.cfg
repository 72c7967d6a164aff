\* One upload of a tree that another process changes.
SPECIFICATION Spec
CONSTANTS
    Path <- MCPath
    RootPath = 0
    Parent <- MCParent
    Local <- MCLocal
    Options <- MCOptions
    HashChunk = 2
    MaxChanges = 2
INVARIANTS TypeOK RootIsComplete SnapshotIsExact BuffersFit
