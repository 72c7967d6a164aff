\* Two threads over a small tree while the session may be closed.
SPECIFICATION FairSpec
CONSTANTS
    t1 = t1 t2 = t2
    Malformed = Malformed
    Thread = {t1, t2}
    Inode <- MCInode
    Blob <- MCBlobs
    Chunk <- MCChunk
    DigestOf <- MCDigestOf
    Decode <- MCDecode
    RootDigest <- MCRoot
    OpsOf <- MCOpsOf
    MaxCalls <- MCCalls
INVARIANTS LoadedComplete AnswersMatchTree CountersMatchLoads ReadIsFaithful
PROPERTIES InodesAreStable NothingAfterClose CallsReturn
CHECK_DEADLOCK FALSE
