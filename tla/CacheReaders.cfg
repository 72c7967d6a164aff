\* Two daemons over one cache directory, with crashes and a power loss.
SPECIFICATION FairSpec
CONSTANTS
    p1 = p1 p2 = p2 t1 = t1 t2 = t2 t3 = t3 l1 = l1 l2 = l2
    NoLock = NoLock NoFile = NoFile
    Lock = {l1, l2}
    Chunk <- MCChunk
    Sha256 <- MCSha256
    Proc = {p1, p2}
    Thread = {t1, t2, t3}
    ProcOf <- MCProcOf
    Digest <- MCDigest
    MaxReads <- MCReads
    MaxCrashes = 1
INVARIANTS OneFillPerDigest NoStaleEntry VerifiedReads
PROPERTIES ReadsReturn ImplementsBlobService
CHECK_DEADLOCK FALSE
