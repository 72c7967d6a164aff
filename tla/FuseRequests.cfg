\* Every request and one directory stream over a small tree.
SPECIFICATION Spec
CONSTANTS
    p = p
    notUtf8 = notUtf8
    malformed = malformed
    Proc = {p}
    Remote <- MCRemote
    Malformed = malformed
    RootDigest <- MCRootDigest
    Request <- AllRequest
    Listed = {1, 2, 3, 4}
    BadName = notUtf8
    MaxInode = 10
    Nanos = 4
    Room = {1, 3}
    MaxSeeks = 1
INVARIANTS ErrnoIsHonest DentriesMatchTree ListingIsExact MountIsReady
CHECK_DEADLOCK FALSE
