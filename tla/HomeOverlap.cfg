\* Overlapping mounts of one home, unmounts and a crash.
SPECIFICATION Spec
CONSTANTS
    d1 = d1 d2 = d2 d3 = d3 u1 = u1 u2 = u2
    NoDaemon = NoDaemon
    Daemon = {d1, d3}
    Unmounter = {u1, u2}
    Target <- MCTarget
    Overlap = TRUE
    MaxCrashes = 1
SYMMETRY UnmounterSymmetry
INVARIANTS OwnerKeepsTree UnmountIsHonest
PROPERTIES MountMeansMounted
CHECK_DEADLOCK FALSE
