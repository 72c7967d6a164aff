\* ServingIsReachable when a mount follows a shutdown.
SPECIFICATION Spec
CONSTANTS
    d1 = d1 d2 = d2 d3 = d3 u1 = u1 u2 = u2
    NoDaemon = NoDaemon
    Daemon = {d1, d3}
    Unmounter = {u1}
    Target <- MCTarget
    Overlap = FALSE
    MaxCrashes = 1
INVARIANTS ServingIsReachable
CHECK_DEADLOCK FALSE
