\* Requests of three clients race with a signal and the end of the server.
SPECIFICATION FairSpec
CONSTANTS
    c1 = c1 c2 = c2 c3 = c3
    Client = {c1, c2, c3}
    MaxRequests = 1
INVARIANTS OneOwner OkMeansReleased
PROPERTIES OnlyAcceptedDetaches ReleaseInOrder ShutdownCompletes
CHECK_DEADLOCK FALSE
