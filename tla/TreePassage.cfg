\* One directory of up to three entries, or a message of another client.
SPECIFICATION Spec
CONSTANTS
    BadName <- MCBadName
    MinSeconds <- MCMinSeconds
    MaxSeconds <- MCMaxSeconds
    MaxNanos <- MCMaxNanos
    NodeMinSeconds <- MCMinSeconds
    NodeMaxSeconds <- MCMaxSeconds
    Stat <- MCStat
    OwnStat <- MCOwnStat
    Foreign <- MCForeign
    Garbled <- MCGarbled
    Clock <- MCClock
    MaxEntries = 3
    MaxOpens = 2
INVARIANTS UploadedDirectoryLoads AttributesSurvive EncodingIsCanonical RowsMatchStore InspectIsHonest EscapesAreCounted
CHECK_DEADLOCK FALSE
