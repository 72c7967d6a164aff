\* The time of an uploaded root.
SPECIFICATION Spec
CONSTANTS
    BadName <- MCBadName
    MinSeconds <- MCMinSeconds
    MaxSeconds <- MCMaxSeconds
    MaxNanos <- MCMaxNanos
    NodeMinSeconds <- MCMinSeconds
    NodeMaxSeconds <- MCMaxSeconds
    Stat <- MCStat
    OwnStat <- MCOwnStat
    Foreign <- MCForeign
    Garbled <- MCGarbled
    Clock <- MCClock
    MaxEntries = 1
    MaxOpens = 1
INVARIANTS RootMtimeSurvives
CHECK_DEADLOCK FALSE
