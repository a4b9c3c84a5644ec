\* The values of Parts.cfg, for the decisions alone.
CONSTANTS
    Sights <- MCSights
    Null <- MCNull
    Stops = {500}
    Minute = 2
    LostSignalMinutes = 1
    LostSignalCriticalMinutes = 2
    OverspeedThreshold = 60
    OverspeedWindowPoints = 2
    OverspeedMinPoints = 2
    CorridorTolerance = 50
    OffRouteGraceMinutes = 1
    OffRouteMinPoints = 2
    WrongDirectionGraceMinutes = 1
    WrongDirectionMinPoints = 2
    WrongDirectionHeadingDiff = 120
    WrongDirectionMinSpeed = 5
    NgetemMinutes = 2
    NgetemMaxDistance = 15
    NgetemMaxAvgSpeed = 3
    MaxTime = 4
    MaxPositions = 2
SPECIFICATION Spec
INVARIANT StandsForTheWindow
