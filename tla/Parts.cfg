\* A passenger and a driver on one vehicle, two calls at a time, an officer; a detector
\* of each sort, a subject, two analysts; two posts of one vehicle at a time; a client
\* and two ticks at a time; a vehicle with three sorts of positions, half-minute ticks.
\* One failure in every part.
CONSTANTS
    Users = {u1}
    Vehicles = {"v1"}
    Callers = {r1, r2}
    Officers = {o1}
    Actions = {"ASSIGN", "PROOF_UPLOAD", "RESOLVE"}
    NoUser = NoUser
    NoVehicle = NoVehicle
    NoOfficer = NoOfficer
    DuplicateWindow = 0
    MaxAge = 1
    MaxProofs = 1
    MaxEmergencies = 2
    Subjects = {s1}
    Detectors <- MCDetectors
    Lasting = {"DEVICE_REASSIGN_ABUSE", "TIMING_COORDINATION"}
    Analysts = {r1, r2}
    MaxAnomalies = 2
    MaxIncidents = 2
    MaxFailures = 1
    Kinds = {"RENEW", "REVOKE"}
    MaxSanctions = 3
    MaxTrail = 3
    Payloads <- MCPayloads
    Posts = {r1, r2}
    NoStatus = "none"
    MaxPositions = 3
    Clients = {c1}
    Slots = {r1, r2}
    Limit = 1
    Nobody = Nobody
    NotificationWindow = 1
    MaxTime = 2
    MaxNotifications = 2
    Sights <- MCSights
    Null <- MCNull
    Stops = {500}
    Minute = 2
    LostSignalMinutes = 1
    LostSignalCriticalMinutes = 2
    OverspeedThreshold = 60
    OverspeedWindowPoints = 2
    OverspeedMinPoints = 2
    CorridorTolerance = 50
    OffRouteGraceMinutes = 1
    OffRouteMinPoints = 2
    WrongDirectionGraceMinutes = 1
    WrongDirectionMinPoints = 2
    WrongDirectionHeadingDiff = 120
    WrongDirectionMinSpeed = 5
    NgetemMinutes = 2
    NgetemMaxDistance = 15
    NgetemMaxAvgSpeed = 3
    MaxMinutes = 4
    MaxHeard = 2
SPECIFICATION Spec
SYMMETRY MCSymmetry
INVARIANTS
    TypeOK OneActiveCall OneOpenPerSubject SecondIncidentNeedsOverlap TrailIsTrue
    StoredTwiceNeedsOverlap StatusIsOfCurrent AnnouncedOnce PassedOverWasAnnounced
    SilenceSpeaksAlone
PROPERTIES ClosedCaseIsSettled EscalatedIsKept
