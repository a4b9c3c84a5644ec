\* Two reports on one vehicle, two workers, one other incident, one failure.
CONSTANTS
    Vehicles = {v1}
    Categories = {"RECKLESS_DRIVING", "NGETEM"}
    Actions = {"REJECT", "ESCALATE_TO_INCIDENT"}
    Workers = {w1, w2}
    Batch = 1
    Recent = 1
    Attempts = 2
    NoVehicle = NoVehicle
    NoReport = NoReport
    MaxReports = 2
    MaxOthers = 1
    MaxFailures = 1
SPECIFICATION FairSpec
INVARIANTS TypeOK OneIncidentPerReport SameCaseSharesIncident
PROPERTIES DecisionStands ReviewedUnlessCrowdedOut
