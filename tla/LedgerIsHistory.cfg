\* One flagged vehicle and one anomaly, no failures.
CONSTANTS
    v1 = v1
    v2 = v2
    None = None
    Vehicles = {v1, v2}
    Owner <- OneOwner
    Delta <- OffRoute
    Severities = {"HIGH"}
    Flaggable = {v1}
    DailyDecayPercent = 5
    WeeklyDecayPoints = 10
    PropagationDelta = 5
    Day = 1
    StartScores = {0, 38}
    MaxAnomalies = 1
    MaxFailures = 0
SPECIFICATION Spec
PROPERTY LedgerIsHistory
