\* Two HIGH vehicles of one owner that behave; the default settings, nothing fails.
CONSTANTS
    v1 = v1
    v2 = v2
    None = None
    Vehicles = {v1, v2}
    Owner <- OneOwner
    Delta <- OffRoute
    Severities = {"HIGH"}
    Flaggable = {}
    DailyDecayPercent = 5
    WeeklyDecayPoints = 10
    PropagationDelta = 5
    Day = 1
    StartScores = {45}
    MaxAnomalies = 0
    MaxFailures = 0
SPECIFICATION FairSpec
PROPERTY ScoreStopsRising
