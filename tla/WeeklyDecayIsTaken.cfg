\* Two quiet vehicles for a week.
CONSTANTS
    v1 = v1
    v2 = v2
    None = None
    Vehicles = {v1, v2}
    Owner <- TwoOwners
    Delta <- OffRoute
    Severities = {"HIGH"}
    Flaggable = {}
    DailyDecayPercent = 5
    WeeklyDecayPoints = 10
    PropagationDelta = 5
    Day = 1
    StartScores = {38}
    MaxAnomalies = 0
    MaxFailures = 0
SPECIFICATION Spec
PROPERTY WeeklyDecayIsTaken
