\* Two vehicles of one owner, one of which may be flagged, one anomaly short of HIGH;
\* daily ticks, one anomaly and one failed query at any point. The decay of a full
\* score is what the propagation adds, as with the default 5 and 5, but in big steps.
CONSTANTS
    v1 = v1
    v2 = v2
    None = None
    Vehicles = {v1, v2}
    Owner <- OneOwner
    Delta <- OffRoute
    Severities = {"HIGH"}
    Flaggable = {v1}
    DailyDecayPercent = 60
    WeeklyDecayPoints = 10
    PropagationDelta = 60
    Day = 1
    StartScores = {38}
    MaxAnomalies = 1
    MaxFailures = 1
SPECIFICATION FairSpec
PROPERTIES DecayIsPaced RaisedOncePerDay ScoreSettles
