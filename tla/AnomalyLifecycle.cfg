\* Two vehicles in the hands of two workers, one rule, two episodes in all: escalation
\* by severity or at the second anomaly of the day, a citizen's report on the same rule.
CONSTANTS
    Vehicles = {v1, v2}
    Rules = {"NGETEM"}
    ReportRules = {"NGETEM"}
    Severities = {"MEDIUM", "HIGH"}
    Workers = {w1, w2}
    OperatorActions = {"ACKNOWLEDGE", "FALSE_ALARM"}
    RepeatEscalationCount = 2
    MaxAnomalies = 2
    MaxAlerts = 2
    MaxIncidents = 2
    NoId = NoId
SYMMETRY Symmetry
SPECIFICATION Spec
INVARIANTS TypeOK OneOpenAnomalyPerKey AlertLivesWithAnomaly EscalationLinksBack
           NoStaleIncident OneVerdict
PROPERTIES NeverBackwards ImplementsCaseFile
