\* One vehicle and one rule through two episodes: one worker, repeat escalation
\* at the second anomaly of the day, a citizen's report on the same rule.
CONSTANTS
    Vehicles = {v1}
    Rules = {"NGETEM"}
    ReportRules = {"NGETEM"}
    Severities = {"MEDIUM", "HIGH"}
    Workers = {w1}
    OperatorActions = {"ACKNOWLEDGE", "ASSIGN", "RESOLVE", "FALSE_ALARM", "PROOF_UPLOAD", "ESCALATE"}
    RepeatEscalationCount = 2
    MaxAnomalies = 2
    MaxAlerts = 2
    MaxIncidents = 2
    NoId = NoId
SPECIFICATION Spec
PROPERTIES EscalatesToActiveIncident
