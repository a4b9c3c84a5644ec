\* The notification service: an incident on three channels and a row of a sanction or
\* an account email, or three of the latter; a restart with other settings.
\* The loop of the rules engine: three vehicles in batches of two, two rules, one or two
\* workers; one evaluation that starts or stops failing, one failed query or restart.
\* Only the two loops, and the workers of the second, are fair.
CONSTANTS
    Incidents = {i1}
    None = None
    Configs <- Reconfigured
    Batch = 2
    MaxArrivals = 3
    MaxFailures = 1
    Fleet <- ThreeVehicles
    Rules <- TwoRules
    Queried <- InService
    BatchSize = 2
    Concurrencies = {1, 2}
    Passes = {0, 1, 2}
    MaxStops = 1
    MaxChanges = 2
SPECIFICATION ServicesSpec
INVARIANTS
    TypeOK OncePerChannel SentWentOut DuplicatesNeedFailures
    LoopTypeOK OneEvaluationPerVehicle DecayAfterAll
PROPERTIES
    SettledIsFinal HandledBehindFewEmails ActiveIsAnnounced MailArrives
    VehiclesAreServed
