-------------------------------- MODULE MCParts --------------------------------
(* TLC instances of the parts that work in several statements of their own and of  *)
(* which only safety is asked: the calls for help, the collective anomalies, the    *)
(* sanctions, the telemetry, the feed of the dashboards and the decisions of the    *)
(* rules. They share neither rows nor memory, so a behaviour is one of one part     *)
(* (`part`) and their state spaces add up.                                          *)
EXTENDS Integers, FiniteSets, Sequences, TLC

CONSTANTS
    \* EmergencyResponse
    Users, Vehicles, Callers, Officers, Actions, NoUser, NoVehicle, NoOfficer,
    DuplicateWindow, MaxAge, MaxProofs, MaxEmergencies,
    \* CollectiveAnomaly
    Subjects, Detectors, Lasting, Analysts, MaxAnomalies, MaxIncidents, MaxFailures,
    \* Sanctions
    Kinds, MaxSanctions, MaxTrail,
    \* TelemetryIntake
    Payloads, Posts, NoStatus, MaxPositions,
    \* RealtimeFeed
    Clients, Slots, Limit, Nobody, NotificationWindow, MaxTime, MaxNotifications,
    \* RuleDecisions
    Sights, Null, Stops, Minute, LostSignalMinutes, LostSignalCriticalMinutes,
    OverspeedThreshold, OverspeedWindowPoints, OverspeedMinPoints,
    CorridorTolerance, OffRouteGraceMinutes, OffRouteMinPoints,
    WrongDirectionGraceMinutes, WrongDirectionMinPoints,
    WrongDirectionHeadingDiff, WrongDirectionMinSpeed,
    NgetemMinutes, NgetemMaxDistance, NgetemMaxAvgSpeed, MaxMinutes, MaxHeard

VARIABLES
    part,
    emergencies, calls, uploads,
    anomalies, cases, detection, escalations, failed,
    sanctions, requests, lost,
    positions, current, status, posts, orderly, refused,
    now, notifications, ticks, clients,
    clock, heard, service, pass, decided

emergency == <<emergencies, calls, uploads>>
collective == <<anomalies, cases, detection, escalations, failed>>
sanction == <<sanctions, requests, lost>>
intake == <<positions, current, status, posts, orderly, refused>>
feed == <<now, notifications, ticks, clients>>
decisions == <<clock, heard, service, pass, decided>>
vars == <<part, emergency, collective, sanction, intake, feed, decisions>>

Emergency == INSTANCE EmergencyResponse WITH
    incidents <- emergencies, Requests <- Callers, Window <- DuplicateWindow,
    MaxIncidents <- MaxEmergencies
Collective == INSTANCE CollectiveAnomaly WITH
    rows <- anomalies, incidents <- cases, pass <- detection, failures <- failed,
    MaxRows <- MaxAnomalies
Sanction == INSTANCE Sanctions WITH Requests <- Analysts
Intake == INSTANCE TelemetryIntake WITH failures <- refused
Feed == INSTANCE RealtimeFeed WITH
    rows <- notifications, Window <- NotificationWindow, MaxRows <- MaxNotifications
Decisions == INSTANCE RuleDecisions WITH
    now <- clock, positions <- heard, MaxTime <- MaxMinutes, MaxPositions <- MaxHeard
ASSUME PartsConstants ==
    /\ Emergency!EmergencyConstants /\ Collective!CollectiveConstants
    /\ Sanction!SanctionConstants /\ Intake!IntakeConstants
    /\ Feed!FeedConstants /\ Decisions!DecisionConstants
------------------------------------------------------------------------------
Init ==
    /\ part \in {"emergency", "collective", "sanction", "intake", "feed", "decisions"}
    /\ Emergency!Init /\ Collective!Init /\ Sanction!Init /\ Intake!Init /\ Feed!Init
    /\ Decisions!Init
    /\ service \/ part = "decisions"

Next ==
    /\ UNCHANGED part
    /\ \/ /\ part = "emergency" /\ Emergency!Next
          /\ UNCHANGED <<collective, sanction, intake, feed, decisions>>
       \/ /\ part = "collective" /\ Collective!Next
          /\ UNCHANGED <<emergency, sanction, intake, feed, decisions>>
       \/ /\ part = "sanction" /\ Sanction!Next
          /\ UNCHANGED <<emergency, collective, intake, feed, decisions>>
       \/ /\ part = "intake" /\ Intake!Next
          /\ UNCHANGED <<emergency, collective, sanction, feed, decisions>>
       \/ /\ part = "feed" /\ Feed!Next
          /\ UNCHANGED <<emergency, collective, sanction, intake, decisions>>
       \/ /\ part = "decisions" /\ Decisions!Next
          /\ UNCHANGED <<emergency, collective, sanction, intake, feed>>

Spec == Init /\ [][Next]_vars
------------------------------------------------------------------------------
(* Values.                                                                      *)

\* One detector of each sort.
MCDetectors == <<"ROUTE_CLUSTER_VIOLATION", "TIMING_COORDINATION">>

\* Two places at each of two times, one without a status.
MCPayloads ==
    {[vehicle |-> "v1", ts |-> 1, place |-> "here", status |-> "STOPPED"],
     [vehicle |-> "v1", ts |-> 1, place |-> "there", status |-> "MOVING"],
     [vehicle |-> "v1", ts |-> 2, place |-> "there", status |-> "STOPPED"],
     [vehicle |-> "v1", ts |-> 2, place |-> "here", status |-> "none"]}

\* Standing on the route, racing away from it, parked at the base next to a stop.
MCNull == -1
MCSights ==
    {[speed |-> 0, place |-> 0, off |-> 0, base |-> FALSE, heading |-> -1, road |-> -1],
     [speed |-> 90, place |-> 500, off |-> 2000, base |-> FALSE, heading |-> 10, road |-> 200],
     [speed |-> 0, place |-> 500, off |-> 2000, base |-> TRUE, heading |-> -1, road |-> -1]}

\* In every part the requests, posts or ticks at work are {r1, r2}, and alike.
MCSymmetry == Permutations(Callers)
------------------------------------------------------------------------------
(* The properties of the modules, where they are explained.                     *)

\* Types.
TypeOK ==
    /\ Emergency!TypeOK /\ Collective!TypeOK /\ Sanction!TypeOK /\ Intake!TypeOK
    /\ Feed!TypeOK /\ Decisions!TypeOK

\* Two calls of one passenger or one vehicle's driver need the window or overlap.
OneActiveCall == Emergency!OneActiveCall

\* Only a proof that began before adds to a closed emergency.
ClosedCaseIsSettled == Emergency!ClosedCaseIsSettled

\* A subject never has two open anomalies of one type.
OneOpenPerSubject == Collective!OneOpenPerSubject

\* A second incident of an anomaly needs analysts that overlap, or a failure.
SecondIncidentNeedsOverlap == Collective!SecondIncidentNeedsOverlap

\* An escalated anomaly nobody has in hand stays as it is.
EscalatedIsKept == Collective!EscalatedIsKept

\* The trail of a sanction accounts for its status and its successors.
TrailIsTrue == Sanction!TrailIsTrue

\* A position is stored twice only by posts that overlap.
StoredTwiceNeedsOverlap == Intake!StoredTwiceNeedsOverlap

\* Status and current position of a vehicle agree while its posts are orderly.
StatusIsOfCurrent == Intake!StatusIsOfCurrent

\* A notification is announced twice only by ticks that ask at once.
AnnouncedOnce == Feed!AnnouncedOnce

\* A notification that was passed over was announced, came too late or was crowded out.
PassedOverWasAnnounced == Feed!PassedOverWasAnnounced

\* A vehicle found silent is accused of nothing else.
SilenceSpeaksAlone == Decisions!SilenceSpeaksAlone
==============================================================================
