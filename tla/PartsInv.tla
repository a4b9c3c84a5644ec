------------------------------- MODULE PartsInv -------------------------------
(***************************************************************************)
(* The inductive invariants behind the properties of the calls for help,   *)
(* the sanctions, the feed and the decisions, as MCParts instantiates them:*)
(* what is true between two statements of a request, a tick or a pass.     *)
(***************************************************************************)
EXTENDS MCParts, SequencesExt

(* Calls for help                                                          *)

CaseStatuses == {"OPEN", "IN_PROGRESS"} \cup Emergency!Closed
CallSources == {"PASSENGER_APP", "DRIVER_DEVICE"}
AnyCase ==
    [user : Users \cup {NoUser}, vehicle : Vehicles \cup {NoVehicle}, source : CallSources,
     status : CaseStatuses, assigned : Officers \cup {NoOfficer}, age : 0..MaxAge,
     proofs : 0..MaxProofs, read : 0..MaxEmergencies]
AnyCall ==
    [source : CallSources, user : Users \cup {NoUser}, vehicle : Vehicles \cup {NoVehicle},
     read : 0..MaxEmergencies]
AnyUpload == [incident : Nat \ {0}]

EmergencyTypes ==
    /\ emergencies \in Seq(AnyCase) /\ Len(emergencies) <= MaxEmergencies
    /\ calls \in [Callers -> {Emergency!NoCall} \cup AnyCall]
    /\ uploads \in [Emergency!Uploaders -> {Emergency!NoUpload} \cup AnyUpload]

CasesExist ==
    /\ \A r \in Callers : calls[r] # Emergency!NoCall => calls[r].read <= Len(emergencies)
    /\ \A o \in Emergency!Uploaders :
          uploads[o] # Emergency!NoUpload => uploads[o].incident \in DOMAIN emergencies

\* Whoever is about to insert has no duplicate among the incidents it has read.
NoDuplicateRead ==
    \A r \in Callers : calls[r] # Emergency!NoCall =>
        \A i \in 1..calls[r].read :
            ~ /\ Emergency!Active(i) /\ emergencies[i].age <= DuplicateWindow
              /\ Emergency!SameCaller(i, calls[r].user, calls[r].vehicle, calls[r].source)

EmergencyInv ==
    /\ EmergencyTypes
    /\ CasesExist
    /\ NoDuplicateRead
    /\ Emergency!OneActiveCall
------------------------------------------------------------------------------
(* Sanctions                                                               *)

AnySanction ==
    [status : {"ACTIVE", "REVOKED", "RENEWED"}, renews : 0..MaxSanctions,
     trail : Seq(Kinds \cup {"CREATE"})]
AnyRequest ==
    [step : {"none", "status", "successor", "action"}, kind : Kinds \cup {"none", "CREATE"},
     sanction : 0..MaxSanctions]

SanctionTypes ==
    /\ sanctions \in Seq(AnySanction)
    /\ requests \in [Analysts -> AnyRequest]
    /\ lost \in [1..MaxSanctions -> 0..MaxFailures]

\* A request at work names a sanction, and a step of its own kind.
AtWork ==
    /\ \A r \in Analysts :
          /\ requests[r].step = "none" => requests[r] = Sanction!Idle
          /\ requests[r].step # "none" =>
                requests[r].sanction \in DOMAIN sanctions /\ requests[r].kind # "none"
          /\ requests[r].step = "status" => requests[r].kind \in {"RENEW", "REVOKE"}
          /\ requests[r].step = "successor" => requests[r].kind = "RENEW"
    /\ \A j \in DOMAIN sanctions : sanctions[j].renews < j

\* The renewals under way that have not made their successor fit the bound.
Renewing ==
    {r \in Analysts : requests[r].step \in {"status", "successor"} /\ requests[r].kind = "RENEW"}
RoomForRenewals == Len(sanctions) + Cardinality(Renewing) <= MaxSanctions

\* Who has made the successor of i and not put it on record, and who has written
\* the status of i and not put that on record.
Recording(i) ==
    {r \in Analysts : /\ requests[r].sanction = i
                      /\ requests[r].step = "action" /\ requests[r].kind = "RENEW"}
Deciding(i) ==
    {r \in Analysts : /\ requests[r].sanction = i
                      /\ \/ requests[r].step = "successor"
                         \/ requests[r].step = "action" /\ requests[r].kind \in {"RENEW", "REVOKE"}}
Undecided(i) == ToSet(sanctions[i].trail) \subseteq {"CREATE", "NOTE"}

\* Every successor of a sanction is on record, or about to be, or lost with a
\* request; and so is every status.
Accounted(i) ==
    /\ LET recorded == Cardinality(Sanction!Renewals(i)) + Cardinality(Recording(i))
           made == Cardinality(Sanction!Successors(i))
       IN  recorded <= made /\ made <= recorded + lost[i]
    /\ sanctions[i].status = "ACTIVE" => Deciding(i) = {} /\ Undecided(i)
    /\ sanctions[i].status # "ACTIVE" => Deciding(i) # {} \/ ~Undecided(i) \/ lost[i] > 0
AllAccounted == \A i \in DOMAIN sanctions : Accounted(i)

SanctionInv == SanctionTypes /\ AtWork /\ RoomForRenewals /\ AllAccounted
------------------------------------------------------------------------------
(* The feed                                                                *)

AnyNotification == [at : 0..MaxTime, in : BOOLEAN]
AnyTick ==
    [pc : {"next", "deliver"}, todo : SUBSET Clients, client : Clients \cup {Nobody},
     found : SUBSET (1..MaxNotifications), saw : SUBSET (1..MaxNotifications)]
AnyClient ==
    [state : {"new", "open", "closed"}, last : 0..MaxTime, first : 0..MaxTime,
     news : [1..MaxNotifications -> Nat], late : SUBSET (1..MaxNotifications), met : BOOLEAN]

FeedTypes ==
    /\ now \in 0..MaxTime
    /\ notifications \in Seq(AnyNotification) /\ Len(notifications) <= MaxNotifications
    /\ ticks \in [Slots -> {Feed!NoTick} \cup AnyTick]
    /\ clients \in [Clients -> AnyClient]
    /\ \A n \in DOMAIN notifications : notifications[n].at <= now
    /\ \A c \in Clients : clients[c].first <= clients[c].last /\ clients[c].last <= now

\* Who waits for an answer waits for one client's, who had been connected; what is
\* coming to the client was committed when the query saw it.
Answers ==
    /\ \A t \in Slots :
          /\ ticks[t].pc = "next" => ticks[t].found = {}
          /\ ticks[t].pc = "deliver" =>
                /\ ticks[t].client \in Clients
                /\ ticks[t].found \subseteq ticks[t].saw /\ ticks[t].saw \subseteq Feed!Visible
    /\ \A c \in Clients : clients[c].state = "new" =>
          /\ Feed!Asking(c) = {}
          /\ \A n \in 1..MaxNotifications : clients[c].news[n] = 0

\* Of a client for whom no two ticks have asked at once.
OneAnswer ==
    \A c \in Clients : ~clients[c].met =>
        /\ \A t, u \in Feed!Asking(c) : t = u
        /\ \A n \in 1..MaxNotifications :
              /\ clients[c].news[n] <= 1
              /\ clients[c].news[n] = 1 =>
                    n \in DOMAIN notifications /\ notifications[n].at <= clients[c].last
        /\ \A t \in Feed!Asking(c) : \A n \in ticks[t].found :
              notifications[n].at > clients[c].last

Crowded(n) == Cardinality(Feed!Newer(n)) >= Limit

\* An answer holds all that was seen and is still ahead of the client, but for what
\* was crowded out.
AnswersAreWhole ==
    \A t \in Slots : ticks[t].pc = "deliver" =>
        \A n \in ticks[t].saw :
            notifications[n].at > clients[ticks[t].client].last =>
                n \in ticks[t].found \/ Crowded(n)

\* What a client has behind it was announced, late or crowded out, also what is not
\* committed yet.
NothingLost ==
    \A c \in Clients, n \in DOMAIN notifications :
        clients[c].first < notifications[n].at /\ notifications[n].at <= clients[c].last =>
            \/ n \in clients[c].late
            \/ n \in Feed!Visible /\ (clients[c].news[n] > 0 \/ Crowded(n))

FeedInv == FeedTypes /\ Answers /\ OneAnswer /\ AnswersAreWhole /\ NothingLost
------------------------------------------------------------------------------
(* The decisions                                                           *)

AnyHeard == [sight : Sights, ts : 0..MaxMinutes]
AnyPass == [turn : 0..5, at : 0..MaxMinutes, latest : 0..MaxHeard, inService : BOOLEAN,
            read : 0..MaxHeard]
AnyDecision == {"none", "resolve", "MEDIUM", "HIGH", "CRITICAL"}

DecisionTypes ==
    /\ clock \in 0..MaxMinutes /\ service \in BOOLEAN
    /\ heard \in Seq(AnyHeard) /\ Len(heard) <= MaxHeard
    /\ pass \in AnyPass /\ pass.at <= clock
    /\ pass.latest <= Len(heard) /\ pass.read <= Len(heard)
    /\ decided \in [1..5 -> AnyDecision]

\* As long as nothing has come since, the snapshot is of what was heard last.
SnapshotIsLast ==
    pass.read = Len(heard) =>
        IF pass.latest = 0 THEN heard = <<>>
        ELSE \A i \in DOMAIN heard : heard[i].ts <= heard[pass.latest].ts

Silent == pass.latest = 0 \/ Decisions!Rounded(Decisions!Silence) > LostSignalMinutes
NothingElse == \A k \in 2..5 : ~Decisions!Opened(k)

\* A pass begins with nothing decided; a vehicle never heard of is not accused of what
\* it does; and one found silent is silent as long as nothing has come since.
SilenceHolds ==
    /\ pass.turn = 1 => decided = Decisions!Undecided
    /\ heard = <<>> => NothingElse
    /\ Decisions!Opened(1) /\ pass.read = Len(heard) => Silent /\ NothingElse

DecisionInv == DecisionTypes /\ SnapshotIsLast /\ SilenceHolds
==============================================================================
