--------------------------- MODULE EmergencyResponse ---------------------------
(* Calls for help (services/api-gateway: emergency-response.js and the handlers   *)
(* of server.js): passengers and drivers open EMERGENCY incidents, operators and   *)
(* field officers work on them, officers upload proofs. Handlers that look first   *)
(* and write later run interleaved. The board of deriveEmergencyEscalation, which   *)
(* only reads, and the times of response it shows are left out.                    *)
EXTENDS Naturals, FiniteSets, Sequences

CONSTANTS
    Users,            \* passengers
    Vehicles,
    Requests,         \* calls in flight at a time
    Officers,         \* field officers, who may be assigned
    Actions,          \* what operators do with incidents
    NoUser, NoVehicle, NoOfficer,
    Window,           \* the duplicate window, in ticks
    MaxIncidents, MaxAge, MaxProofs   \* bounds

EmergencyConstants ==
    /\ NoUser \notin Users /\ NoVehicle \notin Vehicles /\ NoOfficer \notin Officers
    /\ Actions \subseteq {"ACKNOWLEDGE", "ASSIGN", "ESCALATE", "RESOLVE", "FALSE_ALARM", "PROOF_UPLOAD"}
    /\ {Window, MaxIncidents, MaxAge, MaxProofs} \subseteq Nat /\ Window < MaxAge

VARIABLES
    incidents,   \* type EMERGENCY, in the order of created_at
    calls,       \* what each request has read
    uploads      \* the proof each officer, or an operator, is uploading

vars == <<incidents, calls, uploads>>

NoCall == [source |-> "none"]
NoUpload == [incident |-> 0]
Uploaders == Officers \cup {NoOfficer}   \* NoOfficer: an operator
Closed == {"RESOLVED", "FALSE_ALARM"}
Active(i) == incidents[i].status \in {"OPEN", "IN_PROGRESS"}
StillOpen(i) == incidents[i].status = "OPEN"

\* The reporter, and for a driver the vehicle, whoever called from it. A session
\* is one passenger's, so it finds nothing that the passenger does not.
SameCaller(i, user, vehicle, source) ==
    \/ user # NoUser /\ incidents[i].user = user
    \/ source = "DRIVER_DEVICE" /\ incidents[i].vehicle = vehicle

DuplicateOpen(user, vehicle, source) ==
    {i \in DOMAIN incidents : /\ StillOpen(i) /\ incidents[i].age <= Window
                              /\ SameCaller(i, user, vehicle, source)}
findDuplicateEmergency(user, vehicle, source) ==
    {i \in DOMAIN incidents : /\ Active(i) /\ incidents[i].age <= Window
                              /\ SameCaller(i, user, vehicle, source)}

Init ==
    /\ incidents = <<>>
    /\ calls = [r \in Requests |-> NoCall]
    /\ uploads = [o \in Uploaders |-> NoUpload]
------------------------------------------------------------------------------
(* POST /me/sos and POST /telemetry/driver-panic: a query for a duplicate, which  *)
(* is the answer if there is one, then a transaction.                             *)

\* `read` is history: how many incidents there were.
Check(r, user, vehicle, source) ==
    /\ calls[r] = NoCall
    /\ findDuplicateEmergency(user, vehicle, source) = {}
    /\ calls' = [calls EXCEPT ![r] = [source |-> source, user |-> user,
                                      vehicle |-> vehicle, read |-> Len(incidents)]]
    /\ UNCHANGED <<incidents, uploads>>

insertEmergencyIncident(r) ==
    /\ calls[r] # NoCall /\ Len(incidents) < MaxIncidents
    /\ incidents' = Append(incidents,
           [user |-> calls[r].user, vehicle |-> calls[r].vehicle, source |-> calls[r].source,
            status |-> "OPEN", assigned |-> NoOfficer,
            age |-> 0, proofs |-> 0, read |-> calls[r].read])
    /\ calls' = [calls EXCEPT ![r] = NoCall]
    /\ UNCHANGED uploads

\* The transaction is rolled back, or the process ends.
CallFails(r) ==
    /\ calls[r] # NoCall
    /\ calls' = [calls EXCEPT ![r] = NoCall]
    /\ UNCHANGED <<incidents, uploads>>

\* Of an incident's age only the time up to MaxAge matters.
Tick ==
    /\ incidents' = [i \in DOMAIN incidents |->
                       [incidents[i] EXCEPT !.age = IF @ < MaxAge THEN @ + 1 ELSE @]]
    /\ UNCHANGED <<calls, uploads>>
------------------------------------------------------------------------------
(* POST /incidents/:id/actions: one transaction that locks the row first.         *)

StatusAfterVerbatim(action, status) == IF action = "ASSIGN" THEN "ASSIGNED" ELSE status

StatusAfter(action, status) ==
    CASE action \in {"ACKNOWLEDGE", "ASSIGN", "ESCALATE"} -> "IN_PROGRESS"
      [] action = "RESOLVE" -> "RESOLVED"
      [] action = "FALSE_ALARM" -> "FALSE_ALARM"
      [] action = "PROOF_UPLOAD" -> status

\* Any action may name an assignee; ASSIGN must.
Acted(i, action, assignee) ==
    [incidents EXCEPT
        ![i].status = StatusAfter(action, @),
        ![i].assigned = IF assignee # NoOfficer THEN assignee ELSE @,
        ![i].proofs = IF action = "PROOF_UPLOAD" THEN @ + 1 ELSE @]

Act(i, action, assignee) ==
    /\ incidents[i].status \notin Closed
    /\ action = "ASSIGN" => assignee # NoOfficer
    /\ action = "PROOF_UPLOAD" => incidents[i].proofs < MaxProofs
    /\ incidents' = Acted(i, action, assignee)
    /\ UNCHANGED <<calls, uploads>>

\* A field officer: what is assigned to him, to prove or resolve it.
FieldAct(o, i, action, assignee) ==
    /\ incidents[i].assigned = o
    /\ action \in {"PROOF_UPLOAD", "RESOLVE"}
    /\ Act(i, action, assignee)
------------------------------------------------------------------------------
(* POST /incidents/:id/proofs: a query, the image to the object store, a row.     *)

BeginProofOfAny(o, i) ==
    /\ uploads[o] = NoUpload
    /\ o \in Officers => incidents[i].assigned = o
    /\ uploads' = [uploads EXCEPT ![o] = [incident |-> i]]
    /\ UNCHANGED <<incidents, calls>>

BeginProof(o, i) ==
    /\ uploads[o] = NoUpload
    /\ o \in Officers => incidents[i].assigned = o
    /\ incidents[i].status \notin Closed
    /\ uploads' = [uploads EXCEPT ![o] = [incident |-> i]]
    /\ UNCHANGED <<incidents, calls>>

\* Neither the status nor the assignment is looked at again.
RecordProof(o) ==
    LET i == uploads[o].incident
    IN /\ uploads[o] # NoUpload
       /\ incidents[i].proofs < MaxProofs
       /\ incidents' = [incidents EXCEPT ![i].proofs = @ + 1]
       /\ uploads' = [uploads EXCEPT ![o] = NoUpload]
       /\ UNCHANGED calls

ProofFails(o) ==
    /\ uploads[o] # NoUpload
    /\ uploads' = [uploads EXCEPT ![o] = NoUpload]
    /\ UNCHANGED <<incidents, calls>>
------------------------------------------------------------------------------
Caller(r) ==
    \/ insertEmergencyIncident(r) \/ CallFails(r)
    \/ \E u \in Users, v \in Vehicles \cup {NoVehicle} : Check(r, u, v, "PASSENGER_APP")
    \/ \E v \in Vehicles : Check(r, NoUser, v, "DRIVER_DEVICE")

Responder ==
    \E i \in DOMAIN incidents, assignee \in Officers \cup {NoOfficer}, action \in Actions :
        \/ Act(i, action, assignee)
        \/ \E o \in Officers : FieldAct(o, i, action, assignee)

Proving(o) ==
    \/ RecordProof(o) \/ ProofFails(o)
    \/ \E i \in DOMAIN incidents : BeginProof(o, i)

Next == \/ Tick \/ Responder
        \/ \E r \in Requests : Caller(r)
        \/ \E o \in Uploaders : Proving(o)

Spec == Init /\ [][Next]_vars
------------------------------------------------------------------------------
(* Properties                                                                  *)

\* Types.
TypeOK ==
    /\ incidents \in Seq([user : Users \cup {NoUser}, vehicle : Vehicles \cup {NoVehicle},
            source : {"PASSENGER_APP", "DRIVER_DEVICE"},
            status : {"OPEN", "IN_PROGRESS"} \cup Closed,
            assigned : Officers \cup {NoOfficer}, age : 0..MaxAge, proofs : 0..MaxProofs,
            read : 0..MaxIncidents])
    /\ Len(incidents) <= MaxIncidents
    /\ \A r \in Requests : calls[r] # NoCall => calls[r].read \in 0..Len(incidents)
    /\ \A o \in Uploaders : uploads[o] # NoUpload => uploads[o].incident \in DOMAIN incidents

\* One passenger, or one vehicle's driver, has two calls before the operators only
\* if the window between them has passed or the second was checked before the
\* first was there: an incident somebody works on absorbs a call as an open one
\* does (the check of findDuplicateEmergency and the insert are apart).
OneActiveCall ==
    \A i, j \in DOMAIN incidents :
        /\ i < j /\ Active(i) /\ Active(j) /\ incidents[i].age <= Window
        /\ SameCaller(i, incidents[j].user, incidents[j].vehicle, incidents[j].source)
        => incidents[j].read < i

\* A closed case is final once no upload is under way: a proof that began
\* in time is the last thing that is added to it (server.js:3172 looks,
\* server.js:3206 writes).
Settled(i) == incidents[i].status \in Closed /\ \A o \in Uploaders : uploads[o].incident # i

ClosedCaseIsSettled ==
    [][\A i \in DOMAIN incidents :
          Settled(i) => /\ Settled(i)'
                        /\ incidents'[i] = [incidents[i] EXCEPT !.age = incidents'[i].age]]_vars
================================================================================
