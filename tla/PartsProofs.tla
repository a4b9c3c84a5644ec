------------------------------ MODULE PartsProofs ------------------------------
(***************************************************************************)
(* What the properties of MCParts say of the calls for help, the collective*)
(* anomalies, the sanctions, the telemetry, the feed and the decisions     *)
(* holds for any callers, analysts, posts and ticks, settings and bounds.  *)
(* The arguments about the collective anomalies and about the telemetry    *)
(* are those of CollectiveAnomalyProofs and TelemetryIntakeProofs.         *)
(***************************************************************************)
EXTENDS PartsInv, SequenceTheorems, FiniteSetTheorems, TLAPS

-----------------------------------------------------------------------------
(* A behaviour is one of each part.                                        *)

LEMMA EmergencySpec == Spec => Emergency!Spec
<1>1. Init => Emergency!Init
  BY DEF Init
<1>2. [Next]_vars => [Emergency!Next]_Emergency!vars
  BY DEF Next, vars, emergency, Emergency!vars
<1> QED BY <1>1, <1>2, PTL DEF Spec, Emergency!Spec

LEMMA CollectiveSpec == Spec => Collective!Spec
<1>1. Init => Collective!Init
  BY DEF Init
<1>2. [Next]_vars => [Collective!Next]_Collective!vars
  BY DEF Next, vars, collective, Collective!vars
<1> QED BY <1>1, <1>2, PTL DEF Spec, Collective!Spec

LEMMA SanctionSpec == Spec => Sanction!Spec
<1>1. Init => Sanction!Init
  BY DEF Init
<1>2. [Next]_vars => [Sanction!Next]_Sanction!vars
  BY DEF Next, vars, sanction, Sanction!vars
<1> QED BY <1>1, <1>2, PTL DEF Spec, Sanction!Spec

LEMMA IntakeSpec == Spec => Intake!Spec
<1>1. Init => Intake!Init
  BY DEF Init
<1>2. [Next]_vars => [Intake!Next]_Intake!vars
  BY DEF Next, vars, intake, Intake!vars
<1> QED BY <1>1, <1>2, PTL DEF Spec, Intake!Spec

LEMMA FeedSpec == Spec => Feed!Spec
<1>1. Init => Feed!Init
  BY DEF Init
<1>2. [Next]_vars => [Feed!Next]_Feed!vars
  BY DEF Next, vars, feed, Feed!vars
<1> QED BY <1>1, <1>2, PTL DEF Spec, Feed!Spec

LEMMA DecisionsSpec == Spec => Decisions!Spec
<1>1. Init => Decisions!Init
  BY DEF Init
<1>2. [Next]_vars => [Decisions!Next]_Decisions!vars
  BY DEF Next, vars, decisions, Decisions!vars
<1> QED BY <1>1, <1>2, PTL DEF Spec, Decisions!Spec

-----------------------------------------------------------------------------
(* Calls for help.                                                         *)

LEMMA EmergencyShapes ==
    ASSUME EmergencyTypes
    PROVE  /\ Len(emergencies) \in Nat /\ DOMAIN emergencies = 1..Len(emergencies)
           /\ emergencies \in [1..Len(emergencies) -> AnyCase]
           /\ \A r \in Callers : calls[r] # Emergency!NoCall => calls[r] \in AnyCall
           /\ \A o \in Emergency!Uploaders : uploads[o] # Emergency!NoUpload => uploads[o] \in AnyUpload
           /\ \A o \in Emergency!Uploaders : uploads[o] = Emergency!NoUpload <=> uploads[o].incident = 0
<1>1. /\ Len(emergencies) \in Nat /\ DOMAIN emergencies = 1..Len(emergencies)
      /\ emergencies \in [1..Len(emergencies) -> AnyCase]
  BY LenProperties DEF EmergencyTypes
<1>2. \A o \in Emergency!Uploaders : uploads[o] = Emergency!NoUpload \/ uploads[o] \in AnyUpload
  BY DEF EmergencyTypes
<1>3. Emergency!NoUpload.incident = 0 /\ \A u \in AnyUpload : u.incident # 0
  BY DEF Emergency!NoUpload, AnyUpload
<1>4. \A r \in Callers : calls[r] # Emergency!NoCall => calls[r] \in AnyCall
  BY DEF EmergencyTypes
<1> QED BY <1>1, <1>2, <1>3, <1>4

\* A case is updated.
LEMMA CaseUpdated ==
    ASSUME EmergencyTypes, NEW i \in DOMAIN emergencies, NEW e \in AnyCase,
           emergencies' = [emergencies EXCEPT ![i] = e]
    PROVE  /\ emergencies' \in Seq(AnyCase) /\ Len(emergencies') = Len(emergencies)
           /\ DOMAIN emergencies' = DOMAIN emergencies
           /\ emergencies'[i] = e
           /\ \A j \in DOMAIN emergencies : j # i => emergencies'[j] = emergencies[j]
<1>1. i \in 1..Len(emergencies) /\ emergencies \in Seq(AnyCase)
  BY EmergencyShapes DEF EmergencyTypes
<1>2. emergencies' \in Seq(AnyCase) /\ Len(emergencies') = Len(emergencies)
  BY <1>1, ExceptSeq, Zenon
<1> QED BY <1>1, <1>2, EmergencyShapes, LenProperties

\* A case is opened.
LEMMA CaseAdded ==
    ASSUME EmergencyTypes, NEW e \in AnyCase, emergencies' = Append(emergencies, e)
    PROVE  /\ emergencies' \in Seq(AnyCase) /\ Len(emergencies') = Len(emergencies) + 1
           /\ DOMAIN emergencies' = 1..(Len(emergencies) + 1)
           /\ emergencies'[Len(emergencies) + 1] = e
           /\ \A i \in DOMAIN emergencies : emergencies'[i] = emergencies[i]
<1>1. emergencies \in Seq(AnyCase)
  BY DEF EmergencyTypes
<1>2. /\ emergencies' \in Seq(AnyCase) /\ Len(emergencies') = Len(emergencies) + 1
      /\ \A i \in 1..Len(emergencies) : emergencies'[i] = emergencies[i]
      /\ emergencies'[Len(emergencies) + 1] = e
  BY <1>1, AppendProperties
<1> QED BY <1>2, EmergencyShapes, LenProperties

\* An action finds a case that is not closed, and leaves a case.
LEMMA ActedIsCase ==
    ASSUME EmergencyTypes, NEW i \in DOMAIN emergencies, NEW action \in Actions,
           Emergency!EmergencyConstants,
           NEW assignee \in Officers \cup {NoOfficer}, Emergency!Act(i, action, assignee)
    PROVE  \E e \in AnyCase :
              /\ emergencies' = [emergencies EXCEPT ![i] = e]
              /\ e.user = emergencies[i].user /\ e.vehicle = emergencies[i].vehicle
              /\ e.source = emergencies[i].source /\ e.read = emergencies[i].read
              /\ e.age = emergencies[i].age
<1> DEFINE e == [emergencies[i] EXCEPT
                    !.status = Emergency!StatusAfter(action, emergencies[i].status),
                    !.assigned = IF assignee # NoOfficer THEN assignee ELSE emergencies[i].assigned,
                    !.proofs = IF action = "PROOF_UPLOAD" THEN emergencies[i].proofs + 1
                               ELSE emergencies[i].proofs]
<1>1. emergencies[i] \in AnyCase
  BY EmergencyShapes
<1>2. Emergency!StatusAfter(action, emergencies[i].status) \in CaseStatuses
  <2>1. emergencies[i].status \in CaseStatuses
    BY <1>1 DEF AnyCase
  <2>2. action \in {"ACKNOWLEDGE", "ASSIGN", "ESCALATE", "RESOLVE", "FALSE_ALARM", "PROOF_UPLOAD"}
    BY DEF Emergency!EmergencyConstants
  <2> QED BY <2>1, <2>2 DEF Emergency!StatusAfter, CaseStatuses, Emergency!Closed
<1>3. (IF action = "PROOF_UPLOAD" THEN emergencies[i].proofs + 1 ELSE emergencies[i].proofs)
        \in 0..MaxProofs
  BY <1>1 DEF Emergency!Act, AnyCase, Emergency!EmergencyConstants
<1>4. (IF assignee # NoOfficer THEN assignee ELSE emergencies[i].assigned)
        \in Officers \cup {NoOfficer}
  BY <1>1 DEF AnyCase
<1>5. /\ e \in AnyCase
      /\ e.user = emergencies[i].user /\ e.vehicle = emergencies[i].vehicle
      /\ e.source = emergencies[i].source /\ e.read = emergencies[i].read
      /\ e.age = emergencies[i].age
  BY <1>1, <1>2, <1>3, <1>4 DEF AnyCase
<1>6. emergencies' = [emergencies EXCEPT ![i] = e]
  BY DEF Emergency!Act, Emergency!Acted
<1> QED BY <1>5, <1>6

\* Time passes over every case.
LEMMA Aged ==
    ASSUME EmergencyTypes, Emergency!EmergencyConstants, Emergency!Tick
    PROVE  /\ emergencies' \in Seq(AnyCase) /\ Len(emergencies') = Len(emergencies)
           /\ DOMAIN emergencies' = DOMAIN emergencies
           /\ \A i \in DOMAIN emergencies : \E age \in 0..MaxAge :
                 age >= emergencies[i].age /\ emergencies'[i] = [emergencies[i] EXCEPT !.age = age]
<1>1. \A i \in DOMAIN emergencies : \E age \in 0..MaxAge :
         age >= emergencies[i].age /\ emergencies'[i] = [emergencies[i] EXCEPT !.age = age]
  <2> TAKE i \in DOMAIN emergencies
  <2> DEFINE age == IF emergencies[i].age < MaxAge THEN emergencies[i].age + 1 ELSE emergencies[i].age
  <2>1. emergencies[i].age \in 0..MaxAge /\ MaxAge \in Nat
    BY EmergencyShapes DEF AnyCase, Emergency!EmergencyConstants
  <2>2. age \in 0..MaxAge /\ age >= emergencies[i].age
    BY <2>1
  <2>3. emergencies'[i] = [emergencies[i] EXCEPT !.age = age]
    BY DEF Emergency!Tick
  <2> QED BY <2>2, <2>3
<1>2. \A i \in DOMAIN emergencies : emergencies'[i] \in AnyCase
  BY <1>1, EmergencyShapes DEF AnyCase
<1>3. DOMAIN emergencies' = DOMAIN emergencies /\ emergencies' \in [1..Len(emergencies) -> AnyCase]
  BY <1>2, EmergencyShapes DEF Emergency!Tick
<1>4. emergencies' \in Seq(AnyCase) /\ Len(emergencies') = Len(emergencies)
  BY <1>3, EmergencyShapes
<1> QED BY <1>1, <1>3, <1>4
-----------------------------------------------------------------------------
(* The steps.                                                              *)

LEMMA EmergencyInit == ASSUME Emergency!EmergencyConstants, Emergency!Init PROVE EmergencyInv
<1>1. emergencies \in Seq(AnyCase) /\ Len(emergencies) = 0 /\ DOMAIN emergencies = {}
  BY EmptySeq, LenProperties DEF Emergency!Init
<1>2. EmergencyTypes
  BY <1>1 DEF EmergencyTypes, Emergency!Init, Emergency!EmergencyConstants
<1>3. /\ \A r \in Callers : calls[r] = Emergency!NoCall
      /\ \A o \in Emergency!Uploaders : uploads[o] = Emergency!NoUpload
  BY DEF Emergency!Init
<1> QED BY <1>1, <1>2, <1>3 DEF EmergencyInv, CasesExist, NoDuplicateRead, Emergency!OneActiveCall

\* Cases that only close and grow older, and no new one.
LEMMA CasesClose ==
    ASSUME Emergency!EmergencyConstants, EmergencyInv, EmergencyTypes', calls' = calls, CasesExist',
           DOMAIN emergencies' = DOMAIN emergencies,
           \A i \in DOMAIN emergencies :
               /\ emergencies'[i].user = emergencies[i].user
               /\ emergencies'[i].vehicle = emergencies[i].vehicle
               /\ emergencies'[i].source = emergencies[i].source
               /\ emergencies'[i].read = emergencies[i].read
               /\ emergencies'[i].status \notin Emergency!Closed =>
                     emergencies[i].status \notin Emergency!Closed
               /\ emergencies'[i].age >= emergencies[i].age
    PROVE  EmergencyInv'
<1> USE DEF EmergencyInv
<1>1. \A i \in DOMAIN emergencies :
        /\ Emergency!Active(i)' => Emergency!Active(i)
        /\ emergencies'[i].age <= DuplicateWindow => emergencies[i].age <= DuplicateWindow
  <2> TAKE i \in DOMAIN emergencies
  <2>1. emergencies[i] \in AnyCase /\ emergencies'[i] \in AnyCase
    BY EmergencyShapes, LenProperties DEF EmergencyTypes
  <2>2. Emergency!Active(i)' => Emergency!Active(i)
    BY <2>1 DEF Emergency!Active, AnyCase, CaseStatuses, Emergency!Closed
  <2>3. emergencies[i].age \in Int /\ emergencies'[i].age \in Int
    BY <2>1 DEF AnyCase
  <2>4. emergencies'[i].age <= DuplicateWindow => emergencies[i].age <= DuplicateWindow
    BY <2>3 DEF Emergency!EmergencyConstants
  <2> QED BY <2>2, <2>4
<1>2. NoDuplicateRead'
  <2> SUFFICES ASSUME NEW r \in Callers, calls[r] # Emergency!NoCall, NEW i \in 1..calls[r].read,
                      Emergency!Active(i)', emergencies'[i].age <= DuplicateWindow,
                      Emergency!SameCaller(i, calls[r].user, calls[r].vehicle, calls[r].source)'
               PROVE  FALSE
    BY DEF NoDuplicateRead
  <2>1. i \in DOMAIN emergencies
    BY EmergencyShapes DEF CasesExist, AnyCall
  <2>2. Emergency!SameCaller(i, calls[r].user, calls[r].vehicle, calls[r].source)
    BY <2>1 DEF Emergency!SameCaller
  <2> QED BY <1>1, <2>1, <2>2 DEF NoDuplicateRead
<1>3. Emergency!OneActiveCall'
  BY <1>1 DEF Emergency!OneActiveCall, Emergency!SameCaller
<1> QED BY <1>2, <1>3

LEMMA CheckKeeps ==
    ASSUME EmergencyInv, NEW r \in Callers, NEW user \in Users \cup {NoUser},
           NEW vehicle \in Vehicles \cup {NoVehicle}, NEW source \in CallSources,
           Emergency!Check(r, user, vehicle, source)
    PROVE  EmergencyInv'
<1> USE DEF EmergencyInv
<1> DEFINE c == [source |-> source, user |-> user, vehicle |-> vehicle, read |-> Len(emergencies)]
<1>1. /\ emergencies' = emergencies /\ uploads' = uploads /\ calls' = [calls EXCEPT ![r] = c]
      /\ Emergency!findDuplicateEmergency(user, vehicle, source) = {}
  BY DEF Emergency!Check
<1>2. c \in AnyCall /\ c # Emergency!NoCall
  <2>1. Len(emergencies) \in 0..MaxEmergencies
    BY EmergencyShapes DEF EmergencyTypes
  <2> QED BY <2>1 DEF AnyCall, Emergency!NoCall, CallSources
<1>3. c.user = user /\ c.vehicle = vehicle /\ c.source = source /\ c.read = Len(emergencies)
  OBVIOUS
<1> HIDE DEF c
<1>4. calls'[r] = c /\ \A q \in Callers : q # r => calls'[q] = calls[q]
  BY <1>1 DEF EmergencyTypes
<1>5. EmergencyTypes'
  BY <1>1, <1>2 DEF EmergencyTypes
<1>6. CasesExist'
  BY <1>1, <1>3, <1>4, EmergencyShapes DEF CasesExist
<1>7. \A i \in DOMAIN emergencies :
        ~(Emergency!Active(i) /\ emergencies[i].age <= DuplicateWindow
           /\ Emergency!SameCaller(i, user, vehicle, source))
  BY <1>1 DEF Emergency!findDuplicateEmergency
<1>8. NoDuplicateRead'
  <2> SUFFICES ASSUME NEW q \in Callers, calls'[q] # Emergency!NoCall, NEW i \in 1..calls'[q].read
               PROVE  ~ /\ Emergency!Active(i) /\ emergencies[i].age <= DuplicateWindow
                        /\ Emergency!SameCaller(i, calls'[q].user, calls'[q].vehicle, calls'[q].source)
    BY <1>1 DEF NoDuplicateRead, Emergency!Active, Emergency!SameCaller
  <2>1. CASE q = r
    BY <1>3, <1>4, <1>7, <2>1, EmergencyShapes
  <2>2. CASE q # r
    BY <1>4, <2>2 DEF NoDuplicateRead
  <2> QED BY <2>1, <2>2
<1>9. Emergency!OneActiveCall'
  BY <1>1 DEF Emergency!OneActiveCall, Emergency!Active, Emergency!SameCaller
<1> QED BY <1>5, <1>6, <1>8, <1>9

LEMMA InsertCallKeeps ==
    ASSUME Emergency!EmergencyConstants, EmergencyInv, NEW r \in Callers,
           Emergency!insertEmergencyIncident(r)
    PROVE  EmergencyInv'
<1> USE DEF EmergencyInv
<1> DEFINE c == calls[r]
           n == Len(emergencies) + 1
           e == [user |-> c.user, vehicle |-> c.vehicle, source |-> c.source,
                 status |-> "OPEN", assigned |-> NoOfficer,
                 age |-> 0, proofs |-> 0, read |-> c.read]
<1>1. /\ uploads' = uploads /\ c # Emergency!NoCall /\ Len(emergencies) < MaxEmergencies
      /\ emergencies' = Append(emergencies, e) /\ calls' = [calls EXCEPT ![r] = Emergency!NoCall]
  BY DEF Emergency!insertEmergencyIncident
<1>2. c \in AnyCall /\ c.read <= Len(emergencies)
  BY <1>1, EmergencyShapes DEF CasesExist
<1>3. e \in AnyCase
  <2>1. 0 \in 0..MaxAge /\ 0 \in 0..MaxProofs
    BY DEF Emergency!EmergencyConstants
  <2> QED BY <1>2, <2>1 DEF AnyCall, AnyCase, CaseStatuses
<1>4. e.user = c.user /\ e.vehicle = c.vehicle /\ e.source = c.source /\ e.read = c.read
  OBVIOUS
<1> HIDE DEF c, e, n
<1>5. /\ emergencies' \in Seq(AnyCase) /\ Len(emergencies') = n
      /\ DOMAIN emergencies' = DOMAIN emergencies \cup {n} /\ n \notin DOMAIN emergencies
      /\ emergencies'[n] = e
      /\ \A i \in DOMAIN emergencies : emergencies'[i] = emergencies[i]
  BY <1>1, <1>3, CaseAdded, EmergencyShapes DEF n
<1>6. n \in Nat /\ Len(emergencies) < n /\ n <= MaxEmergencies
      /\ \A i \in DOMAIN emergencies : i \in Nat /\ i < n
  <2>1. MaxEmergencies \in Nat
    BY DEF Emergency!EmergencyConstants
  <2> QED BY <1>1, <2>1, EmergencyShapes DEF n
<1>7. calls'[r] = Emergency!NoCall /\ \A q \in Callers : q # r => calls'[q] = calls[q]
  BY <1>1 DEF EmergencyTypes
<1>8. EmergencyTypes'
  BY <1>1, <1>5, <1>6 DEF EmergencyTypes
<1>9. CasesExist'
  <2>1. \A q \in Callers : calls'[q] # Emergency!NoCall => calls'[q].read <= Len(emergencies')
    BY <1>5, <1>6, <1>7, EmergencyShapes DEF CasesExist, AnyCall
  <2>2. \A o \in Emergency!Uploaders :
           uploads[o] # Emergency!NoUpload => uploads[o].incident \in DOMAIN emergencies'
    BY <1>5 DEF CasesExist
  <2> QED BY <1>1, <2>1, <2>2 DEF CasesExist
<1>10. NoDuplicateRead'
  <2> SUFFICES ASSUME NEW q \in Callers, calls'[q] # Emergency!NoCall, NEW i \in 1..calls'[q].read,
                      Emergency!Active(i)', emergencies'[i].age <= DuplicateWindow,
                      Emergency!SameCaller(i, calls[q].user, calls[q].vehicle, calls[q].source)'
               PROVE  FALSE
    BY <1>7 DEF NoDuplicateRead, Emergency!SameCaller
  <2>1. q # r /\ calls'[q] = calls[q] /\ calls[q] # Emergency!NoCall
    BY <1>7
  <2>2. i \in DOMAIN emergencies /\ i \in 1..calls[q].read
    BY <2>1, EmergencyShapes DEF CasesExist, AnyCall
  <2>3. Emergency!Active(i) /\ emergencies[i].age <= DuplicateWindow
    BY <1>5, <2>2 DEF Emergency!Active
  <2>4. Emergency!SameCaller(i, calls[q].user, calls[q].vehicle, calls[q].source)
    BY <1>5, <2>1, <2>2 DEF Emergency!SameCaller
  <2> QED BY <2>1, <2>2, <2>3, <2>4 DEF NoDuplicateRead
\* What the call had read was no duplicate, so a duplicate came after.
<1>11. \A i \in DOMAIN emergencies :
         Emergency!Active(i) /\ emergencies[i].age <= DuplicateWindow
         /\ Emergency!SameCaller(i, e.user, e.vehicle, e.source)
         => e.read < i
  <2> SUFFICES ASSUME NEW i \in DOMAIN emergencies, Emergency!Active(i),
                      emergencies[i].age <= DuplicateWindow,
                      Emergency!SameCaller(i, e.user, e.vehicle, e.source), ~(e.read < i)
               PROVE  FALSE
    OBVIOUS
  <2>1. i \in 1..c.read
    BY <1>2, <1>4, EmergencyShapes DEF AnyCall
  <2>2. Emergency!SameCaller(i, c.user, c.vehicle, c.source)
    BY <1>4
  <2> QED BY <1>1, <2>1, <2>2 DEF NoDuplicateRead, c
<1>12. Emergency!OneActiveCall'
  <2> SUFFICES ASSUME NEW i \in DOMAIN emergencies', NEW j \in DOMAIN emergencies', i < j,
                      Emergency!Active(i)', Emergency!Active(j)',
                      emergencies'[i].age <= DuplicateWindow,
                      Emergency!SameCaller(i, emergencies[j].user, emergencies[j].vehicle,
                                            emergencies[j].source)'
               PROVE  emergencies'[j].read < i
    BY DEF Emergency!OneActiveCall
  <2>1. i \in DOMAIN emergencies
    BY <1>5, <1>6
  <2>2. Emergency!Active(i) /\ emergencies[i].age <= DuplicateWindow
    BY <1>5, <2>1 DEF Emergency!Active
  <2>3. CASE j = n
    <3>1. Emergency!SameCaller(i, e.user, e.vehicle, e.source)
      BY <1>5, <2>1, <2>3 DEF Emergency!SameCaller
    <3> QED BY <1>5, <1>11, <2>1, <2>2, <2>3, <3>1
  <2>4. CASE j \in DOMAIN emergencies
    <3>1. Emergency!SameCaller(i, emergencies[j].user, emergencies[j].vehicle, emergencies[j].source)
      BY <1>5, <2>1, <2>4 DEF Emergency!SameCaller
    <3>2. Emergency!Active(j)
      BY <1>5, <2>4 DEF Emergency!Active
    <3> QED BY <1>5, <2>1, <2>2, <2>4, <3>1, <3>2 DEF Emergency!OneActiveCall
  <2> QED BY <1>5, <2>3, <2>4
<1> QED BY <1>8, <1>9, <1>10, <1>12

LEMMA CallFailsKeeps ==
    ASSUME EmergencyInv, NEW r \in Callers, Emergency!CallFails(r)
    PROVE  EmergencyInv'
<1> USE DEF EmergencyInv
<1>1. /\ emergencies' = emergencies /\ uploads' = uploads
      /\ calls' = [calls EXCEPT ![r] = Emergency!NoCall]
  BY DEF Emergency!CallFails
<1>2. calls'[r] = Emergency!NoCall /\ \A q \in Callers : q # r => calls'[q] = calls[q]
  BY <1>1 DEF EmergencyTypes
<1>3. EmergencyTypes'
  BY <1>1 DEF EmergencyTypes
<1>4. CasesExist'
  BY <1>1, <1>2 DEF CasesExist
<1>5. NoDuplicateRead'
  BY <1>1, <1>2 DEF NoDuplicateRead, Emergency!Active, Emergency!SameCaller
<1>6. Emergency!OneActiveCall'
  BY <1>1 DEF Emergency!OneActiveCall, Emergency!Active, Emergency!SameCaller
<1> QED BY <1>3, <1>4, <1>5, <1>6

LEMMA AgeKeeps == ASSUME Emergency!EmergencyConstants, EmergencyInv, Emergency!Tick PROVE EmergencyInv'
<1> USE DEF EmergencyInv
<1>1. /\ emergencies' \in Seq(AnyCase) /\ Len(emergencies') = Len(emergencies)
      /\ DOMAIN emergencies' = DOMAIN emergencies
      /\ \A i \in DOMAIN emergencies : \E age \in 0..MaxAge :
            age >= emergencies[i].age /\ emergencies'[i] = [emergencies[i] EXCEPT !.age = age]
      /\ calls' = calls /\ uploads' = uploads
  BY Aged DEF Emergency!Tick
<1>2. EmergencyTypes' /\ CasesExist'
  BY <1>1 DEF EmergencyTypes, CasesExist
<1>3. \A i \in DOMAIN emergencies :
        /\ emergencies'[i].user = emergencies[i].user
        /\ emergencies'[i].vehicle = emergencies[i].vehicle
        /\ emergencies'[i].source = emergencies[i].source
        /\ emergencies'[i].read = emergencies[i].read
        /\ emergencies'[i].status = emergencies[i].status
        /\ emergencies'[i].age >= emergencies[i].age
  BY <1>1, EmergencyShapes DEF AnyCase
<1> QED BY <1>1, <1>2, <1>3, CasesClose

LEMMA ActKeeps ==
    ASSUME Emergency!EmergencyConstants, EmergencyInv, NEW i \in DOMAIN emergencies,
           NEW action \in Actions, NEW assignee \in Officers \cup {NoOfficer},
           Emergency!Act(i, action, assignee)
    PROVE  EmergencyInv'
<1> USE DEF EmergencyInv
<1>1. PICK e \in AnyCase :
        /\ emergencies' = [emergencies EXCEPT ![i] = e]
        /\ e.user = emergencies[i].user /\ e.vehicle = emergencies[i].vehicle
        /\ e.source = emergencies[i].source /\ e.read = emergencies[i].read
        /\ e.age = emergencies[i].age
  BY ActedIsCase
<1>2. /\ emergencies' \in Seq(AnyCase) /\ Len(emergencies') = Len(emergencies)
      /\ DOMAIN emergencies' = DOMAIN emergencies
      /\ emergencies'[i] = e /\ \A j \in DOMAIN emergencies : j # i => emergencies'[j] = emergencies[j]
  BY <1>1, CaseUpdated
<1>3. emergencies[i].status \notin Emergency!Closed /\ calls' = calls /\ uploads' = uploads
  BY DEF Emergency!Act
<1>4. EmergencyTypes' /\ CasesExist'
  BY <1>2, <1>3 DEF EmergencyTypes, CasesExist
<1>5. \A j \in DOMAIN emergencies :
        /\ emergencies'[j].user = emergencies[j].user
        /\ emergencies'[j].vehicle = emergencies[j].vehicle
        /\ emergencies'[j].source = emergencies[j].source
        /\ emergencies'[j].read = emergencies[j].read
        /\ emergencies'[j].status \notin Emergency!Closed =>
                emergencies[j].status \notin Emergency!Closed
        /\ emergencies'[j].age >= emergencies[j].age
  <2>1. \A j \in DOMAIN emergencies : /\ emergencies'[j].age = emergencies[j].age
                                      /\ emergencies[j].age \in Int
    BY <1>1, <1>2, EmergencyShapes DEF AnyCase
  <2> QED BY <1>1, <1>2, <1>3, <2>1
<1> QED BY <1>2, <1>3, <1>4, <1>5, CasesClose

LEMMA ProvingKeeps ==
    ASSUME Emergency!EmergencyConstants, EmergencyInv, NEW o \in Emergency!Uploaders,
           Emergency!Proving(o)
    PROVE  EmergencyInv'
<1> USE DEF EmergencyInv
<1>1. ASSUME NEW i \in DOMAIN emergencies, Emergency!BeginProof(o, i) PROVE EmergencyInv'
  <2>1. /\ emergencies' = emergencies /\ calls' = calls
        /\ uploads' = [uploads EXCEPT ![o] = [incident |-> i]]
    BY <1>1 DEF Emergency!BeginProof
  <2>2. [incident |-> i] \in AnyUpload
    BY EmergencyShapes DEF AnyUpload
  <2>3. EmergencyTypes' /\ CasesExist'
    BY <2>1, <2>2 DEF EmergencyTypes, CasesExist
  <2> QED BY <2>1, <2>3 DEF NoDuplicateRead,
                Emergency!OneActiveCall, Emergency!Active, Emergency!SameCaller
<1>2. CASE Emergency!ProofFails(o)
  <2>1. /\ emergencies' = emergencies /\ calls' = calls
        /\ uploads' = [uploads EXCEPT ![o] = Emergency!NoUpload]
    BY <1>2 DEF Emergency!ProofFails
  <2>2. EmergencyTypes' /\ CasesExist'
    BY <2>1 DEF EmergencyTypes, CasesExist
  <2> QED BY <2>1, <2>2 DEF NoDuplicateRead,
                Emergency!OneActiveCall, Emergency!Active, Emergency!SameCaller
<1>3. CASE Emergency!RecordProof(o)
  <2> DEFINE i == uploads[o].incident
             e == [emergencies[i] EXCEPT !.proofs = emergencies[i].proofs + 1]
  <2>1. /\ i \in DOMAIN emergencies /\ emergencies[i].proofs < MaxProofs
        /\ emergencies' = [emergencies EXCEPT ![i] = e] /\ calls' = calls
        /\ uploads' = [uploads EXCEPT ![o] = Emergency!NoUpload]
    BY <1>3 DEF Emergency!RecordProof, CasesExist
  <2>2. /\ e \in AnyCase /\ e.user = emergencies[i].user /\ e.vehicle = emergencies[i].vehicle
        /\ e.source = emergencies[i].source /\ e.read = emergencies[i].read
        /\ e.age = emergencies[i].age /\ e.status = emergencies[i].status
    <3>1. MaxProofs \in Nat
      BY DEF Emergency!EmergencyConstants
    <3>2. \A c \in AnyCase : c.proofs < MaxProofs =>
            LET u == [c EXCEPT !.proofs = c.proofs + 1]
            IN  /\ u \in AnyCase /\ u.user = c.user /\ u.vehicle = c.vehicle
                /\ u.source = c.source /\ u.read = c.read /\ u.age = c.age /\ u.status = c.status
      BY <3>1 DEF AnyCase
    <3>3. emergencies[i] \in AnyCase
      BY <2>1, EmergencyShapes
    <3> HIDE DEF i
    <3> QED BY <2>1, <3>2, <3>3
  <2> HIDE DEF e, i
  <2>3. /\ emergencies' \in Seq(AnyCase) /\ Len(emergencies') = Len(emergencies)
        /\ DOMAIN emergencies' = DOMAIN emergencies
        /\ emergencies'[i] = e /\ \A j \in DOMAIN emergencies : j # i => emergencies'[j] = emergencies[j]
    BY <2>1, <2>2, CaseUpdated
  <2>4. EmergencyTypes' /\ CasesExist'
    BY <2>1, <2>3 DEF EmergencyTypes, CasesExist
  <2>5. \A j \in DOMAIN emergencies :
          /\ emergencies'[j].user = emergencies[j].user
          /\ emergencies'[j].vehicle = emergencies[j].vehicle
          /\ emergencies'[j].source = emergencies[j].source
          /\ emergencies'[j].read = emergencies[j].read
          /\ emergencies'[j].status \notin Emergency!Closed =>
                emergencies[j].status \notin Emergency!Closed
          /\ emergencies'[j].age >= emergencies[j].age
    <3>1. \A j \in DOMAIN emergencies : emergencies'[j].age = emergencies[j].age
      BY <2>2, <2>3
    <3>2. \A j \in DOMAIN emergencies : emergencies'[j].age >= emergencies[j].age
      <4>1. \A j \in DOMAIN emergencies : emergencies[j].age \in Int
        BY EmergencyShapes DEF AnyCase
      <4> QED BY <3>1, <4>1
    <3>3. \A j \in DOMAIN emergencies :
            /\ emergencies'[j].user = emergencies[j].user
            /\ emergencies'[j].vehicle = emergencies[j].vehicle
            /\ emergencies'[j].source = emergencies[j].source
            /\ emergencies'[j].read = emergencies[j].read
            /\ emergencies'[j].status = emergencies[j].status
      BY <2>2, <2>3
    <3> QED BY <3>2, <3>3
  <2> QED BY <2>1, <2>3, <2>4, <2>5, CasesClose
<1> QED BY <1>1, <1>2, <1>3 DEF Emergency!Proving
LEMMA EmergencyNext ==
    ASSUME Emergency!EmergencyConstants, EmergencyInv, [Emergency!Next]_Emergency!vars
    PROVE  EmergencyInv'
<1>1. CASE Emergency!Tick
  BY <1>1, AgeKeeps
<1>2. CASE Emergency!Responder
  BY <1>2, ActKeeps DEF Emergency!Responder, Emergency!FieldAct
<1>3. ASSUME NEW r \in Callers, Emergency!Caller(r) PROVE EmergencyInv'
  <2>1. "PASSENGER_APP" \in CallSources /\ "DRIVER_DEVICE" \in CallSources
    BY DEF CallSources
  <2> QED BY <1>3, <2>1, CheckKeeps, InsertCallKeeps, CallFailsKeeps DEF Emergency!Caller
<1>4. ASSUME NEW o \in Emergency!Uploaders, Emergency!Proving(o)
      PROVE  EmergencyInv'
  BY <1>4, ProvingKeeps
<1>5. CASE UNCHANGED Emergency!vars
  BY <1>5
  DEF Emergency!vars, EmergencyInv, EmergencyTypes, CasesExist, NoDuplicateRead,
                Emergency!OneActiveCall, Emergency!Active, Emergency!SameCaller
<1> QED BY <1>1, <1>2, <1>3, <1>4, <1>5 DEF Emergency!Next

LEMMA EmergencyParameters == Emergency!EmergencyConstants
BY PartsConstants

LEMMA EmergencyInvariance == Spec => []EmergencyInv
<1>1. Emergency!Init => EmergencyInv
  BY EmergencyInit, EmergencyParameters
<1>2. EmergencyInv /\ [Emergency!Next]_Emergency!vars => EmergencyInv'
  BY EmergencyNext, EmergencyParameters
<1> QED BY <1>1, <1>2, EmergencySpec, PTL DEF Emergency!Spec

LEMMA EmergencyTypesHold == EmergencyInv => Emergency!TypeOK
<1> SUFFICES ASSUME EmergencyInv
             PROVE  Emergency!TypeOK
  OBVIOUS
<1>1. \A r \in Callers : calls[r] # Emergency!NoCall => calls[r].read \in 0..Len(emergencies)
  BY EmergencyShapes DEF EmergencyInv, CasesExist, AnyCall
<1> QED BY <1>1 DEF EmergencyInv, EmergencyTypes, CasesExist, Emergency!TypeOK, AnyCase,
                    CaseStatuses, CallSources

\* A second call of a passenger, or of a vehicle's driver, comes before the operators
\* only after the window or when both were checked at once: the check of
\* findDuplicateEmergency and the insert, by any number of callers.
THEOREM OneCall == Spec => []OneActiveCall
<1>1. EmergencyInv => OneActiveCall
  BY DEF EmergencyInv, OneActiveCall
<1> QED BY <1>1, EmergencyInvariance, PTL

LEMMA SettledStep ==
    ASSUME Emergency!EmergencyConstants, EmergencyInv, NEW i \in DOMAIN emergencies,
           Emergency!Settled(i), [Emergency!Next]_Emergency!vars
    PROVE  /\ Emergency!Settled(i)'
           /\ emergencies'[i] = [emergencies[i] EXCEPT !.age = emergencies'[i].age]
<1> USE DEF EmergencyInv
<1>1. /\ emergencies[i] \in AnyCase /\ emergencies[i].status \in Emergency!Closed /\ i # 0
      /\ \A o \in Emergency!Uploaders : uploads[o].incident # i
  BY EmergencyShapes DEF Emergency!Settled
<1>2. /\ emergencies[i] = [emergencies[i] EXCEPT !.age = emergencies[i].age]
      /\ Emergency!NoUpload.incident = 0
  BY <1>1 DEF AnyCase, Emergency!NoUpload
<1>3. SUFFICES /\ \E age : emergencies'[i] = [emergencies[i] EXCEPT !.age = age]
               /\ \A o \in Emergency!Uploaders : uploads'[o].incident # i
  <2>1. PICK age : emergencies'[i] = [emergencies[i] EXCEPT !.age = age]
    BY <1>3
  <2>2. emergencies'[i].age = age /\ emergencies'[i].status = emergencies[i].status
    BY <1>1, <2>1 DEF AnyCase
  <2> QED BY <1>1, <1>3, <2>1, <2>2 DEF Emergency!Settled
<1>4. CASE Emergency!Tick
  BY <1>1, <1>4, Aged DEF Emergency!Tick
<1>5. ASSUME NEW j \in DOMAIN emergencies, NEW action \in Actions,
             NEW assignee \in Officers \cup {NoOfficer}, Emergency!Act(j, action, assignee)
      PROVE  /\ \E age : emergencies'[i] = [emergencies[i] EXCEPT !.age = age]
             /\ \A o \in Emergency!Uploaders : uploads'[o].incident # i
  <2>1. j # i /\ uploads' = uploads
    BY <1>1, <1>5 DEF Emergency!Act
  <2>2. PICK e \in AnyCase : emergencies' = [emergencies EXCEPT ![j] = e]
    BY <1>5, ActedIsCase
  <2>3. emergencies'[i] = emergencies[i]
    BY <2>1, <2>2
  <2> QED BY <1>1, <1>2, <2>1, <2>3
<1>6. ASSUME NEW r \in Callers, Emergency!Caller(r)
      PROVE  /\ \E age : emergencies'[i] = [emergencies[i] EXCEPT !.age = age]
             /\ \A o \in Emergency!Uploaders : uploads'[o].incident # i
  <2>1. uploads' = uploads
    BY <1>6 DEF Emergency!Caller, Emergency!Check,
          Emergency!insertEmergencyIncident, Emergency!CallFails
  <2>2. emergencies'[i] = emergencies[i]
    <3>1. emergencies' = emergencies \/ \E e : emergencies' = Append(emergencies, e)
      BY <1>6 DEF Emergency!Caller, Emergency!Check,
          Emergency!insertEmergencyIncident, Emergency!CallFails
    <3> QED BY <3>1, EmergencyShapes DEF EmergencyTypes
  <2> QED BY <1>1, <1>2, <2>1, <2>2
<1>7. ASSUME NEW p \in Emergency!Uploaders, Emergency!Proving(p)
      PROVE  /\ \E age : emergencies'[i] = [emergencies[i] EXCEPT !.age = age]
             /\ \A o \in Emergency!Uploaders : uploads'[o].incident # i
  <2>1. CASE Emergency!ProofFails(p)
    BY <1>1, <1>2, <2>1 DEF Emergency!ProofFails, EmergencyTypes
  <2>2. CASE Emergency!RecordProof(p)
    <3>1. uploads[p].incident # i /\ uploads' = [uploads EXCEPT ![p] = Emergency!NoUpload]
      BY <1>1, <2>2 DEF Emergency!RecordProof
    <3>2. emergencies'[i] = emergencies[i]
      BY <2>2, <3>1 DEF Emergency!RecordProof
    <3> QED BY <1>1, <1>2, <3>1, <3>2 DEF EmergencyTypes
  <2>3. ASSUME NEW j \in DOMAIN emergencies, Emergency!BeginProof(p, j)
        PROVE  /\ \E age : emergencies'[i] = [emergencies[i] EXCEPT !.age = age]
               /\ \A o \in Emergency!Uploaders : uploads'[o].incident # i
    <3>1. j # i /\ emergencies' = emergencies /\ uploads' = [uploads EXCEPT ![p] = [incident |-> j]]
      BY <1>1, <2>3 DEF Emergency!BeginProof
    <3> QED BY <1>1, <1>2, <3>1 DEF EmergencyTypes
  <2> QED BY <1>7, <2>1, <2>2, <2>3 DEF Emergency!Proving
<1>8. CASE UNCHANGED Emergency!vars
  BY <1>1, <1>2, <1>8 DEF Emergency!vars
<1> QED BY <1>4, <1>5, <1>6, <1>7, <1>8 DEF Emergency!Next, Emergency!Responder, Emergency!FieldAct

\* A closed case that no proof is on its way to is never touched again, whoever
\* calls, acts or uploads (POST /incidents/:id/actions and /proofs).
THEOREM ClosedIsSettled == Spec => ClosedCaseIsSettled
<1>1. EmergencyInv /\ [Emergency!Next]_Emergency!vars =>
        [\A i \in DOMAIN emergencies :
            Emergency!Settled(i) =>
              /\ Emergency!Settled(i)'
              /\ emergencies'[i] = [emergencies[i] EXCEPT !.age = emergencies'[i].age]]_Emergency!vars
  BY SettledStep, EmergencyParameters
<1> QED BY <1>1, EmergencySpec, EmergencyInvariance, PTL
        DEF Emergency!Spec, ClosedCaseIsSettled, Emergency!ClosedCaseIsSettled
-----------------------------------------------------------------------------
(* Collective anomalies: the definitions that CollectiveAnomalyProofs is   *)
(* about are those that MCParts takes its properties from.                 *)

CP == INSTANCE CollectiveAnomalyProofs WITH
    rows <- anomalies, incidents <- cases, pass <- detection, failures <- failed,
    MaxRows <- MaxAnomalies

LEMMA CollectiveParameters == CP!CollectiveConstants
<1>1. Collective!CollectiveConstants
  BY PartsConstants
<1> QED BY <1>1 DEF Collective!CollectiveConstants, CP!CollectiveConstants

LEMMA SameCollectiveNames ==
    /\ Collective!vars = CP!vars /\ Collective!Nothing = CP!Nothing
    /\ Collective!NoPass = CP!NoPass /\ Collective!Kind = CP!Kind
    /\ \A S : Collective!Cardinality(S) = CP!Cardinality(S)
<1>1. /\ Collective!vars = CP!vars /\ Collective!Nothing = CP!Nothing
      /\ Collective!NoPass = CP!NoPass /\ Collective!Kind = CP!Kind
  BY DEF Collective!vars, CP!vars, Collective!Nothing, CP!Nothing, Collective!NoPass, CP!NoPass,
         Collective!Kind, CP!Kind
<1>2. \A S : Collective!Cardinality(S) = CP!Cardinality(S)
  BY DEF Collective!Cardinality, CP!Cardinality
<1> QED BY <1>1, <1>2

LEMMA SameDetection == Collective!Detection <=> CP!Detection
BY SameCollectiveNames
DEF Collective!Detection, CP!Detection, Collective!StartDetection, CP!StartDetection,
    Collective!Find, CP!Find, Collective!Existing, CP!Existing, Collective!NextDetector,
    CP!NextDetector, Collective!PassFails, CP!PassFails, Collective!Apply, CP!Apply,
    Collective!Resolve, CP!Resolve, Collective!Of, CP!Of, Collective!Open, CP!Open,
    Collective!ReadOpen, CP!ReadOpen, Collective!Known, CP!Known, Collective!Gone, CP!Gone

LEMMA SameEscalation == \A a \in Analysts : Collective!Escalation(a) <=> CP!Escalation(a)
BY SameCollectiveNames
DEF Collective!Escalation, CP!Escalation, Collective!InsertIncident, CP!InsertIncident,
    Collective!UpdateRow, CP!UpdateRow, Collective!InsertAction, CP!InsertAction,
    Collective!EscalationFails, CP!EscalationFails, Collective!Select, CP!Select,
    Collective!OnRow, CP!OnRow

LEMMA CollectiveBehaviours == Spec => CP!Spec
<1>1. Collective!Init => CP!Init
  BY SameCollectiveNames DEF Collective!Init, CP!Init
<1>2. [Collective!Next]_Collective!vars => [CP!Next]_CP!vars
  BY SameDetection, SameEscalation DEF Collective!Next, CP!Next, CP!vars, Collective!vars
<1> QED BY <1>1, <1>2, CollectiveSpec, PTL DEF Collective!Spec, CP!Spec

LEMMA CollectiveTypesHold == Spec => []Collective!TypeOK
<1>1. CP!TypeOK => Collective!TypeOK
  BY DEF Collective!TypeOK, CP!TypeOK
<1>2. CP!Spec => []CP!TypeOK
  BY CollectiveParameters, CP!CollectiveTypes
<1> QED BY <1>1, <1>2, CollectiveBehaviours, PTL

\* The detector inserts long after it has looked (collective-anomaly-detector.js),
\* and still a subject never has two open anomalies of one type.
THEOREM OneOpen == Spec => []OneOpenPerSubject
<1>1. CP!OneOpenPerSubject => OneOpenPerSubject
  BY DEF OneOpenPerSubject, Collective!OneOpenPerSubject, CP!OneOpenPerSubject
<1>2. CP!Spec => []CP!OneOpenPerSubject
  BY CollectiveParameters, CP!OneOpen
<1> QED BY <1>1, <1>2, CollectiveBehaviours, PTL

\* The four statements of an escalation make a second incident of an anomaly only
\* when analysts overlap or a request fails.
THEOREM SecondIncident == Spec => []SecondIncidentNeedsOverlap
<1>1. CP!SecondIncidentNeedsOverlap => SecondIncidentNeedsOverlap
  BY DEF SecondIncidentNeedsOverlap, Collective!SecondIncidentNeedsOverlap,
         CP!SecondIncidentNeedsOverlap
<1>2. CP!Spec => []CP!SecondIncidentNeedsOverlap
  BY CollectiveParameters, CP!SecondIncident
<1> QED BY <1>1, <1>2, CollectiveBehaviours, PTL

\* What is escalated, and nobody has in hand, no later pass takes back.
THEOREM EscalatedStays == Spec => EscalatedIsKept
<1>1. \A r \in DOMAIN anomalies :
        (Collective!Kept(r) <=> CP!Kept(r)) /\ (Collective!Kept(r)' <=> CP!Kept(r)')
  BY DEF Collective!Kept, CP!Kept, Collective!OnRow, CP!OnRow
<1>2. [\A r \in DOMAIN anomalies :
          CP!Kept(r) => CP!Kept(r)' /\ anomalies'[r] = anomalies[r]]_CP!vars =>
      [\A r \in DOMAIN anomalies :
          Collective!Kept(r) =>
            Collective!Kept(r)' /\ anomalies'[r] = anomalies[r]]_Collective!vars
  BY <1>1 DEF Collective!vars, CP!vars
<1>3. CP!Spec => CP!EscalatedIsKept
  BY CollectiveParameters, CP!EscalatedStays
<1> QED BY <1>2, <1>3, CollectiveBehaviours, PTL
        DEF EscalatedIsKept, Collective!EscalatedIsKept, CP!EscalatedIsKept
-----------------------------------------------------------------------------
(* Telemetry: likewise, of TelemetryIntakeProofs.                          *)

TP == INSTANCE TelemetryIntakeProofs WITH failures <- refused

LEMMA IntakeParameters == TP!IntakeConstants
<1>1. Intake!IntakeConstants
  BY PartsConstants
<1> QED BY <1>1 DEF Intake!IntakeConstants, TP!IntakeConstants

LEMMA SameIntakeNames ==
    /\ Intake!vars = TP!vars /\ Intake!NoPost = TP!NoPost /\ Intake!Statuses = TP!Statuses
    /\ \A S : Intake!Cardinality(S) = TP!Cardinality(S)
    /\ \A v : Intake!UnderWay(v) = TP!UnderWay(v) /\ Intake!Of(v) = TP!Of(v)
    /\ \A m : Intake!Duplicates(m) = TP!Duplicates(m)
<1>1. /\ Intake!vars = TP!vars /\ Intake!NoPost = TP!NoPost /\ Intake!Statuses = TP!Statuses
  BY DEF Intake!vars, TP!vars, Intake!NoPost, TP!NoPost, Intake!Statuses, TP!Statuses
<1>2. \A S : Intake!Cardinality(S) = TP!Cardinality(S)
  BY DEF Intake!Cardinality, TP!Cardinality
<1>3. \A v : Intake!UnderWay(v) = TP!UnderWay(v) /\ Intake!Of(v) = TP!Of(v)
  BY <1>1 DEF Intake!UnderWay, TP!UnderWay, Intake!Of, TP!Of
<1>4. \A m : Intake!Duplicates(m) = TP!Duplicates(m)
  BY <1>3 DEF Intake!Duplicates, TP!Duplicates
<1> QED BY <1>1, <1>2, <1>3, <1>4

LEMMA SamePost == \A p \in Posts : Intake!Post(p) <=> TP!Post(p)
<1> SUFFICES ASSUME NEW p \in Posts
             PROVE  Intake!Post(p) <=> TP!Post(p)
  OBVIOUS
<1>1. \A m \in Payloads : Intake!Begin(p, m) <=> TP!Begin(p, m)
  BY SameIntakeNames DEF Intake!Begin, TP!Begin
<1>2. Intake!Insert(p) <=> TP!Insert(p)
  <2>1. Intake!Newer(posts[p].payload, posts[p].payload.vehicle)
          <=> TP!Newer(posts[p].payload, posts[p].payload.vehicle)
    BY DEF Intake!Newer, TP!Newer
  <2>2. Intake!Of(posts[p].payload.vehicle) = TP!Of(posts[p].payload.vehicle)
    BY SameIntakeNames
  <2> QED BY <2>1, <2>2 DEF Intake!Insert, TP!Insert
<1>3. Intake!Match(p) <=> TP!Match(p)
  BY SameIntakeNames DEF Intake!Match, TP!Match
<1>4. Intake!UpdateStatus(p) <=> TP!UpdateStatus(p)
  BY SameIntakeNames DEF Intake!UpdateStatus, TP!UpdateStatus
<1>5. Intake!PostFails(p) <=> TP!PostFails(p)
  BY SameIntakeNames DEF Intake!PostFails, TP!PostFails
<1> QED BY <1>1, <1>2, <1>3, <1>4, <1>5 DEF Intake!Post, TP!Post

LEMMA IntakeBehaviours == Spec => TP!Spec
<1>1. Intake!Init => TP!Init
  BY SameIntakeNames DEF Intake!Init, TP!Init
<1>2. [Intake!Next]_Intake!vars => [TP!Next]_TP!vars
  BY SamePost, SameIntakeNames
  DEF Intake!Next, TP!Next, Intake!AnswerDuplicate, TP!AnswerDuplicate, TP!vars, Intake!vars
<1> QED BY <1>1, <1>2, IntakeSpec, PTL DEF Intake!Spec, TP!Spec

LEMMA IntakeTypesHold == Spec => []Intake!TypeOK
<1>1. TP!TypeOK => Intake!TypeOK
  BY SameIntakeNames DEF Intake!TypeOK, TP!TypeOK
<1>2. TP!Spec => []TP!TypeOK
  BY IntakeParameters, TP!IntakeTypes
<1> QED BY <1>1, <1>2, IntakeBehaviours, PTL

\* A position is stored twice only by posts that overlap (telemetry-intake.js): a
\* retry that comes after an answer, or after a failure, doubles nothing.
THEOREM StoredTwice == Spec => []StoredTwiceNeedsOverlap
<1>1. TP!StoredTwiceNeedsOverlap => StoredTwiceNeedsOverlap
  BY DEF StoredTwiceNeedsOverlap, Intake!StoredTwiceNeedsOverlap, TP!StoredTwiceNeedsOverlap
<1>2. TP!Spec => []TP!StoredTwiceNeedsOverlap
  BY IntakeParameters, TP!StoredTwice
<1> QED BY <1>1, <1>2, IntakeBehaviours, PTL

\* The status of a vehicle and its current position, which the request and a trigger
\* keep, agree as long as its posts are orderly.
THEOREM StatusOfCurrent == Spec => []StatusIsOfCurrent
<1>1. TP!StatusIsOfCurrent => StatusIsOfCurrent
  BY SameIntakeNames DEF StatusIsOfCurrent, Intake!StatusIsOfCurrent, TP!StatusIsOfCurrent
<1>2. TP!Spec => []TP!StatusIsOfCurrent
  BY IntakeParameters, TP!StatusOfCurrent
<1> QED BY <1>1, <1>2, IntakeBehaviours, PTL
-----------------------------------------------------------------------------
(* The decisions.                                                          *)

LEMMA DecisionParameters ==
    /\ MaxMinutes \in Nat /\ MaxHeard \in Nat /\ Minute \in Nat \ {0}
    /\ {LostSignalMinutes, OffRouteGraceMinutes, WrongDirectionGraceMinutes} \subseteq Nat
    /\ {OverspeedMinPoints, OffRouteMinPoints, WrongDirectionMinPoints} \subseteq Nat \ {0}
    /\ OffRouteGraceMinutes <= LostSignalMinutes
    /\ WrongDirectionGraceMinutes <= LostSignalMinutes
BY PartsConstants DEF Decisions!DecisionConstants

LEMMA Least ==
    ASSUME NEW S \in SUBSET Nat, S # {}
    PROVE  \E n \in S : \A m \in S : n <= m
<1> DEFINE R == OpToRel(<, Nat)
<1>1. IsWellFoundedOn(R, Nat)
  BY NatLessThanWellFounded
<1>2. \A m, n \in Nat : <<m, n>> \in R <=> m < n
  BY DEF OpToRel
<1> HIDE DEF R
<1>3. PICK n \in S : \A m \in S : <<m, n>> \notin R
  BY <1>1, WFMin
<1>4. \A m \in S : m \in Nat /\ n \in Nat /\ ~(m < n)
  BY <1>2, <1>3
<1> QED BY <1>3, <1>4

LEMMA HeardShapes ==
    ASSUME DecisionTypes
    PROVE  /\ Len(heard) \in Nat /\ DOMAIN heard = 1..Len(heard)
           /\ \A i \in DOMAIN heard : heard[i].ts \in 0..MaxMinutes
           /\ clock \in Nat /\ pass.at \in Nat /\ pass.latest \in Nat /\ pass.read \in Nat
           /\ heard = <<>> <=> Len(heard) = 0
<1>1. /\ Len(heard) \in Nat /\ DOMAIN heard = 1..Len(heard)
      /\ \A i \in DOMAIN heard : heard[i] \in AnyHeard
  BY LenProperties DEF DecisionTypes
<1>2. \A i \in DOMAIN heard : heard[i].ts \in 0..MaxMinutes
  BY <1>1 DEF AnyHeard
<1>3. clock \in Nat /\ pass.at \in Nat /\ pass.latest \in Nat /\ pass.read \in Nat
  BY DEF DecisionTypes, AnyPass
<1>4. heard = <<>> <=> Len(heard) = 0
  BY EmptySeq DEF DecisionTypes
<1> QED BY <1>1, <1>2, <1>3, <1>4

\* Of the positions of a vehicle one is the latest (vehicle_latest).
LEMMA LatestIsLast ==
    ASSUME DecisionTypes
    PROVE  /\ Decisions!Latest \in 0..Len(heard)
           /\ IF Decisions!Latest = 0 THEN heard = <<>>
              ELSE \A i \in DOMAIN heard : heard[i].ts <= heard[Decisions!Latest].ts
<1>1. CASE heard = <<>>
  BY <1>1, HeardShapes DEF Decisions!Latest
<1>2. CASE heard # <<>>
  <2> DEFINE T == {MaxMinutes - heard[i].ts : i \in DOMAIN heard}
  <2>1. T \in SUBSET Nat /\ T # {}
    <3>1. \A i \in DOMAIN heard : MaxMinutes - heard[i].ts \in Nat
      BY HeardShapes, DecisionParameters
    <3>2. 1 \in DOMAIN heard
      BY <1>2, HeardShapes
    <3> QED BY <3>1, <3>2
  <2>2. PICK k \in DOMAIN heard :
          \A i \in DOMAIN heard : MaxMinutes - heard[k].ts <= MaxMinutes - heard[i].ts
    <3>1. PICK t \in T : \A u \in T : t <= u
      BY <2>1, Least
    <3> QED BY <3>1
  <2>3. \A i \in DOMAIN heard : heard[i].ts <= heard[k].ts
    BY <2>2, HeardShapes, DecisionParameters
  <2> DEFINE L == {Len(heard) - i : i \in {j \in DOMAIN heard : heard[j].ts = heard[k].ts}}
  <2>4. L \in SUBSET Nat /\ L # {}
    BY HeardShapes
  <2>5. PICK l \in DOMAIN heard :
          /\ heard[l].ts = heard[k].ts
          /\ \A i \in DOMAIN heard :
                heard[i].ts = heard[k].ts => Len(heard) - l <= Len(heard) - i
    <3>1. PICK t \in L : \A u \in L : t <= u
      BY <2>4, Least
    <3> QED BY <3>1
  <2>6. \A i \in DOMAIN heard : Decisions!Later(l, i)
    BY <2>3, <2>5, HeardShapes DEF Decisions!Later
  <2>7. /\ Decisions!Latest \in DOMAIN heard
        /\ \A i \in DOMAIN heard : Decisions!Later(Decisions!Latest, i)
    BY <1>2, <2>6 DEF Decisions!Latest
  <2> QED BY <2>7, HeardShapes DEF Decisions!Later
<1> QED BY <1>1, <1>2

\* More than a number of minutes, rounded, is more than that without rounding.
LEMMA RoundedUp ==
    ASSUME NEW span \in Int, NEW minutes \in Nat, Decisions!Rounded(span) > minutes
    PROVE  span > minutes * Minute
<1> DEFINE a == 2 * span + Minute
           b == 2 * Minute
           q == a \div b
<1>1. a \in Int /\ b \in Nat \ {0}
  BY DecisionParameters
<1>2. q \in Int /\ b * q <= a
  <2> HIDE DEF a, b
  <2> QED BY <1>1
<1>3. q >= minutes + 1
  <2>1. q > minutes
    BY DEF Decisions!Rounded
  <2> HIDE DEF q
  <2> QED BY <1>2, <2>1
<1>4. b * q >= b * (minutes + 1)
  <2> HIDE DEF a, b, q
  <2> QED BY <1>1, <1>2, <1>3
<1>5. b * (minutes + 1) = 2 * (minutes * Minute) + 2 * Minute
  BY DecisionParameters
<1>6. minutes * Minute \in Nat
  BY DecisionParameters
<1>7. a >= 2 * (minutes * Minute) + 2 * Minute
  <2>1. b * q \in Int /\ b * (minutes + 1) \in Int
    BY <1>1, <1>2
  <2> HIDE DEF a, b, q
  <2> QED BY <1>1, <1>2, <1>4, <1>5, <1>6, <2>1, DecisionParameters
<1> QED BY <1>6, <1>7, DecisionParameters

\* A window no longer than the silence has nothing in it.
LEMMA NothingWithin ==
    ASSUME DecisionTypes, SnapshotIsLast, pass.read = Len(heard), Silent,
           NEW minutes \in Nat, minutes <= LostSignalMinutes
    PROVE  Decisions!Within(minutes) = {}
<1>1. CASE pass.latest = 0
  BY <1>1 DEF SnapshotIsLast, Decisions!Within
<1>2. CASE pass.latest # 0
  <2>1. pass.latest \in DOMAIN heard
    BY <1>2, HeardShapes DEF DecisionTypes
  <2>2. Decisions!Silence \in Int /\ Decisions!Silence = pass.at - heard[pass.latest].ts
    BY <2>1, HeardShapes DEF Decisions!Silence
  <2>3. Decisions!Silence > LostSignalMinutes * Minute
    BY <1>2, <2>2, RoundedUp, DecisionParameters DEF Silent
  <2>4. minutes * Minute <= LostSignalMinutes * Minute
    BY DecisionParameters
  <2>5. minutes * Minute \in Nat /\ LostSignalMinutes * Minute \in Nat
    BY DecisionParameters
  <2>6. pass.at <= clock
    BY DEF DecisionTypes
  <2>7. \A i \in DOMAIN heard : heard[i].ts <= heard[pass.latest].ts
    BY <1>2 DEF SnapshotIsLast
  <2>8. \A i \in DOMAIN heard : heard[i].ts < clock - minutes * Minute
    BY <2>1, <2>2, <2>3, <2>4, <2>5, <2>6, <2>7, HeardShapes
  <2> QED BY <2>5, <2>8, HeardShapes DEF Decisions!Within
<1> QED BY <1>1, <1>2

LEMMA SameCardinality == \A S : Decisions!Cardinality(S) = Cardinality(S)
BY DEF Decisions!Cardinality, Cardinality

\* With nothing in its window each rule resolves.
LEMMA RulesResolve ==
    ASSUME DecisionTypes, SnapshotIsLast, pass.read = Len(heard), Silent
    PROVE  /\ Decisions!evaluateOverspeed = "resolve"
           /\ Decisions!evaluateOffRoute = "resolve"
           /\ Decisions!evaluateWrongDirection = "resolve"
           /\ Decisions!NgetemExcluded
<1>1. /\ Decisions!Within(LostSignalMinutes) = {} /\ Decisions!Within(OffRouteGraceMinutes) = {}
      /\ Decisions!Within(WrongDirectionGraceMinutes) = {}
  BY NothingWithin, DecisionParameters
<1>2. Decisions!Cardinality({}) = 0
  BY SameCardinality, FS_EmptySet
<1>3. Decisions!evaluateOverspeed = "resolve"
  <2>1. Decisions!overspeedRows = {}
    BY <1>1 DEF Decisions!overspeedRows, Decisions!Newest
  <2>2. {i \in Decisions!overspeedRows : heard[i].sight.speed > OverspeedThreshold} = {}
    BY <2>1
  <2>3. 0 < OverspeedMinPoints
    BY DecisionParameters
  <2> QED BY <1>2, <2>2, <2>3, Zenon DEF Decisions!evaluateOverspeed
<1>4. Decisions!evaluateOffRoute = "resolve"
  <2>1. Decisions!offRouteRows = {}
    BY <1>1 DEF Decisions!offRouteRows
  <2>2. {i \in Decisions!offRouteRows : heard[i].sight.off > CorridorTolerance} = {}
    BY <2>1
  <2>3. 0 < OffRouteMinPoints
    BY DecisionParameters
  <2> QED BY <1>2, <2>2, <2>3, Zenon DEF Decisions!evaluateOffRoute
<1>5. Decisions!evaluateWrongDirection = "resolve"
  <2>1. Decisions!wrongDirectionRows = {}
    BY <1>1 DEF Decisions!wrongDirectionRows
  <2>2. {i \in Decisions!wrongDirectionRows :
            Decisions!Turned(i) >= WrongDirectionHeadingDiff} = {}
    BY <2>1
  <2>3. 0 < WrongDirectionMinPoints
    BY DecisionParameters
  <2> QED BY <1>2, <2>2, <2>3, Zenon DEF Decisions!evaluateWrongDirection
<1>6. Decisions!NgetemExcluded
  <2>1. pass.latest # 0 => Decisions!Silence \in Int
    BY HeardShapes DEF Decisions!Silence, DecisionTypes
  <2>2. pass.latest # 0 => Decisions!Silence > LostSignalMinutes * Minute
    BY <2>1, RoundedUp, DecisionParameters DEF Silent
  <2> QED BY <2>2 DEF Decisions!NgetemExcluded
<1> QED BY <1>3, <1>4, <1>5, <1>6

LEMMA DecisionsAreDecisions ==
    /\ Decisions!evaluateLostSignal \in AnyDecision /\ Decisions!evaluateOverspeed \in AnyDecision
    /\ Decisions!evaluateOffRoute \in AnyDecision /\ Decisions!evaluateWrongDirection \in AnyDecision
    /\ Decisions!evaluateNgetem \in AnyDecision
<1>1. /\ "resolve" \in AnyDecision /\ "MEDIUM" \in AnyDecision /\ "HIGH" \in AnyDecision
      /\ "CRITICAL" \in AnyDecision
  BY DEF AnyDecision
<1>2. Decisions!evaluateLostSignal \in AnyDecision
  BY <1>1, Zenon DEF Decisions!evaluateLostSignal
<1>3. Decisions!evaluateOverspeed \in AnyDecision
  BY <1>1, Zenon DEF Decisions!evaluateOverspeed
<1>4. Decisions!evaluateOffRoute \in AnyDecision
  BY <1>1, Zenon DEF Decisions!evaluateOffRoute
<1>5. Decisions!evaluateWrongDirection \in AnyDecision
  BY <1>1, Zenon DEF Decisions!evaluateWrongDirection
<1>6. Decisions!evaluateNgetem \in AnyDecision
  BY <1>1, Zenon DEF Decisions!evaluateNgetem
<1> QED BY <1>2, <1>3, <1>4, <1>5, <1>6

LEMMA DecisionInit == ASSUME Decisions!Init PROVE DecisionInv
<1>1. /\ clock = 0 /\ heard = <<>> /\ Len(heard) = 0 /\ service \in BOOLEAN
      /\ pass = Decisions!NoPass /\ decided = Decisions!Undecided
  BY DEF Decisions!Init
<1>2. Decisions!Undecided \in [1..5 -> AnyDecision] /\ \A k \in 1..5 : decided[k] = "none"
  BY <1>1 DEF Decisions!Undecided, Decisions!Rules, AnyDecision
<1>3. DecisionTypes
  BY <1>1, <1>2, DecisionParameters, EmptySeq DEF DecisionTypes, Decisions!NoPass, AnyPass
<1>4. SnapshotIsLast
  BY <1>1 DEF SnapshotIsLast, Decisions!NoPass
<1>5. SilenceHolds
  BY <1>1, <1>2 DEF SilenceHolds, NothingElse, Decisions!Opened
<1> QED BY <1>3, <1>4, <1>5 DEF DecisionInv

\* Time passes, a position comes or the vehicle goes into or out of service.
LEMMA WorldKeepsDecisions ==
    ASSUME DecisionInv, pass' = pass, decided' = decided, clock' \in clock..MaxMinutes,
           service' \in BOOLEAN,
           \/ heard' = heard
           \/ /\ Len(heard) < MaxHeard
              /\ \E p \in AnyHeard : heard' = Append(heard, p)
    PROVE  DecisionInv'
<1> USE DEF DecisionInv
<1>1. /\ heard' \in Seq(AnyHeard) /\ Len(heard') <= MaxHeard /\ Len(heard') >= Len(heard)
      /\ heard' # heard => Len(heard') > Len(heard) /\ heard' # <<>>
  <2>1. CASE heard' = heard
    BY <2>1, HeardShapes DEF DecisionTypes
  <2>2. CASE heard' # heard
    <3>1. PICK p \in AnyHeard : heard' = Append(heard, p)
      BY <2>2
    <3>2. heard \in Seq(AnyHeard) /\ Len(heard) < MaxHeard /\ MaxHeard \in Nat
      BY <2>2, DecisionParameters DEF DecisionTypes
    <3>3. /\ heard' \in Seq(AnyHeard) /\ heard' # <<>> /\ Len(heard') = Len(heard) + 1
      BY <3>1, <3>2, AppendProperties
    <3> QED BY <3>2, <3>3, HeardShapes
  <2> QED BY <2>1, <2>2
<1>2. DecisionTypes'
  <2>1. clock' \in 0..MaxMinutes /\ pass.at <= clock'
    BY HeardShapes DEF DecisionTypes
  <2>2. pass.latest <= Len(heard') /\ pass.read <= Len(heard')
    BY <1>1, HeardShapes, LenProperties DEF DecisionTypes
  <2> QED BY <1>1, <2>1, <2>2 DEF DecisionTypes
<1>3. pass.read = Len(heard') => heard' = heard
  BY <1>1, HeardShapes DEF DecisionTypes
<1>4. heard' = <<>> => heard = <<>>
  BY <1>1
<1>5. SnapshotIsLast'
  BY <1>3 DEF SnapshotIsLast
<1>6. SilenceHolds'
  BY <1>3, <1>4 DEF SilenceHolds, Silent, NothingElse, Decisions!Opened, Decisions!Silence,
     Decisions!Rounded, Decisions!Undecided, Decisions!Rules
<1> QED BY <1>2, <1>5, <1>6

LEMMA StartPassKeeps == ASSUME DecisionInv, Decisions!StartPass PROVE DecisionInv'
<1> USE DEF DecisionInv
<1>1. /\ pass' = [turn |-> 1, at |-> clock, latest |-> Decisions!Latest, inService |-> service,
                  read |-> Len(heard)]
      /\ decided' = Decisions!Undecided
      /\ clock' = clock /\ heard' = heard /\ service' = service
  BY DEF Decisions!StartPass
<1>2. /\ pass' \in AnyPass /\ pass'.turn = 1 /\ pass'.at = clock
      /\ pass'.latest = Decisions!Latest /\ pass'.read = Len(heard)
  <2>1. Decisions!Latest \in 0..Len(heard) /\ Len(heard) \in Nat
    BY LatestIsLast, HeardShapes
  <2>2. /\ clock \in 0..MaxMinutes /\ service \in BOOLEAN /\ Len(heard) <= MaxHeard
        /\ MaxHeard \in Nat
    BY DecisionParameters DEF DecisionTypes
  <2> QED BY <1>1, <2>1, <2>2 DEF AnyPass
<1>3. Decisions!Undecided \in [1..5 -> AnyDecision] /\ \A k \in 1..5 : decided'[k] = "none"
  BY <1>1 DEF Decisions!Undecided, Decisions!Rules, AnyDecision
<1>4. DecisionTypes'
  BY <1>1, <1>2, <1>3, LatestIsLast, HeardShapes DEF DecisionTypes
<1>5. SnapshotIsLast'
  BY <1>1, <1>2, LatestIsLast DEF SnapshotIsLast
<1>6. SilenceHolds'
  BY <1>1, <1>2, <1>3
  DEF SilenceHolds, NothingElse, Decisions!Opened, Decisions!Undecided, Decisions!Rules
<1> QED BY <1>4, <1>5, <1>6

LEMMA PassFailsKeeps == ASSUME DecisionInv, Decisions!PassFails PROVE DecisionInv'
<1> USE DEF DecisionInv
<1>1. /\ pass' = Decisions!NoPass /\ decided' = decided
      /\ clock' = clock /\ heard' = heard /\ service' = service
  BY DEF Decisions!PassFails
<1>2. /\ pass' \in AnyPass /\ pass'.turn = 0 /\ pass'.at = 0 /\ pass'.latest = 0
      /\ pass'.read = 0
  BY <1>1, DecisionParameters DEF AnyPass, Decisions!NoPass
<1>3. DecisionTypes'
  BY <1>1, <1>2, HeardShapes DEF DecisionTypes
<1>4. SnapshotIsLast'
  BY <1>1, <1>2, HeardShapes DEF SnapshotIsLast
<1>5. SilenceHolds'
  BY <1>1, <1>2, HeardShapes DEF SilenceHolds, NothingElse, Decisions!Opened, Silent
<1> QED BY <1>3, <1>4, <1>5

LEMMA DecideEffect ==
    ASSUME DecisionTypes, NEW k \in 1..5, NEW decision,
           Decisions!Decide(Decisions!Rules[k], decision)
    PROVE  /\ pass.turn = k /\ decided' = [decided EXCEPT ![k] = decision]
           /\ pass' = [pass EXCEPT !.turn = (k + 1) % 6]
           /\ clock' = clock /\ heard' = heard /\ service' = service
<1>1. /\ DOMAIN Decisions!Rules = 1..5 /\ Len(Decisions!Rules) = 5
      /\ \A i, j \in 1..5 : Decisions!Rules[i] = Decisions!Rules[j] => i = j
  BY DEF Decisions!Rules
<1>2. pass.turn = k
  BY <1>1 DEF Decisions!Decide
<1> QED BY <1>1, <1>2 DEF Decisions!Decide

\* The first rule finds the vehicle silent or not; no other has decided yet.
LEMMA LostSignalKeeps == ASSUME DecisionInv, Decisions!LostSignal PROVE DecisionInv'
<1> USE DEF DecisionInv
<1>1. /\ pass.turn = 1 /\ decided' = [decided EXCEPT ![1] = Decisions!evaluateLostSignal]
      /\ pass' = [pass EXCEPT !.turn = 2]
      /\ clock' = clock /\ heard' = heard /\ service' = service
  <2>1. Decisions!Decide(Decisions!Rules[1], Decisions!evaluateLostSignal)
    BY DEF Decisions!LostSignal, Decisions!Rules
  <2>2. (1 + 1) % 6 = 2
    OBVIOUS
  <2> QED BY <2>1, <2>2, DecideEffect
<1>2. /\ pass' \in AnyPass /\ pass'.turn = 2 /\ pass'.at = pass.at
      /\ pass'.latest = pass.latest /\ pass'.read = pass.read
  BY <1>1 DEF DecisionTypes, AnyPass
<1>3. /\ decided' \in [1..5 -> AnyDecision] /\ decided'[1] = Decisions!evaluateLostSignal
      /\ \A k \in 2..5 : decided'[k] = "none"
  <2>1. \A k \in 1..5 : decided[k] = "none"
    BY <1>1 DEF SilenceHolds, Decisions!Undecided, Decisions!Rules
  <2> QED BY <1>1, <2>1, DecisionsAreDecisions DEF DecisionTypes
<1>4. DecisionTypes'
  BY <1>1, <1>2, <1>3 DEF DecisionTypes
<1>5. SnapshotIsLast'
  BY <1>1, <1>2 DEF SnapshotIsLast
<1>6. NothingElse'
  BY <1>3 DEF NothingElse, Decisions!Opened
<1>7. Decisions!Opened(1)' => Silent'
  <2> SUFFICES ASSUME Decisions!evaluateLostSignal # "resolve", pass.latest # 0
               PROVE  Silent'
    BY <1>1, <1>2, <1>3 DEF Decisions!Opened, Silent
  <2>1. ~(Decisions!Rounded(Decisions!Silence) <= LostSignalMinutes)
    BY DEF Decisions!evaluateLostSignal
  <2>2. Decisions!Silence \in Int
    BY HeardShapes DEF Decisions!Silence, DecisionTypes
  <2>3. Decisions!Rounded(Decisions!Silence) > LostSignalMinutes
    BY <2>1, <2>2, DecisionParameters DEF Decisions!Rounded
  <2>4. Silent
    BY <2>3 DEF Silent
  <2> QED BY <1>1, <1>2, <2>4 DEF Silent, Decisions!Rounded, Decisions!Silence
<1>8. SilenceHolds'
  BY <1>2, <1>6, <1>7 DEF SilenceHolds
<1> QED BY <1>4, <1>5, <1>8

\* Any other rule that resolves if the vehicle is silent.
LEMMA OtherRuleKeeps ==
    ASSUME DecisionInv, NEW k \in 2..5, NEW decision \in AnyDecision,
           Decisions!Decide(Decisions!Rules[k], decision),
           pass.read = Len(heard) /\ Silent => decision = "resolve"
    PROVE  DecisionInv'
<1> USE DEF DecisionInv
<1>1. /\ pass.turn = k /\ decided' = [decided EXCEPT ![k] = decision]
      /\ pass' = [pass EXCEPT !.turn = (k + 1) % 6]
      /\ clock' = clock /\ heard' = heard /\ service' = service
  BY DecideEffect
<1>2. /\ pass' \in AnyPass /\ pass'.turn = (k + 1) % 6 /\ pass'.turn # 1 /\ pass'.at = pass.at
      /\ pass'.latest = pass.latest /\ pass'.read = pass.read
  <2>1. (k + 1) % 6 \in 0..5 /\ (k + 1) % 6 # 1
    OBVIOUS
  <2> QED BY <1>1, <2>1 DEF DecisionTypes, AnyPass
<1>3. /\ decided' \in [1..5 -> AnyDecision] /\ decided'[k] = decision
      /\ \A l \in 1..5 : l # k => decided'[l] = decided[l]
  BY <1>1 DEF DecisionTypes
<1>4. DecisionTypes'
  BY <1>1, <1>2, <1>3 DEF DecisionTypes
<1>5. SnapshotIsLast'
  BY <1>1, <1>2 DEF SnapshotIsLast
<1>6. pass.read = Len(heard) /\ Silent /\ NothingElse => NothingElse'
  BY <1>3 DEF NothingElse, Decisions!Opened
<1>7. heard = <<>> => pass.read = Len(heard) /\ Silent
  BY HeardShapes DEF DecisionTypes, Silent
<1>8. Decisions!Opened(1)' => Decisions!Opened(1)
  BY <1>3 DEF Decisions!Opened
<1>9. Silent => Silent'
  BY <1>1, <1>2 DEF Silent, Decisions!Rounded, Decisions!Silence
<1>10. SilenceHolds'
  BY <1>1, <1>2, <1>6, <1>7, <1>8, <1>9 DEF SilenceHolds
<1> QED BY <1>4, <1>5, <1>10

LEMMA DecisionNext ==
    ASSUME DecisionInv, [Decisions!Next]_Decisions!vars
    PROVE  DecisionInv'
<1> USE DEF DecisionInv
<1>1. CASE Decisions!Tick
  BY <1>1, HeardShapes, DecisionParameters, WorldKeepsDecisions DEF Decisions!Tick, DecisionTypes
<1>2. CASE Decisions!StatusChanges
  <2>1. clock' \in clock..MaxMinutes /\ service' \in BOOLEAN
    BY <1>2, HeardShapes DEF Decisions!StatusChanges, DecisionTypes
  <2> QED BY <1>2, <2>1, WorldKeepsDecisions DEF Decisions!StatusChanges
<1>3. ASSUME NEW sight \in Sights, NEW ts \in 0..clock, Decisions!Report(sight, ts)
      PROVE  DecisionInv'
  <2>1. [sight |-> sight, ts |-> ts] \in AnyHeard /\ clock \in clock..MaxMinutes
    BY DecisionParameters DEF DecisionTypes, AnyHeard
  <2> QED BY <1>3, <2>1, WorldKeepsDecisions DEF Decisions!Report, DecisionTypes
<1>4. CASE Decisions!Overspeed
  BY <1>4, OtherRuleKeeps, RulesResolve, DecisionsAreDecisions
  DEF Decisions!Overspeed, Decisions!Rules
<1>5. CASE Decisions!OffRoute
  BY <1>5, OtherRuleKeeps, RulesResolve, DecisionsAreDecisions
  DEF Decisions!OffRoute, Decisions!Rules
<1>6. CASE Decisions!WrongDirection
  BY <1>6, OtherRuleKeeps, RulesResolve, DecisionsAreDecisions
  DEF Decisions!WrongDirection, Decisions!Rules
<1>7. CASE Decisions!Ngetem
  <2> DEFINE d == IF Decisions!NgetemExcluded \/ Decisions!InOfficialStop THEN "resolve"
                  ELSE Decisions!evaluateNgetem
  <2>1. d \in AnyDecision /\ (Decisions!NgetemExcluded => d = "resolve")
    BY DecisionsAreDecisions DEF AnyDecision
  <2>2. Decisions!Decide(Decisions!Rules[5], d)
    BY <1>7 DEF Decisions!Ngetem, Decisions!Rules
  <2> HIDE DEF d
  <2> QED BY <2>1, <2>2, OtherRuleKeeps, RulesResolve
<1>8. CASE UNCHANGED Decisions!vars
  BY <1>8 DEF Decisions!vars, DecisionTypes, SnapshotIsLast, SilenceHolds, Silent, NothingElse,
     Decisions!Opened, Decisions!Rounded, Decisions!Silence, Decisions!Undecided, Decisions!Rules
<1> QED BY <1>1, <1>2, <1>3, <1>4, <1>5, <1>6, <1>7, <1>8, StartPassKeeps, PassFailsKeeps,
           LostSignalKeeps
        DEF Decisions!Next

LEMMA DecisionInvariance == Spec => []DecisionInv
<1>1. Decisions!Init => DecisionInv
  BY DecisionInit
<1>2. DecisionInv /\ [Decisions!Next]_Decisions!vars => DecisionInv'
  BY DecisionNext
<1> QED BY <1>1, <1>2, DecisionsSpec, PTL DEF Decisions!Spec

LEMMA DecisionTypesHold == DecisionInv => Decisions!TypeOK
<1> SUFFICES ASSUME DecisionInv
             PROVE  Decisions!TypeOK
  OBVIOUS
<1>1. /\ pass.turn \in 0..5 /\ pass.at <= clock /\ pass.latest \in 0..Len(heard)
      /\ \A k \in 1..5 : decided[k] \in AnyDecision
  BY HeardShapes DEF DecisionInv, DecisionTypes, AnyPass
<1>2. DOMAIN Decisions!Rules = 1..5 /\ Len(Decisions!Rules) = 5
  BY DEF Decisions!Rules
<1> QED BY <1>1, <1>2
        DEF DecisionInv, DecisionTypes, AnyHeard, AnyDecision, Decisions!TypeOK, Decisions!Opened

\* A vehicle that a pass finds silent is accused of nothing else in that pass, for any
\* settings whose windows are no longer than the silence (rule-decisions.js,
\* rule-batch-queries.js): the five rules count and round each in its own way.
THEOREM SilenceAlone == Spec => []SilenceSpeaksAlone
<1>1. DecisionInv => SilenceSpeaksAlone
  <2>1. Len(Decisions!Rules) = 5
    BY DEF Decisions!Rules
  <2> QED BY <2>1
          DEF DecisionInv, SilenceHolds, NothingElse, SilenceSpeaksAlone, Decisions!SilenceSpeaksAlone
<1> QED BY <1>1, DecisionInvariance, PTL
-----------------------------------------------------------------------------
(* The feed.                                                               *)

LEMMA FeedParameters ==
    /\ MaxTime \in Nat /\ MaxNotifications \in Nat /\ NotificationWindow \in Nat
    /\ Limit \in Nat \ {0} /\ Nobody \notin Clients
BY PartsConstants DEF Feed!FeedConstants

LEMMA FeedCardinality == \A S : Feed!Cardinality(S) = Cardinality(S)
BY DEF Feed!Cardinality, Cardinality

LEMMA FeedShapes ==
    ASSUME FeedTypes
    PROVE  /\ Len(notifications) \in Nat /\ DOMAIN notifications = 1..Len(notifications)
           /\ DOMAIN notifications \subseteq 1..MaxNotifications
           /\ \A n \in DOMAIN notifications :
                 /\ notifications[n] \in AnyNotification
                 /\ notifications[n].at \in Nat /\ notifications[n].at <= now
           /\ now \in Nat
           /\ \A c \in Clients :
                 /\ clients[c] \in AnyClient
                 /\ clients[c].last \in Nat /\ clients[c].first \in Nat
                 /\ clients[c].first <= clients[c].last /\ clients[c].last <= now
                 /\ \A n \in 1..MaxNotifications : clients[c].news[n] \in Nat
           /\ \A t \in Slots : ticks[t].pc # "none" => ticks[t] \in AnyTick
           /\ Feed!Visible \subseteq DOMAIN notifications
<1>1. /\ Len(notifications) \in Nat /\ DOMAIN notifications = 1..Len(notifications)
      /\ \A n \in DOMAIN notifications : notifications[n] \in AnyNotification
  BY LenProperties DEF FeedTypes
<1>2. DOMAIN notifications \subseteq 1..MaxNotifications
  BY <1>1, FeedParameters DEF FeedTypes
<1>3. \A n \in DOMAIN notifications : notifications[n].at \in Nat /\ notifications[n].at <= now
  BY <1>1 DEF AnyNotification, FeedTypes
<1>4. now \in Nat
  BY DEF FeedTypes
<1>5. \A c \in Clients :
        /\ clients[c] \in AnyClient
        /\ clients[c].first <= clients[c].last /\ clients[c].last <= now
  BY DEF FeedTypes
<1>6. \A r \in AnyClient :
        /\ r.last \in Nat /\ r.first \in Nat /\ \A n \in 1..MaxNotifications : r.news[n] \in Nat
  <2>1. \A r \in AnyClient :
          r.last \in 0..MaxTime /\ r.first \in 0..MaxTime /\ r.news \in [1..MaxNotifications -> Nat]
    BY DEF AnyClient
  <2>2. \A f \in [1..MaxNotifications -> Nat] : \A n \in 1..MaxNotifications : f[n] \in Nat
    OBVIOUS
  <2>3. \A k \in 0..MaxTime : k \in Nat
    OBVIOUS
  <2> QED BY <2>1, <2>2, <2>3, Zenon
<1>7. \A t \in Slots : ticks[t].pc # "none" => ticks[t] \in AnyTick
  BY DEF FeedTypes, Feed!NoTick
<1>8. Feed!Visible \subseteq DOMAIN notifications
  BY DEF Feed!Visible
<1> QED BY <1>1, <1>2, <1>3, <1>4, <1>5, <1>6, <1>7, <1>8

\* What is crowded out stays so.
LEMMA CrowdedStays ==
    ASSUME FeedTypes', NEW n, Feed!Newer(n) \subseteq Feed!Newer(n)', Crowded(n)
    PROVE  Crowded(n)'
<1>1. DOMAIN notifications' = 1..Len(notifications') /\ Len(notifications') \in Nat
  BY LenProperties DEF FeedTypes
<1>2. IsFiniteSet(1..Len(notifications'))
  BY <1>1, FS_Interval
<1>3. Feed!Newer(n)' \subseteq 1..Len(notifications')
  BY <1>1 DEF Feed!Newer, Feed!Visible
<1>4. IsFiniteSet(Feed!Newer(n)')
  BY <1>2, <1>3, FS_Subset
<1>5. /\ Cardinality(Feed!Newer(n)) <= Cardinality(Feed!Newer(n)')
      /\ Cardinality(Feed!Newer(n)) \in Nat /\ Cardinality(Feed!Newer(n)') \in Nat
  BY <1>4, FS_Subset, FS_CardinalityType
<1> QED BY <1>5, FeedParameters DEF Crowded

\* The answer to a query holds all there is, or there is a limit's worth of newer ones
\* to each that is left out.
LEMMA NewestOrCrowded ==
    ASSUME FeedTypes, NEW Q \in SUBSET Feed!Visible, NEW S \in Feed!Newest(Q), NEW n \in Q
    PROVE  S \subseteq Q /\ (n \in S \/ Crowded(n))
<1>1. /\ S \subseteq Q
      /\ Cardinality(S) = IF Cardinality(Q) < Limit THEN Cardinality(Q) ELSE Limit
      /\ \A m \in S, l \in Q \ S : notifications[m].at >= notifications[l].at
  BY FeedCardinality DEF Feed!Newest
<1>2. /\ IsFiniteSet(1..Len(notifications)) /\ Feed!Visible \subseteq 1..Len(notifications)
      /\ Feed!Newer(n) \subseteq 1..Len(notifications)
  <2>1. Feed!Visible \subseteq 1..Len(notifications) /\ Len(notifications) \in Nat
    BY FeedShapes
  <2>2. IsFiniteSet(1..Len(notifications))
    BY <2>1, FS_Interval
  <2> QED BY <2>1, <2>2 DEF Feed!Newer
<1>3. IsFiniteSet(Q) /\ IsFiniteSet(S) /\ IsFiniteSet(Feed!Newer(n))
  BY <1>1, <1>2, FS_Subset
<1>4. CASE Cardinality(Q) < Limit
  <2>1. S = Q
    BY <1>1, <1>3, <1>4, FS_Subset
  <2> QED BY <2>1
<1>5. CASE ~(Cardinality(Q) < Limit) /\ n \notin S
  <2>1. S \subseteq Feed!Newer(n)
    BY <1>1, <1>5 DEF Feed!Newer
  <2>2. Cardinality(S) = Limit /\ Cardinality(S) <= Cardinality(Feed!Newer(n))
    BY <1>1, <1>3, <1>5, <2>1, FS_Subset
  <2>3. Cardinality(Feed!Newer(n)) \in Nat
    BY <1>3, FS_CardinalityType
  <2> QED BY <1>1, <2>2, <2>3, FeedParameters DEF Crowded
<1> QED BY <1>1, <1>4, <1>5

LEMMA FeedInit == ASSUME Feed!Init PROVE FeedInv
<1>1. /\ now = 0 /\ notifications = <<>> /\ DOMAIN notifications = {} /\ Len(notifications) = 0
      /\ \A t \in Slots : ticks[t] = Feed!NoTick /\ ticks[t].pc = "none"
      /\ \A c \in Clients : clients[c] = Feed!NoClient
  BY DEF Feed!Init, Feed!NoTick
<1>2. /\ Feed!NoClient \in AnyClient /\ Feed!NoClient.first = 0 /\ Feed!NoClient.last = 0
      /\ Feed!NoClient.state = "new"
      /\ \A n \in 1..MaxNotifications : Feed!NoClient.news[n] = 0
  BY FeedParameters DEF Feed!NoClient, AnyClient
<1>3. FeedTypes
  BY <1>1, <1>2, FeedParameters, EmptySeq DEF FeedTypes, Feed!Init
<1>4. Answers /\ OneAnswer /\ AnswersAreWhole /\ NothingLost
  BY <1>1, <1>2 DEF Answers, OneAnswer, AnswersAreWhole, NothingLost, Feed!Asking
<1> QED BY <1>3, <1>4 DEF FeedInv

\* A tick goes on without asking or telling anyone.
LEMMA TickGoesOn ==
    ASSUME FeedInv, NEW t \in Slots, NEW v \in {Feed!NoTick} \cup AnyTick,
           v.pc # "deliver", v.pc = "next" => v.found = {},
           ticks' = [ticks EXCEPT ![t] = v],
           now' = now, notifications' = notifications, clients' = clients
    PROVE  FeedInv'
<1> USE DEF FeedInv
<1>1. FeedTypes'
  BY DEF FeedTypes
<1>2. /\ ticks'[t] = v /\ \A u \in Slots : u # t => ticks'[u] = ticks[u]
      /\ \A u \in Slots : ticks'[u].pc = "deliver" => u # t
  BY DEF FeedTypes
<1>3. \A c \in Clients : Feed!Asking(c)' \subseteq Feed!Asking(c)
  BY <1>2 DEF Feed!Asking
<1>4. Answers'
  BY <1>2, <1>3 DEF Answers, Feed!Visible
<1>5. OneAnswer'
  <2>1. \A c \in Clients : \A u \in Feed!Asking(c)' : u \in Slots /\ ticks'[u] = ticks[u]
    BY <1>2 DEF Feed!Asking
  <2> QED BY <1>3, <2>1 DEF OneAnswer
<1>6. AnswersAreWhole'
  BY <1>2 DEF AnswersAreWhole, Crowded, Feed!Newer, Feed!Visible
<1>7. NothingLost'
  BY DEF NothingLost, Crowded, Feed!Newer, Feed!Visible
<1> QED BY <1>1, <1>4, <1>5, <1>6, <1>7

LEMMA AskKeeps ==
    ASSUME FeedInv, NEW t \in Slots, NEW c \in Clients, Feed!Ask(t, c)
    PROVE  FeedInv'
<1> USE DEF FeedInv
<1> DEFINE Q == {n \in Feed!Visible : notifications[n].at > clients[c].last}
           b == clients[c].met \/ Feed!Asking(c) # {}
           k == [clients[c] EXCEPT !.met = b]
<1>1. PICK S \in Feed!Newest(Q) :
        ticks' = [ticks EXCEPT ![t] = [ticks[t] EXCEPT !.pc = "deliver",
                     !.todo = ticks[t].todo \ {c}, !.client = c, !.found = S, !.saw = Feed!Visible]]
  <2>1. ticks[t] \in AnyTick
    BY FeedShapes DEF Feed!Ask
  <2>2. [ticks[t] EXCEPT !.pc = "deliver"].todo = ticks[t].todo
    BY <2>1 DEF AnyTick
  <2> QED BY <2>2 DEF Feed!Ask
<1> DEFINE v == [ticks[t] EXCEPT !.pc = "deliver", !.todo = ticks[t].todo \ {c}, !.client = c,
                                 !.found = S, !.saw = Feed!Visible]
<1>2. /\ ticks[t].pc = "next" /\ clients[c].state = "open" /\ now' = now
      /\ notifications' = notifications
      /\ clients' = [clients EXCEPT ![c] = k]
  BY DEF Feed!Ask
<1>3. Feed!Visible \subseteq 1..MaxNotifications /\ Q \subseteq Feed!Visible
  BY FeedShapes
<1>4. S \subseteq Q /\ \A n \in Q : n \in S \/ Crowded(n)
  <2>1. S \subseteq Q
    BY DEF Feed!Newest
  <2>2. \A n \in Q : n \in S \/ Crowded(n)
    BY <1>3, NewestOrCrowded
  <2> QED BY <2>1, <2>2
<1>5. /\ v \in AnyTick /\ v.pc = "deliver" /\ v.client = c /\ v.found = S /\ v.saw = Feed!Visible
  <2>1. ticks[t] \in AnyTick
    BY <1>2, FeedShapes
  <2> HIDE DEF Q
  <2> QED BY <1>3, <1>4, <2>1 DEF AnyTick
<1>6. /\ k \in AnyClient /\ k.state = clients[c].state /\ k.last = clients[c].last
      /\ k.first = clients[c].first /\ k.news = clients[c].news /\ k.late = clients[c].late
      /\ k.met = b
  <2>1. b \in BOOLEAN /\ clients[c] \in AnyClient
    BY FeedShapes
  <2> HIDE DEF b
  <2> QED BY <2>1 DEF AnyClient
<1> HIDE DEF v, k
<1>7. /\ ticks' = [ticks EXCEPT ![t] = v]
      /\ ticks'[t] = v /\ \A u \in Slots : u # t => ticks'[u] = ticks[u]
  BY <1>1 DEF FeedTypes, v
<1>8. /\ clients'[c] = k /\ \A d \in Clients : d # c => clients'[d] = clients[d]
      /\ \A d \in Clients : /\ clients'[d].state = clients[d].state
                            /\ clients'[d].last = clients[d].last
                            /\ clients'[d].first = clients[d].first
                            /\ clients'[d].news = clients[d].news
                            /\ clients'[d].late = clients[d].late
  BY <1>2, <1>6 DEF FeedTypes
<1>9. /\ Feed!Asking(c)' = Feed!Asking(c) \cup {t}
      /\ \A d \in Clients : d # c => Feed!Asking(d)' = Feed!Asking(d)
  BY <1>2, <1>5, <1>7 DEF Feed!Asking
<1>10. FeedTypes'
  <2>1. clients' \in [Clients -> AnyClient]
    BY <1>2, <1>6 DEF FeedTypes
  <2>2. ticks' \in [Slots -> {Feed!NoTick} \cup AnyTick]
    BY <1>5, <1>7 DEF FeedTypes
  <2> QED BY <1>2, <1>8, <2>1, <2>2 DEF FeedTypes
<1>11. Answers'
  <2>1. \A u \in Slots : /\ ticks'[u].pc = "next" => ticks'[u].found = {}
                         /\ ticks'[u].pc = "deliver" =>
                               /\ ticks'[u].client \in Clients
                               /\ ticks'[u].found \subseteq ticks'[u].saw
                               /\ ticks'[u].saw \subseteq Feed!Visible
    BY <1>3, <1>4, <1>5, <1>7 DEF Answers
  <2>2. Feed!Visible' = Feed!Visible
    BY <1>2 DEF Feed!Visible
  <2>3. \A d \in Clients : clients'[d].state = "new" => Feed!Asking(d)' = {}
    BY <1>2, <1>8, <1>9 DEF Answers
  <2> QED BY <1>8, <2>1, <2>2, <2>3 DEF Answers
<1>12. OneAnswer'
  <2> SUFFICES ASSUME NEW d \in Clients, ~clients'[d].met
               PROVE  /\ \A u, w \in Feed!Asking(d)' : u = w
                      /\ \A n \in 1..MaxNotifications :
                            /\ clients[d].news[n] <= 1
                            /\ clients[d].news[n] = 1 =>
                                  n \in DOMAIN notifications /\ notifications[n].at <= clients[d].last
                      /\ \A u \in Feed!Asking(d)' : \A n \in ticks'[u].found :
                            notifications[n].at > clients[d].last
    BY <1>2, <1>8 DEF OneAnswer
  <2>1. CASE d = c
    <3>1. ~clients[c].met /\ Feed!Asking(c) = {}
      BY <1>6, <1>8, <2>1
    <3>2. Feed!Asking(c)' = {t}
      BY <1>9, <3>1
    <3> QED BY <1>4, <1>5, <1>7, <2>1, <3>1, <3>2 DEF OneAnswer
  <2>2. CASE d # c
    <3>1. ~clients[d].met /\ Feed!Asking(d)' = Feed!Asking(d)
      BY <1>8, <1>9, <2>2
    <3>2. \A u \in Feed!Asking(d) : ticks'[u] = ticks[u]
      BY <1>2, <1>7 DEF Feed!Asking
    <3> QED BY <3>1, <3>2 DEF OneAnswer
  <2> QED BY <2>1, <2>2
<1>13. AnswersAreWhole'
  <2> SUFFICES ASSUME NEW u \in Slots, ticks'[u].pc = "deliver", NEW n \in ticks'[u].saw,
                      notifications[n].at > clients[ticks'[u].client].last
               PROVE  n \in ticks'[u].found \/ Crowded(n)
    <3>1. \A u \in Slots : ticks'[u].pc = "deliver" => ticks'[u].client \in Clients
      BY <1>11 DEF Answers
    <3> QED BY <1>2, <1>8, <3>1 DEF AnswersAreWhole, Crowded, Feed!Newer, Feed!Visible
  <2>1. CASE u = t
    BY <1>4, <1>5, <1>7, <2>1
  <2>2. CASE u # t
    BY <1>7, <2>2 DEF AnswersAreWhole
  <2> QED BY <2>1, <2>2
<1>14. NothingLost'
  BY <1>2, <1>8 DEF NothingLost, Crowded, Feed!Newer, Feed!Visible
<1> QED BY <1>10, <1>11, <1>12, <1>13, <1>14

\* The answer reaches a client that is still there.
LEMMA TellKeeps ==
    ASSUME FeedInv, NEW t \in Slots, Feed!Deliver(t), clients[ticks[t].client].state = "open"
    PROVE  FeedInv'
<1> USE DEF FeedInv
<1>0. PICK c : c = ticks[t].client /\ clients[c].state = "open"
  OBVIOUS
<1> DEFINE found == ticks[t].found
           k == Feed!Told(c, t)
           v == Feed!Waiting(t)
<1>1. /\ ticks[t].pc = "deliver" /\ now' = now /\ notifications' = notifications
      /\ ticks' = [ticks EXCEPT ![t] = v] /\ clients' = [clients EXCEPT ![c] = k]
  BY <1>0 DEF Feed!Deliver
<1>2. c \in Clients /\ clients[c] \in AnyClient /\ ticks[t] \in AnyTick
  BY <1>0, <1>1, FeedShapes DEF Answers
<1>3. v \in AnyTick /\ v.pc = "next" /\ v.found = {}
  BY <1>2 DEF AnyTick, Feed!Waiting
<1>4. /\ k \in AnyClient /\ k.state = clients[c].state /\ k.last = now
      /\ k.first = clients[c].first /\ k.met = clients[c].met
      /\ \A n \in 1..MaxNotifications :
            k.news[n] = IF n \in found THEN clients[c].news[n] + 1 ELSE clients[c].news[n]
      /\ k.late = clients[c].late \cup
                    {n \in DOMAIN notifications \ ticks[t].saw : notifications[n].at <= now}
  <2> DEFINE news == [n \in 1..MaxNotifications |->
                        IF n \in found THEN clients[c].news[n] + 1 ELSE clients[c].news[n]]
             late == clients[c].late \cup
                       {n \in DOMAIN notifications \ ticks[t].saw : notifications[n].at <= now}
  <2>1. /\ news \in [1..MaxNotifications -> Nat] /\ late \in SUBSET (1..MaxNotifications)
        /\ now \in 0..MaxTime
    <3>1. \A n \in 1..MaxNotifications : clients[c].news[n] \in Nat
      BY <1>2, FeedShapes
    <3>2. clients[c].late \subseteq 1..MaxNotifications
      BY <1>2 DEF AnyClient
    <3> QED BY <3>1, <3>2, FeedShapes DEF FeedTypes
  <2>2. k = [clients[c] EXCEPT !.last = now, !.news = news, !.late = late]
    <3>1. DOMAIN clients[c].news = 1..MaxNotifications
      BY <1>2 DEF AnyClient
    <3>2. [clients[c] EXCEPT !.last = now].news = clients[c].news
      BY <1>2 DEF AnyClient
    <3>3. [clients[c] EXCEPT !.last = now, !.news = news].late = clients[c].late
      BY <1>2 DEF AnyClient
    <3> QED BY <3>1, <3>2, <3>3 DEF Feed!Told
  <2>3. \A r \in AnyClient : \A m \in [1..MaxNotifications -> Nat],
                                l \in SUBSET (1..MaxNotifications) :
          LET u == [r EXCEPT !.last = now, !.news = m, !.late = l]
          IN  /\ u \in AnyClient /\ u.state = r.state /\ u.last = now /\ u.first = r.first
              /\ u.met = r.met /\ u.news = m /\ u.late = l
    BY <2>1 DEF AnyClient
  <2>4. \A n \in 1..MaxNotifications :
          news[n] = IF n \in found THEN clients[c].news[n] + 1 ELSE clients[c].news[n]
    OBVIOUS
  <2> HIDE DEF k, news, late
  <2>5. /\ k \in AnyClient /\ k.state = clients[c].state /\ k.last = now
        /\ k.first = clients[c].first /\ k.met = clients[c].met /\ k.news = news /\ k.late = late
    <3>1. clients[c] \in AnyClient
      BY <1>2
    <3>2. LET u == [clients[c] EXCEPT !.last = now, !.news = news, !.late = late]
          IN  /\ u \in AnyClient /\ u.state = clients[c].state /\ u.last = now
              /\ u.first = clients[c].first /\ u.met = clients[c].met
              /\ u.news = news /\ u.late = late
      BY <2>1, <3>1 DEF AnyClient
    <3> QED BY <2>2, <3>2
  <2> QED BY <2>4, <2>5 DEF late
<1> HIDE DEF v, k
<1>5. /\ ticks'[t] = v /\ \A u \in Slots : u # t => ticks'[u] = ticks[u]
      /\ \A u \in Slots : ticks'[u].pc = "deliver" => u # t
  BY <1>1, <1>3 DEF FeedTypes
<1>6. clients'[c] = k /\ \A d \in Clients : d # c => clients'[d] = clients[d]
  BY <1>1, <1>2 DEF FeedTypes
<1>7. \A d \in Clients : Feed!Asking(d)' = Feed!Asking(d) \ {t}
  BY <1>3, <1>5 DEF Feed!Asking
<1>8. FeedTypes'
  <2>1. clients' \in [Clients -> AnyClient] /\ ticks' \in [Slots -> {Feed!NoTick} \cup AnyTick]
    BY <1>1, <1>3, <1>4 DEF FeedTypes
  <2>2. \A d \in Clients : clients'[d].first <= clients'[d].last /\ clients'[d].last <= now
    <3>1. clients[c].first <= now
      BY <1>2, FeedShapes
    <3> QED BY <1>4, <1>6, <3>1, FeedShapes
  <2> QED BY <1>1, <2>1, <2>2 DEF FeedTypes
<1>9. Feed!Visible' = Feed!Visible /\ \A n : (Crowded(n)' <=> Crowded(n))
  BY <1>1 DEF Feed!Visible, Crowded, Feed!Newer
<1>10. Answers'
  <2>1. \A d \in Clients : clients'[d].state = "new" => d # c
    BY <1>0, <1>4, <1>6
  <2> QED BY <1>3, <1>5, <1>6, <1>7, <1>9, <2>1 DEF Answers
<1>11. OneAnswer'
  <2> SUFFICES ASSUME NEW d \in Clients, ~clients'[d].met
               PROVE  /\ \A u, w \in Feed!Asking(d)' : u = w
                      /\ \A n \in 1..MaxNotifications :
                            /\ clients'[d].news[n] <= 1
                            /\ clients'[d].news[n] = 1 =>
                                  n \in DOMAIN notifications /\ notifications[n].at <= clients'[d].last
                      /\ \A u \in Feed!Asking(d)' : \A n \in ticks'[u].found :
                            notifications[n].at > clients'[d].last
    BY <1>1 DEF OneAnswer
  <2>1. \A u \in Feed!Asking(d)' : ticks'[u] = ticks[u]
    BY <1>5, <1>7 DEF Feed!Asking
  <2>2. CASE d # c
    BY <1>6, <1>7, <2>1, <2>2 DEF OneAnswer
  <2>3. CASE d = c
    <3>1. ~clients[c].met
      BY <1>4, <1>6, <2>3
    <3>2. t \in Feed!Asking(c)
      BY <1>0, <1>1 DEF Feed!Asking
    <3>3. Feed!Asking(c)' = {}
      <4>1. \A u \in Feed!Asking(c) : u = t
        BY <1>2, <3>1, <3>2 DEF OneAnswer
      <4>2. Feed!Asking(c)' = Feed!Asking(c) \ {t}
        BY <1>2, <1>7
      <4> QED BY <4>1, <4>2
    <3>4. \A n \in 1..MaxNotifications :
            /\ k.news[n] <= 1
            /\ k.news[n] = 1 => n \in DOMAIN notifications /\ notifications[n].at <= now
      <4> TAKE n \in 1..MaxNotifications
      <4>1. /\ clients[c].news[n] \in Nat /\ clients[c].last \in Nat /\ now \in Nat
            /\ clients[c].last <= now
        BY <1>2, FeedShapes
      <4>2. /\ clients[c].news[n] <= 1
            /\ clients[c].news[n] = 1 =>
                  n \in DOMAIN notifications /\ notifications[n].at <= clients[c].last
        BY <1>2, <3>1 DEF OneAnswer
      <4>3. n \in found => /\ notifications[n].at > clients[c].last
                           /\ n \in DOMAIN notifications
        BY <1>1, <1>2, <3>1, <3>2, FeedShapes DEF OneAnswer, Answers
      <4>4. n \in DOMAIN notifications => notifications[n].at \in Nat /\ notifications[n].at <= now
        BY FeedShapes
      <4>5. CASE n \in found
        <5>1. clients[c].news[n] = 0
          BY <4>1, <4>2, <4>3, <4>4, <4>5
        <5> QED BY <1>4, <4>3, <4>4, <4>5, <5>1
      <4>6. CASE n \notin found
        <5>1. k.news[n] = clients[c].news[n]
          BY <1>4, <4>6
        <5> QED BY <4>2, <4>4, <5>1
      <4> QED BY <4>5, <4>6
    <3>5. clients'[d] = k /\ Feed!Asking(d)' = {}
      BY <1>6, <2>3, <3>3
    <3> QED BY <1>4, <3>4, <3>5
  <2> QED BY <2>2, <2>3
<1>12. AnswersAreWhole'
  <2> SUFFICES ASSUME NEW u \in Slots, ticks'[u].pc = "deliver", NEW n \in ticks'[u].saw,
                      notifications[n].at > clients'[ticks'[u].client].last
               PROVE  n \in ticks'[u].found \/ Crowded(n)
    BY <1>1, <1>9 DEF AnswersAreWhole
  <2>1. u # t /\ ticks'[u] = ticks[u] /\ ticks[u].client \in Clients /\ n \in DOMAIN notifications
    BY <1>5, FeedShapes DEF Answers
  <2>2. ticks[u].client # c
    <3>1. notifications[n].at \in Nat /\ now \in Nat /\ notifications[n].at <= now
      BY <2>1, FeedShapes
    <3> QED BY <1>4, <1>6, <2>1, <3>1
  <2> QED BY <1>6, <2>1, <2>2 DEF AnswersAreWhole
<1>13. NothingLost'
  <2> SUFFICES ASSUME NEW d \in Clients, NEW n \in DOMAIN notifications,
                      clients'[d].first < notifications[n].at,
                      notifications[n].at <= clients'[d].last
               PROVE  \/ n \in clients'[d].late
                      \/ n \in Feed!Visible /\ (clients'[d].news[n] > 0 \/ Crowded(n))
    BY <1>1, <1>9 DEF NothingLost
  <2>1. CASE d # c
    BY <1>6, <2>1 DEF NothingLost
  <2>2. CASE d = c
    <3>1. /\ n \in 1..MaxNotifications /\ clients[c].news[n] \in Nat /\ clients[c].last \in Nat
          /\ notifications[n].at \in Nat /\ notifications[n].at <= now
      BY <1>2, FeedShapes
    <3>2. clients[c].first < notifications[n].at
      BY <1>4, <1>6, <2>2
    <3>3. CASE notifications[n].at <= clients[c].last
      <4>1. \/ n \in clients[c].late
            \/ n \in Feed!Visible /\ (clients[c].news[n] > 0 \/ Crowded(n))
        BY <1>2, <3>2, <3>3 DEF NothingLost
      <4>2. clients[c].news[n] > 0 => k.news[n] > 0
        BY <1>4, <3>1
      <4> QED BY <1>4, <1>6, <2>2, <4>1, <4>2
    <3>4. CASE notifications[n].at > clients[c].last /\ n \in ticks[t].saw
      <4>1. n \in Feed!Visible
        BY <1>1, <3>4 DEF Answers
      <4>2. n \in found \/ Crowded(n)
        BY <1>0, <1>1, <3>4 DEF AnswersAreWhole
      <4>3. n \in found => k.news[n] > 0
        BY <1>4, <3>1
      <4> QED BY <1>6, <2>2, <4>1, <4>2, <4>3
    <3>5. CASE n \notin ticks[t].saw
      BY <1>4, <1>6, <2>2, <3>1, <3>5
    <3> QED BY <3>1, <3>3, <3>4, <3>5
  <2> QED BY <2>1, <2>2
<1> QED BY <1>8, <1>10, <1>11, <1>12, <1>13

\* The notifications after a step: those that were there, as they were but for being
\* committed.
LEMMA RowsGrow ==
    ASSUME FeedInv, FeedTypes', ticks' = ticks, now' = now,
           DOMAIN notifications \subseteq DOMAIN notifications',
           Feed!Visible \subseteq Feed!Visible',
           \A n \in DOMAIN notifications : notifications'[n].at = notifications[n].at,
           \A c \in Clients : /\ clients'[c].state = clients[c].state
                              /\ clients'[c].last = clients[c].last
                              /\ clients'[c].first = clients[c].first
                              /\ clients'[c].news = clients[c].news
                              /\ clients'[c].met = clients[c].met
                              /\ clients[c].late \subseteq clients'[c].late,
           \A c \in Clients, n \in DOMAIN notifications' \ DOMAIN notifications :
              clients[c].first < notifications'[n].at /\ notifications'[n].at <= clients[c].last =>
                 n \in clients'[c].late
    PROVE  FeedInv'
<1> USE DEF FeedInv
<1>1. \A n \in DOMAIN notifications : Crowded(n) => Crowded(n)'
  <2> TAKE n \in DOMAIN notifications
  <2>1. \A m \in Feed!Newer(n) : m \in DOMAIN notifications /\ m \in Feed!Visible'
    BY FeedShapes DEF Feed!Newer
  <2>2. Feed!Newer(n) \subseteq Feed!Newer(n)'
    BY <2>1 DEF Feed!Newer
  <2> QED BY <2>2, CrowdedStays
<1>2. \A c : Feed!Asking(c)' = Feed!Asking(c)
  BY DEF Feed!Asking
<1>3. \A t \in Slots : ticks[t].pc = "deliver" =>
        /\ ticks[t].client \in Clients
        /\ ticks[t].found \subseteq DOMAIN notifications
        /\ ticks[t].saw \subseteq DOMAIN notifications
  BY FeedShapes DEF Answers
<1>4. Answers'
  BY <1>2 DEF Answers
<1>5. OneAnswer'
  <2> SUFFICES ASSUME NEW c \in Clients, ~clients[c].met
               PROVE  /\ \A t, u \in Feed!Asking(c) : t = u
                      /\ \A n \in 1..MaxNotifications :
                            /\ clients[c].news[n] <= 1
                            /\ clients[c].news[n] = 1 =>
                                  n \in DOMAIN notifications' /\ notifications'[n].at <= clients[c].last
                      /\ \A t \in Feed!Asking(c) : \A n \in ticks[t].found :
                            notifications'[n].at > clients[c].last
    BY <1>2 DEF OneAnswer
  <2>1. \A t \in Feed!Asking(c) : ticks[t].found \subseteq DOMAIN notifications
    BY <1>3 DEF Feed!Asking
  <2> QED BY <2>1 DEF OneAnswer
<1>6. AnswersAreWhole'
  BY <1>1, <1>3 DEF AnswersAreWhole
<1>7. NothingLost'
  <2> SUFFICES ASSUME NEW c \in Clients, NEW n \in DOMAIN notifications',
                      clients[c].first < notifications'[n].at,
                      notifications'[n].at <= clients[c].last
               PROVE  \/ n \in clients'[c].late
                      \/ n \in Feed!Visible' /\ (clients[c].news[n] > 0 \/ Crowded(n)')
    BY DEF NothingLost
  <2>1. CASE n \in DOMAIN notifications
    BY <1>1, <2>1 DEF NothingLost
  <2>2. CASE n \notin DOMAIN notifications
    BY <2>2
  <2> QED BY <2>1, <2>2
<1> QED BY <1>4, <1>5, <1>6, <1>7

LEMMA BeginRowKeeps == ASSUME FeedInv, Feed!BeginRow PROVE FeedInv'
<1> USE DEF FeedInv
<1> DEFINE row == [at |-> now, in |-> FALSE]
           new == Len(notifications) + 1
<1>1. /\ Len(notifications) < MaxNotifications /\ notifications' = Append(notifications, row)
      /\ now' = now /\ ticks' = ticks
      /\ clients' = [c \in Clients |->
             IF clients[c].last = now
             THEN [clients[c] EXCEPT !.late = clients[c].late \cup {new}] ELSE clients[c]]
  BY DEF Feed!BeginRow
<1>2. row \in AnyNotification /\ row.at = now /\ ~row.in
  BY DEF AnyNotification, FeedTypes
<1>3. /\ notifications' \in Seq(AnyNotification) /\ Len(notifications') = new
      /\ \A n \in 1..Len(notifications) : notifications'[n] = notifications[n]
      /\ notifications'[new] = row
  BY <1>1, <1>2, AppendProperties DEF FeedTypes
<1>4. /\ DOMAIN notifications = 1..Len(notifications) /\ DOMAIN notifications' = 1..new
      /\ new \in 1..MaxNotifications
  <2>1. DOMAIN notifications' = 1..new
    BY <1>3, LenProperties
  <2> QED BY <1>1, <2>1, FeedShapes, FeedParameters
<1>5. \A c \in Clients :
        /\ clients'[c] \in AnyClient
        /\ clients'[c].state = clients[c].state /\ clients'[c].last = clients[c].last
        /\ clients'[c].first = clients[c].first /\ clients'[c].news = clients[c].news
        /\ clients'[c].met = clients[c].met /\ clients[c].late \subseteq clients'[c].late
        /\ clients[c].last = now => new \in clients'[c].late
  <2> TAKE c \in Clients
  <2>1. clients[c] \in AnyClient
    BY FeedShapes
  <2>2. CASE clients[c].last = now
    <3>1. clients'[c] = [clients[c] EXCEPT !.late = clients[c].late \cup {new}]
      BY <1>1, <2>2
    <3>2. clients[c].late \cup {new} \in SUBSET (1..MaxNotifications)
      BY <1>4, <2>1 DEF AnyClient
    <3> HIDE DEF new
    <3> QED BY <2>1, <3>1, <3>2 DEF AnyClient
  <2>3. CASE clients[c].last # now
    BY <1>1, <2>1, <2>3
  <2> QED BY <2>2, <2>3
<1>6. FeedTypes'
  <2>1. clients' \in [Clients -> AnyClient]
    BY <1>1, <1>5
  <2>2. \A n \in 1..new : notifications'[n].at <= now
    BY <1>2, <1>3, FeedShapes
  <2> QED BY <1>1, <1>3, <1>4, <1>5, <2>1, <2>2 DEF FeedTypes
<1>7. Feed!Visible' = Feed!Visible
  BY <1>2, <1>3, <1>4, FeedShapes DEF Feed!Visible
<1>8. \A c \in Clients, n \in DOMAIN notifications' \ DOMAIN notifications :
         clients[c].first < notifications'[n].at /\ notifications'[n].at <= clients[c].last =>
            n \in clients'[c].late
  <2>1. \A n \in DOMAIN notifications' \ DOMAIN notifications : n = new
    BY <1>4, FeedShapes
  <2>2. \A c \in Clients : now <= clients[c].last => clients[c].last = now
    BY FeedShapes
  <2> HIDE DEF new, row
  <2> QED BY <1>2, <1>3, <1>5, <2>1, <2>2
<1>9. /\ DOMAIN notifications \subseteq DOMAIN notifications'
      /\ \A n \in DOMAIN notifications : notifications'[n].at = notifications[n].at
  BY <1>3, <1>4, FeedShapes
<1> HIDE DEF new, row
<1> QED BY <1>1, <1>5, <1>6, <1>7, <1>8, <1>9, RowsGrow

LEMMA CommitRowKeeps ==
    ASSUME FeedInv, NEW n \in DOMAIN notifications, Feed!CommitRow(n)
    PROVE  FeedInv'
<1> USE DEF FeedInv
<1> DEFINE row == [notifications[n] EXCEPT !.in = TRUE]
<1>1. /\ notifications' = [notifications EXCEPT ![n] = row]
      /\ now' = now /\ ticks' = ticks /\ clients' = clients
  BY DEF Feed!CommitRow
<1>2. row \in AnyNotification /\ row.at = notifications[n].at /\ row.in
  <2>1. notifications[n] \in AnyNotification
    BY FeedShapes
  <2> QED BY <2>1 DEF AnyNotification
<1> HIDE DEF row
<1>3. n \in 1..Len(notifications) /\ notifications \in Seq(AnyNotification)
  BY FeedShapes DEF FeedTypes
<1>4. /\ notifications' \in Seq(AnyNotification) /\ Len(notifications') = Len(notifications)
      /\ \A m \in 1..Len(notifications) :
            notifications'[m] = IF m = n THEN row ELSE notifications[m]
  BY <1>1, <1>2, <1>3, ExceptSeq
<1>5. DOMAIN notifications' = 1..Len(notifications) /\ DOMAIN notifications = 1..Len(notifications)
  BY <1>4, LenProperties, FeedShapes
<1>6. \A m \in DOMAIN notifications : notifications'[m].at = notifications[m].at
  BY <1>2, <1>4, <1>5
<1>7. Feed!Visible \subseteq Feed!Visible'
  BY <1>2, <1>4, <1>5 DEF Feed!Visible
<1>8. FeedTypes'
  BY <1>1, <1>4, <1>5, <1>6 DEF FeedTypes
<1> QED BY <1>1, <1>5, <1>6, <1>7, <1>8, RowsGrow

\* A client comes or goes.
LEMMA ConnectKeeps ==
    ASSUME FeedInv, NEW c \in Clients, Feed!Connect(c) \/ Feed!Disconnect(c)
    PROVE  FeedInv'
<1> USE DEF FeedInv
<1>1. /\ now' = now /\ ticks' = ticks /\ notifications' = notifications
      /\ \/ /\ clients[c].state = "new"
            /\ \E since \in 0..now :
                  clients' = [clients EXCEPT ![c] =
                     [clients[c] EXCEPT !.state = "open", !.last = since, !.first = since]]
         \/ /\ clients[c].state = "open"
            /\ clients' = [clients EXCEPT ![c] = [clients[c] EXCEPT !.state = "closed"]]
  <2>1. CASE Feed!Disconnect(c)
    BY <2>1 DEF Feed!Disconnect
  <2>2. CASE Feed!Connect(c)
    <3> DEFINE since == IF now > NotificationWindow THEN now - NotificationWindow ELSE 0
    <3>1. since \in 0..now
      BY FeedShapes, FeedParameters
    <3>2. /\ now' = now /\ ticks' = ticks /\ notifications' = notifications
          /\ clients[c].state = "new"
          /\ clients' = [clients EXCEPT ![c] =
                 [clients[c] EXCEPT !.state = "open", !.last = since, !.first = since]]
      BY <2>2 DEF Feed!Connect, FeedTypes
    <3> HIDE DEF since
    <3> QED BY <3>1, <3>2
  <2> QED BY <2>1, <2>2
<1>2. clients[c] \in AnyClient
  BY FeedShapes
<1>3. /\ clients' \in [Clients -> AnyClient] /\ \A d \in Clients : d # c => clients'[d] = clients[d]
      /\ clients'[c].state # "new" /\ clients'[c].met = clients[c].met
      /\ clients'[c].news = clients[c].news /\ clients'[c].late = clients[c].late
      /\ clients'[c].first <= clients'[c].last /\ clients'[c].last <= now
      /\ \/ clients'[c].first = clients[c].first /\ clients'[c].last = clients[c].last
         \/ clients[c].state = "new" /\ clients'[c].first = clients'[c].last
      /\ clients'[c].last \in Nat /\ clients'[c].first \in Nat
  <2>1. CASE clients' = [clients EXCEPT ![c] = [clients[c] EXCEPT !.state = "closed"]]
    <3>1. LET k == [clients[c] EXCEPT !.state = "closed"]
          IN  /\ k \in AnyClient /\ k.state = "closed" /\ k.met = clients[c].met
              /\ k.news = clients[c].news /\ k.late = clients[c].late
              /\ k.first = clients[c].first /\ k.last = clients[c].last
      BY <1>2 DEF AnyClient
    <3> QED BY <2>1, <3>1, FeedShapes DEF FeedTypes
  <2>2. ASSUME NEW since \in 0..now, clients[c].state = "new",
               clients' = [clients EXCEPT ![c] =
                  [clients[c] EXCEPT !.state = "open", !.last = since, !.first = since]]
        PROVE  /\ clients' \in [Clients -> AnyClient]
               /\ \A d \in Clients : d # c => clients'[d] = clients[d]
               /\ clients'[c].state # "new" /\ clients'[c].met = clients[c].met
               /\ clients'[c].news = clients[c].news /\ clients'[c].late = clients[c].late
               /\ clients'[c].first = since /\ clients'[c].last = since
    <3>1. since \in 0..MaxTime
      BY FeedParameters DEF FeedTypes
    <3>2. LET k == [clients[c] EXCEPT !.state = "open", !.last = since, !.first = since]
          IN  /\ k \in AnyClient /\ k.state = "open" /\ k.met = clients[c].met
              /\ k.news = clients[c].news /\ k.late = clients[c].late
              /\ k.first = since /\ k.last = since
      BY <1>2, <3>1 DEF AnyClient
    <3> QED BY <2>2, <3>2, FeedShapes DEF FeedTypes
  <2>3. \A since \in 0..now : since \in Nat /\ since <= now /\ since <= since
    BY FeedShapes
  <2> QED BY <1>1, <2>1, <2>2, <2>3
<1>4. FeedTypes'
  BY <1>1, <1>3 DEF FeedTypes
<1>5. /\ Feed!Visible' = Feed!Visible /\ \A d : Feed!Asking(d)' = Feed!Asking(d)
      /\ \A n : (Crowded(n)' <=> Crowded(n))
  BY <1>1 DEF Feed!Visible, Feed!Asking, Crowded, Feed!Newer
<1>6. Answers'
  <2>1. \A d \in Clients : clients'[d].state = "new" => clients'[d] = clients[d]
    BY <1>3
  <2>2. \A d \in Clients : clients'[d].state = "new" =>
          Feed!Asking(d)' = {} /\ \A n \in 1..MaxNotifications : clients'[d].news[n] = 0
    BY <1>5, <2>1 DEF Answers
  <2>3. \A t \in Slots : /\ ticks'[t].pc = "next" => ticks'[t].found = {}
                         /\ ticks'[t].pc = "deliver" =>
                               /\ ticks'[t].client \in Clients
                               /\ ticks'[t].found \subseteq ticks'[t].saw
                               /\ ticks'[t].saw \subseteq Feed!Visible'
    BY <1>1, <1>5 DEF Answers
  <2> QED BY <2>2, <2>3 DEF Answers
<1>7. clients[c].state = "new" =>
        Feed!Asking(c) = {} /\ \A n \in 1..MaxNotifications : clients[c].news[n] = 0
  BY DEF Answers
<1>8. OneAnswer'
  <2> SUFFICES ASSUME NEW d \in Clients, ~clients'[d].met
               PROVE  /\ \A t, u \in Feed!Asking(d) : t = u
                      /\ \A n \in 1..MaxNotifications :
                            /\ clients'[d].news[n] <= 1
                            /\ clients'[d].news[n] = 1 =>
                                  n \in DOMAIN notifications /\ notifications[n].at <= clients'[d].last
                      /\ \A t \in Feed!Asking(d) : \A n \in ticks[t].found :
                            notifications[n].at > clients'[d].last
    BY <1>1, <1>5 DEF OneAnswer
  <2>1. CASE clients'[d].last = clients[d].last
    BY <1>3, <2>1 DEF OneAnswer
  <2>2. CASE clients'[d].last # clients[d].last
    <3>1. d = c /\ clients[c].state = "new"
      BY <1>3, <2>2
    <3> QED BY <1>3, <1>7, <3>1
  <2> QED BY <2>1, <2>2
<1>9. AnswersAreWhole'
  <2>1. \A t \in Slots : ticks[t].pc = "deliver" =>
          /\ ticks[t].client \in Clients
          /\ clients'[ticks[t].client].last = clients[ticks[t].client].last
    BY <1>3, <1>7 DEF Answers, Feed!Asking
  <2> QED BY <1>1, <1>5, <2>1 DEF AnswersAreWhole
<1>10. NothingLost'
  <2> SUFFICES ASSUME NEW d \in Clients, NEW n \in DOMAIN notifications,
                      clients'[d].first < notifications[n].at,
                      notifications[n].at <= clients'[d].last
               PROVE  \/ n \in clients'[d].late
                      \/ n \in Feed!Visible /\ (clients'[d].news[n] > 0 \/ Crowded(n))
    BY <1>1, <1>5 DEF NothingLost
  <2>1. notifications[n].at \in Nat
    BY FeedShapes
  <2>2. clients'[d].first = clients[d].first /\ clients'[d].last = clients[d].last
    BY <1>3, <2>1
  <2> QED BY <1>3, <2>2 DEF NothingLost
<1> QED BY <1>4, <1>6, <1>8, <1>9, <1>10

LEMMA FeedNext ==
    ASSUME FeedInv, [Feed!Next]_Feed!vars
    PROVE  FeedInv'
<1> USE DEF FeedInv
<1>1. CASE UNCHANGED Feed!vars
  <2>1. now' = now /\ notifications' = notifications /\ ticks' = ticks /\ clients' = clients
    BY <1>1 DEF Feed!vars
  <2>2. /\ Feed!Visible' = Feed!Visible /\ \A c : Feed!Asking(c)' = Feed!Asking(c)
        /\ \A n : (Crowded(n)' <=> Crowded(n))
    BY <2>1 DEF Feed!Visible, Feed!Asking, Crowded, Feed!Newer
  <2>3. FeedTypes' /\ Answers'
    BY <2>1, <2>2 DEF FeedTypes, Answers
  <2>4. OneAnswer' /\ AnswersAreWhole' /\ NothingLost'
    BY <2>1, <2>2 DEF OneAnswer, AnswersAreWhole, NothingLost
  <2> QED BY <2>3, <2>4
<1>2. CASE Feed!Time
  <2>1. /\ now' = now + 1 /\ now' \in 0..MaxTime /\ ticks' = ticks /\ clients' = clients
        /\ notifications' = notifications
    BY <1>2, FeedShapes, FeedParameters DEF Feed!Time, FeedTypes
  <2>2. FeedTypes'
    BY <2>1, FeedShapes DEF FeedTypes
  <2> QED BY <2>1, <2>2
          DEF Answers, OneAnswer, AnswersAreWhole, NothingLost, Crowded, Feed!Newer, Feed!Visible,
              Feed!Asking
<1>3. ASSUME NEW t \in Slots, Feed!Start(t) PROVE FeedInv'
  <2> DEFINE v == [pc |-> "next", todo |-> Feed!OpenClients, client |-> Nobody, found |-> {},
                   saw |-> {}]
  <2>1. v \in AnyTick /\ v.pc = "next" /\ v.found = {}
    BY DEF AnyTick, Feed!OpenClients
  <2>2. /\ ticks' = [ticks EXCEPT ![t] = v] /\ now' = now /\ notifications' = notifications
        /\ clients' = clients
    BY <1>3 DEF Feed!Start
  <2> HIDE DEF v
  <2> QED BY <2>1, <2>2, TickGoesOn
<1>4. ASSUME NEW t \in Slots, NEW c \in Clients, Feed!Skip(t, c) PROVE FeedInv'
  <2> DEFINE v == [ticks[t] EXCEPT !.todo = ticks[t].todo \ {c}]
  <2>1. ticks[t] \in AnyTick /\ ticks[t].pc = "next" /\ ticks[t].found = {}
    BY <1>4, FeedShapes DEF Feed!Skip, Answers
  <2>2. v \in AnyTick /\ v.pc = "next" /\ v.found = {}
    BY <2>1 DEF AnyTick
  <2>3. /\ ticks' = [ticks EXCEPT ![t] = v] /\ now' = now /\ notifications' = notifications
        /\ clients' = clients
    BY <1>4 DEF Feed!Skip
  <2> HIDE DEF v
  <2> QED BY <2>2, <2>3, TickGoesOn
<1>5. ASSUME NEW t \in Slots, Feed!Finish(t) \/ Feed!TickFails(t) PROVE FeedInv'
  <2>1. Feed!NoTick.pc = "none"
    BY DEF Feed!NoTick
  <2> QED BY <1>5, <2>1, TickGoesOn DEF Feed!Finish, Feed!TickFails
<1>6. ASSUME NEW t \in Slots,
             \/ Feed!AskFails(t)
             \/ Feed!Deliver(t) /\ clients[ticks[t].client].state # "open"
      PROVE  FeedInv'
  <2>1. ticks[t] \in AnyTick
    BY <1>6, FeedShapes DEF Feed!AskFails, Feed!Deliver
  <2>2. /\ Feed!Waiting(t) \in AnyTick /\ Feed!Waiting(t).pc = "next"
        /\ Feed!Waiting(t).found = {}
    BY <2>1 DEF AnyTick, Feed!Waiting
  <2>3. /\ ticks' = [ticks EXCEPT ![t] = Feed!Waiting(t)] /\ now' = now
        /\ notifications' = notifications /\ clients' = clients
    BY <1>6 DEF Feed!AskFails, Feed!Deliver
  <2> QED BY <2>2, <2>3, TickGoesOn
<1>7. ASSUME NEW t \in Slots, Feed!Tick(t) PROVE FeedInv'
  <2>1. CASE Feed!Deliver(t)
    BY <1>6, <2>1, TellKeeps
  <2>2. ASSUME NEW c \in Clients, Feed!Skip(t, c) \/ Feed!Ask(t, c) PROVE FeedInv'
    BY <1>4, <2>2, AskKeeps
  <2>3. CASE Feed!Start(t)
    BY <1>3, <2>3
  <2>4. CASE Feed!Finish(t) \/ Feed!TickFails(t)
    BY <1>5, <2>4
  <2>5. CASE Feed!AskFails(t)
    BY <1>6, <2>5
  <2> QED BY <1>7, <2>1, <2>2, <2>3, <2>4, <2>5 DEF Feed!Tick
<1>8. CASE Feed!Environment
  BY <1>2, <1>8, BeginRowKeeps, CommitRowKeeps, ConnectKeeps DEF Feed!Environment
<1> QED BY <1>1, <1>7, <1>8 DEF Feed!Next, Feed!StartInVain

LEMMA FeedInvariance == Spec => []FeedInv
<1>1. Feed!Init => FeedInv
  BY FeedInit
<1>2. FeedInv /\ [Feed!Next]_Feed!vars => FeedInv'
  BY FeedNext
<1> QED BY <1>1, <1>2, FeedSpec, PTL DEF Feed!Spec

LEMMA FeedTypesHold == FeedInv => Feed!TypeOK
<1> SUFFICES ASSUME FeedInv
             PROVE  Feed!TypeOK
  OBVIOUS
<1>1. \A t \in Slots : ticks[t] # Feed!NoTick =>
        /\ ticks[t].pc \in {"next", "deliver"} /\ ticks[t].todo \subseteq Clients
        /\ ticks[t].found \subseteq DOMAIN notifications
  <2> SUFFICES ASSUME NEW t \in Slots, ticks[t] # Feed!NoTick
               PROVE  /\ ticks[t].pc \in {"next", "deliver"} /\ ticks[t].todo \subseteq Clients
                      /\ ticks[t].found \subseteq DOMAIN notifications
    OBVIOUS
  <2>1. ticks[t].pc \in {"next", "deliver"} /\ ticks[t].todo \subseteq Clients
    BY DEF FeedInv, FeedTypes, AnyTick
  <2>2. ticks[t].found \subseteq DOMAIN notifications
    BY <2>1, FeedShapes DEF FeedInv, Answers
  <2> QED BY <2>1, <2>2
<1>2. \A c \in Clients : /\ clients[c].state \in {"new", "open", "closed"}
                         /\ clients[c].first <= clients[c].last /\ clients[c].last <= now
  BY DEF FeedInv, FeedTypes, AnyClient
<1> QED BY <1>1, <1>2 DEF FeedInv, FeedTypes, AnyNotification, Feed!TypeOK

\* However ticks, failed queries and connections follow each other, a client is told
\* of a notification twice only if two ticks asked for it at once
\* (realtime-broadcaster.js: lastNotificationAt).
THEOREM ToldOnce == Spec => []AnnouncedOnce
<1>1. FeedInv => AnnouncedOnce
  <2> SUFFICES ASSUME FeedInv, NEW c \in Clients, NEW n \in 1..MaxNotifications,
                      clients[c].news[n] > 1, ~clients[c].met
               PROVE  FALSE
    BY DEF AnnouncedOnce, Feed!AnnouncedOnce
  <2>1. clients[c].news[n] <= 1 /\ clients[c].news[n] \in Nat
    BY FeedShapes DEF FeedInv, OneAnswer
  <2> QED BY <2>1
<1> QED BY <1>1, FeedInvariance, PTL

\* A notification that a client has behind it was announced to it, came too late for
\* any query, or was crowded out by a limit's worth of newer ones.
THEOREM NothingIsLost == Spec => []PassedOverWasAnnounced
<1>1. FeedInv => PassedOverWasAnnounced
  BY FeedShapes, FeedCardinality
  DEF FeedInv, NothingLost, Crowded, PassedOverWasAnnounced, Feed!PassedOverWasAnnounced
<1> QED BY <1>1, FeedInvariance, PTL
-----------------------------------------------------------------------------
(* Sanctions.                                                              *)

LEMMA SanctionParameters ==
    /\ Kinds \subseteq {"RENEW", "REVOKE", "NOTE"} /\ IsFiniteSet(Analysts)
    /\ MaxSanctions \in Nat /\ MaxFailures \in Nat
<1>1. Sanction!SanctionConstants
  BY PartsConstants
<1>2. Sanction!IsFiniteSet(Analysts) => IsFiniteSet(Analysts)
  BY DEF Sanction!IsFiniteSet, IsFiniteSet
<1> QED BY <1>1, <1>2 DEF Sanction!SanctionConstants

LEMMA SanctionNames ==
    /\ \A S : Sanction!Cardinality(S) = Cardinality(S)
    /\ \A s : Sanction!ToSet(s) = ToSet(s)
<1>1. \A S : Sanction!Cardinality(S) = Cardinality(S)
  BY DEF Sanction!Cardinality, Cardinality
<1>2. \A s : Sanction!ToSet(s) = ToSet(s)
  BY DEF Sanction!ToSet, ToSet
<1> QED BY <1>1, <1>2

LEMMA SanctionShapes ==
    ASSUME SanctionTypes
    PROVE  /\ Len(sanctions) \in Nat /\ DOMAIN sanctions = 1..Len(sanctions)
           /\ \A i \in DOMAIN sanctions :
                 /\ sanctions[i] \in AnySanction
                 /\ sanctions[i].trail \in Seq(Kinds \cup {"CREATE"})
                 /\ Len(sanctions[i].trail) \in Nat
                 /\ DOMAIN sanctions[i].trail = 1..Len(sanctions[i].trail)
           /\ \A r \in Analysts : requests[r] \in AnyRequest
           /\ \A i \in 1..MaxSanctions : lost[i] \in Nat
<1>1. /\ Len(sanctions) \in Nat /\ DOMAIN sanctions = 1..Len(sanctions)
      /\ \A i \in DOMAIN sanctions : sanctions[i] \in AnySanction
  BY LenProperties DEF SanctionTypes
<1>2. \A i \in DOMAIN sanctions : sanctions[i].trail \in Seq(Kinds \cup {"CREATE"})
  BY <1>1 DEF AnySanction
<1>3. \A i \in DOMAIN sanctions : /\ Len(sanctions[i].trail) \in Nat
                                  /\ DOMAIN sanctions[i].trail = 1..Len(sanctions[i].trail)
  BY <1>2, LenProperties
<1>4. \A r \in Analysts : requests[r] \in AnyRequest
  BY DEF SanctionTypes
<1>5. \A i \in 1..MaxSanctions : lost[i] \in Nat
  BY DEF SanctionTypes
<1> QED BY <1>1, <1>2, <1>3, <1>4, <1>5

\* What is counted can be.
LEMMA SanctionSets ==
    ASSUME SanctionTypes
    PROVE  /\ IsFiniteSet(Renewing) /\ Cardinality(Renewing) \in Nat
           /\ \A i : /\ IsFiniteSet(Recording(i)) /\ Cardinality(Recording(i)) \in Nat
                     /\ IsFiniteSet(Sanction!On(i)) /\ Cardinality(Sanction!On(i)) \in Nat
                     /\ Cardinality(Recording(i)) <= Cardinality(Sanction!On(i))
                     /\ IsFiniteSet(Sanction!Successors(i))
                     /\ Cardinality(Sanction!Successors(i)) \in Nat
           /\ \A i \in DOMAIN sanctions : /\ IsFiniteSet(Sanction!Renewals(i))
                                          /\ Cardinality(Sanction!Renewals(i)) \in Nat
<1>1. IsFiniteSet(Analysts)
  BY SanctionParameters
<1>2. IsFiniteSet(Renewing)
  BY <1>1, FS_Subset DEF Renewing
<1>3. ASSUME NEW i
      PROVE  /\ IsFiniteSet(Recording(i)) /\ IsFiniteSet(Sanction!On(i))
             /\ Cardinality(Recording(i)) <= Cardinality(Sanction!On(i))
  <2>1. Sanction!On(i) \in SUBSET Analysts /\ Recording(i) \in SUBSET Sanction!On(i)
    BY DEF Sanction!On, Recording
  <2>2. IsFiniteSet(Sanction!On(i))
    BY <1>1, <2>1, FS_Subset
  <2> QED BY <2>1, <2>2, FS_Subset
<1>4. ASSUME NEW i PROVE IsFiniteSet(Sanction!Successors(i))
  <2>1. IsFiniteSet(1..Len(sanctions))
    BY SanctionShapes, FS_Interval
  <2>2. Sanction!Successors(i) \in SUBSET (1..Len(sanctions))
    BY SanctionShapes DEF Sanction!Successors
  <2> QED BY <2>1, <2>2, FS_Subset
<1>5. ASSUME NEW i \in DOMAIN sanctions PROVE IsFiniteSet(Sanction!Renewals(i))
  <2>0. Len(sanctions[i].trail) \in Nat
    BY SanctionShapes
  <2>1. IsFiniteSet(1..Len(sanctions[i].trail))
    BY <2>0, FS_Interval
  <2>2. Sanction!Renewals(i) \in SUBSET (1..Len(sanctions[i].trail))
    BY SanctionShapes DEF Sanction!Renewals
  <2> QED BY <2>1, <2>2, FS_Subset
<1> QED BY <1>2, <1>3, <1>4, <1>5, FS_CardinalityType

\* A request takes a step.
LEMMA RequestMoves ==
    ASSUME SanctionTypes, NEW r \in Analysts, NEW q \in AnyRequest,
           requests' = [requests EXCEPT ![r] = q]
    PROVE  /\ requests' \in [Analysts -> AnyRequest] /\ requests'[r] = q
           /\ \A p \in Analysts : p # r => requests'[p] = requests[p]
           /\ Renewing' = IF q.step \in {"status", "successor"} /\ q.kind = "RENEW"
                          THEN Renewing \cup {r} ELSE Renewing \ {r}
           /\ \A i : Recording(i)' =
                 IF q.sanction = i /\ q.step = "action" /\ q.kind = "RENEW"
                 THEN Recording(i) \cup {r} ELSE Recording(i) \ {r}
           /\ \A i : Deciding(i)' =
                 IF /\ q.sanction = i
                    /\ \/ q.step = "successor"
                       \/ q.step = "action" /\ q.kind \in {"RENEW", "REVOKE"}
                 THEN Deciding(i) \cup {r} ELSE Deciding(i) \ {r}
<1>1. /\ requests' \in [Analysts -> AnyRequest] /\ requests'[r] = q
      /\ \A p \in Analysts : p # r => requests'[p] = requests[p]
  BY DEF SanctionTypes
<1>2. Renewing' = IF q.step \in {"status", "successor"} /\ q.kind = "RENEW"
                  THEN Renewing \cup {r} ELSE Renewing \ {r}
  BY <1>1 DEF Renewing
<1>3. \A i : Recording(i)' = IF q.sanction = i /\ q.step = "action" /\ q.kind = "RENEW"
                             THEN Recording(i) \cup {r} ELSE Recording(i) \ {r}
  BY <1>1 DEF Recording
<1>4. \A i : Deciding(i)' =
         IF /\ q.sanction = i
            /\ \/ q.step = "successor"
               \/ q.step = "action" /\ q.kind \in {"RENEW", "REVOKE"}
         THEN Deciding(i) \cup {r} ELSE Deciding(i) \ {r}
  BY <1>1 DEF Deciding
<1> QED BY <1>1, <1>2, <1>3, <1>4

\* A sanction is made: n, the successor of k or of none.
LEMMA SanctionMade ==
    ASSUME SanctionInv, NEW k \in 0..Len(sanctions), Len(sanctions) < MaxSanctions,
           NEW n, n = Len(sanctions) + 1,
           sanctions' = Append(sanctions, Sanction!Fresh(k))
    PROVE  /\ sanctions' \in Seq(AnySanction) /\ Len(sanctions') = n
           /\ DOMAIN sanctions' = 1..n /\ n \in Nat \ DOMAIN sanctions
           /\ \A i \in DOMAIN sanctions : sanctions'[i] = sanctions[i]
           /\ sanctions'[n] = Sanction!Fresh(k)
           /\ \A j \in DOMAIN sanctions' : sanctions'[j].renews < j
           /\ \A i \in DOMAIN sanctions : Sanction!Renewals(i)' = Sanction!Renewals(i)
           /\ \A i \in DOMAIN sanctions :
                 Sanction!Successors(i)' = IF i = k THEN Sanction!Successors(i) \cup {n}
                                           ELSE Sanction!Successors(i)
           /\ Sanction!Renewals(n)' = {} /\ Sanction!Successors(n)' = {} /\ Undecided(n)'
<1> USE DEF SanctionInv
<1> DEFINE s == Sanction!Fresh(k)
<1>1. Len(sanctions) \in Nat /\ DOMAIN sanctions = 1..Len(sanctions)
  BY SanctionShapes
<1>2. /\ s \in AnySanction /\ s.status = "ACTIVE" /\ s.renews = k /\ s.trail = <<>>
  <2>1. <<>> \in Seq(Kinds \cup {"CREATE"})
    BY EmptySeq
  <2>2. k \in 0..MaxSanctions
    BY <1>1, SanctionParameters
  <2> QED BY <2>1, <2>2 DEF Sanction!Fresh, AnySanction
<1> HIDE DEF s
<1>3. /\ sanctions' \in Seq(AnySanction) /\ Len(sanctions') = n
      /\ \A i \in 1..Len(sanctions) : sanctions'[i] = sanctions[i]
      /\ sanctions'[n] = s
  <2>1. sanctions' = Append(sanctions, s) /\ sanctions \in Seq(AnySanction)
    BY DEF s, SanctionTypes
  <2> QED BY <1>2, <2>1, AppendProperties
<1>4. DOMAIN sanctions' = 1..n /\ n \in Nat \ DOMAIN sanctions
  BY <1>1, <1>3, LenProperties
<1>5. \A j \in DOMAIN sanctions : sanctions[j].renews < j /\ sanctions[j].renews \in Int
  BY SanctionShapes DEF AtWork, AnySanction
<1>6. \A j \in DOMAIN sanctions' : sanctions'[j].renews < j
  BY <1>1, <1>2, <1>3, <1>4, <1>5
<1>7. \A i \in DOMAIN sanctions : Sanction!Renewals(i)' = Sanction!Renewals(i)
  BY <1>1, <1>3 DEF Sanction!Renewals
<1>8. /\ Sanction!Renewals(n)' = {} /\ Undecided(n)'
  <2>1. sanctions'[n].trail = <<>> /\ DOMAIN <<>> = {}
    BY <1>2, <1>3
  <2>2. Sanction!Renewals(n)' = {}
    BY <2>1 DEF Sanction!Renewals
  <2>3. ToSet(<<>>) = {}
    BY DEF ToSet
  <2> QED BY <2>1, <2>2, <2>3 DEF Undecided
<1>9. \A i \in DOMAIN sanctions :
        Sanction!Successors(i)' = IF i = k THEN Sanction!Successors(i) \cup {n}
                                  ELSE Sanction!Successors(i)
  BY <1>1, <1>2, <1>3, <1>4 DEF Sanction!Successors
<1>10. Sanction!Successors(n)' = {}
  <2>1. \A j \in DOMAIN sanctions' : sanctions'[j].renews # n
    BY <1>1, <1>2, <1>3, <1>4, <1>5
  <2> QED BY <2>1 DEF Sanction!Successors
<1> QED BY <1>1, <1>3, <1>4, <1>6, <1>7, <1>8, <1>9, <1>10 DEF s

\* A sanction is updated.
LEMMA SanctionUpdated ==
    ASSUME SanctionTypes, NEW i \in DOMAIN sanctions, NEW s \in AnySanction,
           sanctions' = [sanctions EXCEPT ![i] = s], s.renews = sanctions[i].renews
    PROVE  /\ sanctions' \in Seq(AnySanction) /\ Len(sanctions') = Len(sanctions)
           /\ DOMAIN sanctions' = DOMAIN sanctions /\ sanctions'[i] = s
           /\ \A j \in DOMAIN sanctions : j # i => sanctions'[j] = sanctions[j]
           /\ \A j : Sanction!Successors(j)' = Sanction!Successors(j)
           /\ \A j \in DOMAIN sanctions : sanctions'[j].renews = sanctions[j].renews
<1>1. i \in 1..Len(sanctions) /\ sanctions \in Seq(AnySanction)
  BY SanctionShapes DEF SanctionTypes
<1>2. /\ sanctions' \in Seq(AnySanction) /\ Len(sanctions') = Len(sanctions)
      /\ \A j \in 1..Len(sanctions) : sanctions'[j] = IF j = i THEN s ELSE sanctions[j]
  BY <1>1, ExceptSeq
<1>3. DOMAIN sanctions' = DOMAIN sanctions /\ DOMAIN sanctions = 1..Len(sanctions)
  BY <1>2, LenProperties, SanctionShapes
<1>4. \A j \in DOMAIN sanctions : sanctions'[j].renews = sanctions[j].renews
  BY <1>2, <1>3
<1>5. \A j : Sanction!Successors(j)' = Sanction!Successors(j)
  BY <1>3, <1>4 DEF Sanction!Successors
<1> QED BY <1>1, <1>2, <1>3, <1>4, <1>5

\* Nobody is at work on a sanction that is not there, and who is idle on none.
LEMMA SanctionRest ==
    ASSUME SanctionInv
    PROVE  /\ \A n \in Nat \ DOMAIN sanctions : Recording(n) = {} /\ Deciding(n) = {}
           /\ \A r \in Analysts : requests[r] = Sanction!Idle =>
                 /\ r \notin Renewing
                 /\ \A i : r \notin Recording(i) /\ r \notin Deciding(i)
<1>1. \A r \in Analysts : requests[r].step # "none" => requests[r].sanction \in DOMAIN sanctions
  BY DEF SanctionInv, AtWork
<1>2. ASSUME NEW n \in Nat \ DOMAIN sanctions PROVE Recording(n) = {} /\ Deciding(n) = {}
  BY <1>1 DEF Recording, Deciding
<1>3. ASSUME NEW r \in Analysts, requests[r] = Sanction!Idle
      PROVE  r \notin Renewing /\ \A i : r \notin Recording(i) /\ r \notin Deciding(i)
  BY <1>3 DEF Sanction!Idle, Renewing, Recording, Deciding
<1> QED BY <1>2, <1>3

\* When the accounts of a sanction say the same of it again.
LEMMA SameAccount ==
    ASSUME NEW i, Accounted(i), sanctions'[i] = sanctions[i], lost'[i] = lost[i],
           Sanction!Renewals(i)' = Sanction!Renewals(i), Recording(i)' = Recording(i),
           Sanction!Successors(i)' = Sanction!Successors(i), Deciding(i)' = Deciding(i)
    PROVE  Accounted(i)'
<1>1. Undecided(i)' <=> Undecided(i)
  BY DEF Undecided
<1> QED BY <1>1 DEF Accounted

\* What a step has to keep, for the one that takes it and for the accounts.
LEMMA SanctionStep ==
    ASSUME SanctionInv, NEW r \in Analysts, NEW q \in AnyRequest,
           requests' = [requests EXCEPT ![r] = q],
           lost' \in [1..MaxSanctions -> 0..MaxFailures],
           sanctions' \in Seq(AnySanction), DOMAIN sanctions \subseteq DOMAIN sanctions',
           q.step = "none" => q = Sanction!Idle,
           q.step # "none" => q.sanction \in DOMAIN sanctions' /\ q.kind # "none",
           q.step = "status" => q.kind \in {"RENEW", "REVOKE"},
           q.step = "successor" => q.kind = "RENEW",
           \A j \in DOMAIN sanctions' : sanctions'[j].renews < j,
           Len(sanctions') + Cardinality(Renewing') <= MaxSanctions,
           \A i \in DOMAIN sanctions' : Accounted(i)'
    PROVE  SanctionInv'
<1>1. /\ requests' \in [Analysts -> AnyRequest] /\ requests'[r] = q
      /\ \A p \in Analysts : p # r => requests'[p] = requests[p]
  BY RequestMoves DEF SanctionInv
<1>2. SanctionTypes'
  BY <1>1 DEF SanctionTypes
<1>3. ASSUME NEW p \in Analysts
      PROVE  /\ requests'[p].step = "none" => requests'[p] = Sanction!Idle
             /\ requests'[p].step # "none" =>
                   requests'[p].sanction \in DOMAIN sanctions' /\ requests'[p].kind # "none"
             /\ requests'[p].step = "status" => requests'[p].kind \in {"RENEW", "REVOKE"}
             /\ requests'[p].step = "successor" => requests'[p].kind = "RENEW"
  <2>1. CASE p = r
    BY <1>1, <2>1
  <2>2. CASE p # r
    BY <1>1, <2>2 DEF SanctionInv, AtWork
  <2> QED BY <2>1, <2>2
<1>4. AtWork'
  BY <1>3 DEF AtWork, Sanction!Idle
<1>5. RoomForRenewals'
  BY DEF RoomForRenewals
<1>6. AllAccounted'
  BY DEF AllAccounted
<1> QED BY <1>2, <1>4, <1>5, <1>6 DEF SanctionInv

LEMMA SanctionInit == Sanction!Init => SanctionInv
<1> SUFFICES ASSUME Sanction!Init
             PROVE  SanctionInv
  OBVIOUS
<1>1. sanctions = <<>> /\ requests = [r \in Analysts |-> Sanction!Idle]
      /\ lost = [i \in 1..MaxSanctions |-> 0]
  BY DEF Sanction!Init
<1>2. SanctionTypes
  <2>1. Sanction!Idle \in AnyRequest
    BY SanctionParameters DEF Sanction!Idle, AnyRequest
  <2> QED BY <1>1, <2>1, EmptySeq, SanctionParameters DEF SanctionTypes
<1>3. DOMAIN sanctions = {} /\ Len(sanctions) = 0
  BY <1>1, EmptySeq
<1>4. Renewing = {} /\ AtWork
  BY <1>1, <1>3 DEF Renewing, AtWork, Sanction!Idle
<1>5. RoomForRenewals
  BY <1>3, <1>4, FS_EmptySet, SanctionParameters DEF RoomForRenewals
<1>6. AllAccounted
  BY <1>3 DEF AllAccounted
<1> QED BY <1>2, <1>4, <1>5, <1>6 DEF SanctionInv

LEMMA CreateKeeps ==
    ASSUME SanctionInv, NEW r \in Analysts, Sanction!Create(r)
    PROVE  SanctionInv'
<1>1. /\ requests[r] = Sanction!Idle /\ sanctions' = Append(sanctions, Sanction!Fresh(0))
      /\ lost' = lost /\ Len(sanctions) + Cardinality(Renewing) < MaxSanctions
  BY SanctionNames DEF Sanction!Create, Sanction!RoomForAnother, Renewing
<1>2. /\ Len(sanctions) \in Nat /\ Cardinality(Renewing) \in Nat /\ MaxSanctions \in Nat
      /\ SanctionTypes /\ DOMAIN sanctions = 1..Len(sanctions)
  BY SanctionShapes, SanctionSets, SanctionParameters DEF SanctionInv
<1> DEFINE q == [step |-> "action", kind |-> "CREATE", sanction |-> Len(sanctions) + 1]
<1>3. PICK n : n = Len(sanctions) + 1
  OBVIOUS
<1>4. q \in AnyRequest /\ requests' = [requests EXCEPT ![r] = q]
  BY <1>1, <1>2 DEF Sanction!Create, AnyRequest
<1>5. q.step = "action" /\ q.kind = "CREATE" /\ q.sanction = n
  BY <1>3
<1> HIDE DEF q
<1>6. /\ sanctions' \in Seq(AnySanction) /\ Len(sanctions') = n
      /\ DOMAIN sanctions' = 1..n /\ n \in Nat \ DOMAIN sanctions
      /\ \A i \in DOMAIN sanctions : sanctions'[i] = sanctions[i]
      /\ sanctions'[n] = Sanction!Fresh(0)
      /\ \A j \in DOMAIN sanctions' : sanctions'[j].renews < j
      /\ \A i \in DOMAIN sanctions : Sanction!Renewals(i)' = Sanction!Renewals(i)
      /\ \A i \in DOMAIN sanctions :
            Sanction!Successors(i)' = IF i = 0 THEN Sanction!Successors(i) \cup {n}
                                      ELSE Sanction!Successors(i)
      /\ Sanction!Renewals(n)' = {} /\ Sanction!Successors(n)' = {} /\ Undecided(n)'
  <2>1. 0 \in 0..Len(sanctions) /\ Len(sanctions) < MaxSanctions
    BY <1>1, <1>2
  <2> QED BY <1>1, <1>3, <2>1, SanctionMade
<1>7. Renewing' = Renewing /\ \A i : Recording(i)' = Recording(i) /\ Deciding(i)' = Deciding(i)
  <2>1. r \notin Renewing /\ \A i : r \notin Recording(i) /\ r \notin Deciding(i)
    BY <1>1, SanctionRest
  <2>2. Renewing' = Renewing \ {r}
    BY <1>2, <1>4, <1>5, RequestMoves
  <2>3. \A i : Recording(i)' = Recording(i) \ {r}
    BY <1>2, <1>4, <1>5, RequestMoves
  <2>4. \A i : Deciding(i)' = Deciding(i) \ {r}
    BY <1>2, <1>4, <1>5, RequestMoves
  <2> QED BY <2>1, <2>2, <2>3, <2>4
<1>8. ASSUME NEW i \in DOMAIN sanctions PROVE Accounted(i)'
  BY <1>1, <1>2, <1>6, <1>7, <1>8, SameAccount DEF SanctionInv, AllAccounted
<1>9. Accounted(n)'
  <2>1. Recording(n)' = {} /\ Deciding(n)' = {}
    BY <1>6, <1>7, SanctionRest
  <2>2. lost'[n] \in Nat
    BY <1>1, <1>2, <1>3, SanctionShapes
  <2> QED BY <1>6, <2>1, <2>2, FS_EmptySet DEF Accounted, Sanction!Fresh
<1>10. \A i \in DOMAIN sanctions' : Accounted(i)'
  BY <1>2, <1>3, <1>6, <1>8, <1>9
<1>11. Len(sanctions') + Cardinality(Renewing') <= MaxSanctions
  BY <1>1, <1>2, <1>3, <1>6, <1>7
<1>12. lost' \in [1..MaxSanctions -> 0..MaxFailures]
  BY <1>1, <1>2 DEF SanctionTypes
<1>13. /\ q.step \notin {"none", "status", "successor"} /\ q.kind # "none"
       /\ q.sanction \in DOMAIN sanctions' /\ DOMAIN sanctions \subseteq DOMAIN sanctions'
  BY <1>2, <1>3, <1>5, <1>6
<1> QED BY <1>4, <1>6, <1>10, <1>11, <1>12, <1>13, SanctionStep

LEMMA InsertSuccessorKeeps ==
    ASSUME SanctionInv, NEW r \in Analysts, Sanction!InsertSuccessor(r)
    PROVE  SanctionInv'
<1>1. /\ requests[r].step = "successor" /\ lost' = lost
      /\ sanctions' = Append(sanctions, Sanction!Fresh(requests[r].sanction))
      /\ requests' = [requests EXCEPT ![r].step = "action"]
  BY DEF Sanction!InsertSuccessor, Sanction!At
<1>2. PICK k : k = requests[r].sanction
  OBVIOUS
<1>3. /\ requests[r].kind = "RENEW" /\ k \in DOMAIN sanctions /\ requests[r] \in AnyRequest
      /\ Len(sanctions) \in Nat /\ Cardinality(Renewing) \in Nat /\ MaxSanctions \in Nat
      /\ SanctionTypes /\ DOMAIN sanctions = 1..Len(sanctions)
      /\ Len(sanctions) + Cardinality(Renewing) <= MaxSanctions
  <2>1. SanctionTypes /\ AtWork /\ RoomForRenewals
    BY DEF SanctionInv
  <2>2. /\ Len(sanctions) \in Nat /\ DOMAIN sanctions = 1..Len(sanctions)
        /\ requests[r] \in AnyRequest
    BY <2>1, SanctionShapes
  <2>3. Cardinality(Renewing) \in Nat
    BY <2>1, SanctionSets
  <2> QED BY <1>1, <1>2, <2>1, <2>2, <2>3, SanctionParameters DEF AtWork, RoomForRenewals
<1> DEFINE q == [requests[r] EXCEPT !.step = "action"]
<1>4. q \in AnyRequest /\ requests' = [requests EXCEPT ![r] = q]
  BY <1>1, <1>3 DEF AnyRequest
<1>5. q.step = "action" /\ q.kind = "RENEW" /\ q.sanction = k
  BY <1>2, <1>3 DEF AnyRequest
<1> HIDE DEF q
<1>6. PICK n : n = Len(sanctions) + 1
  OBVIOUS
<1>7. Cardinality(Renewing') = Cardinality(Renewing) - 1 /\ Cardinality(Renewing') \in Nat
  <2>1. Renewing' = Renewing \ {r}
    BY <1>3, <1>4, <1>5, RequestMoves
  <2>2. r \in Renewing
    BY <1>1, <1>3 DEF Renewing
  <2>3. IsFiniteSet(Renewing)
    BY <1>3, SanctionSets
  <2>4. /\ Cardinality(Renewing \ {r}) = Cardinality(Renewing) - 1
        /\ IsFiniteSet(Renewing \ {r})
    BY <2>2, <2>3, FS_RemoveElement
  <2> QED BY <2>1, <2>4, FS_CardinalityType
<1>8. /\ sanctions' \in Seq(AnySanction) /\ Len(sanctions') = n
      /\ DOMAIN sanctions' = 1..n /\ n \in Nat \ DOMAIN sanctions
      /\ \A i \in DOMAIN sanctions : sanctions'[i] = sanctions[i]
      /\ sanctions'[n] = Sanction!Fresh(k)
      /\ \A j \in DOMAIN sanctions' : sanctions'[j].renews < j
      /\ \A i \in DOMAIN sanctions : Sanction!Renewals(i)' = Sanction!Renewals(i)
      /\ \A i \in DOMAIN sanctions :
            Sanction!Successors(i)' = IF i = k THEN Sanction!Successors(i) \cup {n}
                                      ELSE Sanction!Successors(i)
      /\ Sanction!Renewals(n)' = {} /\ Sanction!Successors(n)' = {} /\ Undecided(n)'
  <2>1. k \in 0..Len(sanctions) /\ Len(sanctions) < MaxSanctions
    BY <1>3, <1>7
  <2>2. sanctions' = Append(sanctions, Sanction!Fresh(k))
    BY <1>1, <1>2
  <2> QED BY <1>6, <2>1, <2>2, SanctionMade
<1>9. /\ Recording(k)' = Recording(k) \cup {r} /\ r \notin Recording(k)
      /\ Deciding(k)' = Deciding(k) /\ Deciding(k) # {}
      /\ \A i : i # k => Recording(i)' = Recording(i) /\ Deciding(i)' = Deciding(i)
  <2>1. /\ \A i : r \notin Recording(i) /\ (r \in Deciding(i) <=> i = k)
    BY <1>1, <1>2 DEF Recording, Deciding
  <2>2. requests' = [requests EXCEPT ![r] = q] /\ q \in AnyRequest /\ SanctionTypes
    BY <1>3, <1>4
  <2>3. \A i : Recording(i)' = IF q.sanction = i /\ q.step = "action" /\ q.kind = "RENEW"
                               THEN Recording(i) \cup {r} ELSE Recording(i) \ {r}
    BY <2>2, RequestMoves
  <2>4. \A i : Deciding(i)' = IF /\ q.sanction = i
                                 /\ \/ q.step = "successor"
                                    \/ q.step = "action" /\ q.kind \in {"RENEW", "REVOKE"}
                              THEN Deciding(i) \cup {r} ELSE Deciding(i) \ {r}
    BY <2>2, RequestMoves
  <2>5. Recording(k)' = Recording(k) \cup {r} /\ Deciding(k)' = Deciding(k) \cup {r}
    BY <1>5, <2>3, <2>4
  <2>6. ASSUME NEW i, i # k
        PROVE  Recording(i)' = Recording(i) \ {r} /\ Deciding(i)' = Deciding(i) \ {r}
    BY <1>5, <2>3, <2>4, <2>6
  <2>7. r \notin Recording(k) /\ Deciding(k)' = Deciding(k) /\ Deciding(k) # {}
    BY <2>1, <2>5
  <2>8. ASSUME NEW i, i # k
        PROVE  Recording(i)' = Recording(i) /\ Deciding(i)' = Deciding(i)
    BY <2>1, <2>6, <2>8
  <2> QED BY <2>5, <2>7, <2>8
<1>10. Accounted(k)'
  <2>1. /\ Accounted(k) /\ lost[k] \in Nat
    BY <1>3, SanctionShapes DEF SanctionInv, AllAccounted
  <2>2. /\ IsFiniteSet(Recording(k)) /\ Cardinality(Recording(k)) \in Nat
        /\ IsFiniteSet(Sanction!Successors(k)) /\ Cardinality(Sanction!Successors(k)) \in Nat
        /\ Cardinality(Sanction!Renewals(k)) \in Nat
    BY <1>3, SanctionSets
  <2>3. Cardinality(Recording(k)') = Cardinality(Recording(k)) + 1
    BY <1>9, <2>2, FS_AddElement
  <2>4. n \notin Sanction!Successors(k)
    BY <1>8 DEF Sanction!Successors
  <2>5. Cardinality(Sanction!Successors(k)') = Cardinality(Sanction!Successors(k)) + 1
    BY <1>3, <1>8, <2>2, <2>4, FS_AddElement
  <2>6. Cardinality(Sanction!Renewals(k)') = Cardinality(Sanction!Renewals(k))
    BY <1>3, <1>8
  <2>7. sanctions'[k].status = sanctions[k].status /\ sanctions[k].status # "ACTIVE"
    BY <1>3, <1>8, <1>9, <2>1 DEF Accounted
  <2> HIDE DEF q
  <2>8. /\ Cardinality(Sanction!Renewals(k)') + Cardinality(Recording(k)')
              <= Cardinality(Sanction!Successors(k)')
        /\ Cardinality(Sanction!Successors(k)')
              <= Cardinality(Sanction!Renewals(k)') + Cardinality(Recording(k)') + lost[k]
    BY <2>1, <2>2, <2>3, <2>5, <2>6 DEF Accounted
  <2> QED BY <1>1, <1>9, <2>7, <2>8 DEF Accounted
<1>11. ASSUME NEW i \in DOMAIN sanctions, i # k PROVE Accounted(i)'
  BY <1>1, <1>3, <1>8, <1>9, <1>11, SameAccount DEF SanctionInv, AllAccounted
<1>12. Accounted(n)'
  <2>1. Recording(n)' = {} /\ Deciding(n)' = {}
    BY <1>3, <1>8, <1>9, SanctionRest
  <2>2. lost'[n] \in Nat
    BY <1>1, <1>3, <1>6, <1>7, SanctionShapes
  <2> QED BY <1>8, <2>1, <2>2, FS_EmptySet DEF Accounted, Sanction!Fresh
<1>13. \A i \in DOMAIN sanctions' : Accounted(i)'
  BY <1>3, <1>6, <1>8, <1>10, <1>11, <1>12
<1>14. Len(sanctions') + Cardinality(Renewing') <= MaxSanctions
  BY <1>3, <1>6, <1>7, <1>8
<1>15. lost' \in [1..MaxSanctions -> 0..MaxFailures]
  BY <1>1, <1>3 DEF SanctionTypes
<1>16. DOMAIN sanctions \subseteq DOMAIN sanctions' /\ k \in DOMAIN sanctions'
  BY <1>3, <1>6, <1>8
<1> QED BY <1>4, <1>5, <1>8, <1>13, <1>14, <1>15, <1>16, SanctionStep

LEMMA SelectKeeps ==
    ASSUME SanctionInv, NEW r \in Analysts, NEW kind \in Kinds, NEW i \in DOMAIN sanctions,
           Sanction!Select(r, kind, i)
    PROVE  SanctionInv'
<1>1. /\ requests[r] = Sanction!Idle /\ sanctions' = sanctions /\ lost' = lost
      /\ kind = "RENEW" => Len(sanctions) + Cardinality(Renewing) < MaxSanctions
  BY SanctionNames DEF Sanction!Select, Sanction!RoomForAnother, Renewing
<1>2. /\ SanctionTypes /\ AtWork /\ RoomForRenewals /\ AllAccounted
      /\ Len(sanctions) \in Nat /\ DOMAIN sanctions = 1..Len(sanctions)
      /\ IsFiniteSet(Renewing) /\ Cardinality(Renewing) \in Nat /\ MaxSanctions \in Nat
  BY SanctionShapes, SanctionSets, SanctionParameters DEF SanctionInv
<1>3. Len(sanctions) <= MaxSanctions /\ kind \in {"RENEW", "REVOKE", "NOTE"}
  BY <1>2, SanctionParameters DEF RoomForRenewals
<1> DEFINE q == [step |-> IF kind = "NOTE" THEN "action" ELSE "status",
                 kind |-> kind, sanction |-> i]
<1>4. q \in AnyRequest /\ requests' = [requests EXCEPT ![r] = q]
  BY <1>2, <1>3 DEF Sanction!Select, AnyRequest
<1>5. /\ q.kind = kind /\ q.sanction = i
      /\ q.step \in {"action", "status"} /\ (q.step = "action" <=> kind = "NOTE")
  BY <1>3
<1> HIDE DEF q
<1>6. /\ Renewing' = IF kind = "RENEW" THEN Renewing \cup {r} ELSE Renewing \ {r}
      /\ \A j : Recording(j)' = Recording(j) \ {r} /\ Deciding(j)' = Deciding(j) \ {r}
  <2>1. Renewing' = IF q.step \in {"status", "successor"} /\ q.kind = "RENEW"
                    THEN Renewing \cup {r} ELSE Renewing \ {r}
    BY <1>2, <1>4, RequestMoves
  <2>2. \A j : Recording(j)' = IF q.sanction = j /\ q.step = "action" /\ q.kind = "RENEW"
                               THEN Recording(j) \cup {r} ELSE Recording(j) \ {r}
    BY <1>2, <1>4, RequestMoves
  <2>3. \A j : Deciding(j)' = IF /\ q.sanction = j
                                 /\ \/ q.step = "successor"
                                    \/ q.step = "action" /\ q.kind \in {"RENEW", "REVOKE"}
                              THEN Deciding(j) \cup {r} ELSE Deciding(j) \ {r}
    BY <1>2, <1>4, RequestMoves
  <2>4. Renewing' = IF kind = "RENEW" THEN Renewing \cup {r} ELSE Renewing \ {r}
    BY <1>5, <2>1
  <2>5. \A j : Recording(j)' = Recording(j) \ {r}
    BY <1>5, <2>2
  <2>6. \A j : Deciding(j)' = Deciding(j) \ {r}
    BY <1>5, <2>3
  <2> QED BY <2>4, <2>5, <2>6
<1>7. r \notin Renewing /\ \A j : r \notin Recording(j) /\ r \notin Deciding(j)
  BY <1>1, SanctionRest
<1>8. \A j : Recording(j)' = Recording(j) /\ Deciding(j)' = Deciding(j)
  BY <1>6, <1>7
<1>9. Len(sanctions') + Cardinality(Renewing') <= MaxSanctions
  <2>1. CASE kind = "RENEW"
    <3>1. Cardinality(Renewing \cup {r}) = Cardinality(Renewing) + 1
      BY <1>2, <1>7, FS_AddElement
    <3> QED BY <1>1, <1>2, <1>6, <2>1, <3>1
  <2>2. CASE kind # "RENEW"
    <3>1. Renewing' = Renewing
      BY <1>6, <1>7, <2>2
    <3> QED BY <1>1, <1>2, <3>1 DEF RoomForRenewals
  <2> QED BY <2>1, <2>2
<1>10. ASSUME NEW j \in DOMAIN sanctions' PROVE Accounted(j)'
  <2>1. Accounted(j)
    BY <1>1, <1>2 DEF AllAccounted
  <2>2. Sanction!Renewals(j)' = Sanction!Renewals(j)
    BY <1>1 DEF Sanction!Renewals
  <2>3. Sanction!Successors(j)' = Sanction!Successors(j)
    BY <1>1 DEF Sanction!Successors
  <2> QED BY <1>1, <1>8, <2>1, <2>2, <2>3, SameAccount
<1>11. /\ lost' \in [1..MaxSanctions -> 0..MaxFailures] /\ sanctions' \in Seq(AnySanction)
       /\ DOMAIN sanctions \subseteq DOMAIN sanctions'
       /\ \A j \in DOMAIN sanctions' : sanctions'[j].renews < j
  BY <1>1, <1>2 DEF SanctionTypes, AtWork
<1>12. /\ q.step \notin {"none", "successor"} /\ q.kind # "none"
       /\ q.step = "status" => q.kind \in {"RENEW", "REVOKE"}
       /\ q.sanction \in DOMAIN sanctions'
  BY <1>1, <1>3, <1>5
<1> QED BY <1>4, <1>9, <1>10, <1>11, <1>12, SanctionStep

LEMMA UpdateStatusKeeps ==
    ASSUME SanctionInv, NEW r \in Analysts, Sanction!UpdateStatus(r)
    PROVE  SanctionInv'
<1>1. PICK i : i = requests[r].sanction
  OBVIOUS
<1>2. PICK kind : kind = requests[r].kind
  OBVIOUS
<1>3. /\ requests[r].step = "status" /\ lost' = lost
      /\ sanctions' = [sanctions EXCEPT ![i].status = Sanction!StatusAfter(kind)]
      /\ requests' = [requests EXCEPT ![r].step =
                        IF kind = "RENEW" THEN "successor" ELSE "action"]
  BY <1>1, <1>2 DEF Sanction!UpdateStatus, Sanction!At
<1>4. /\ SanctionTypes /\ AtWork /\ RoomForRenewals /\ AllAccounted
  BY DEF SanctionInv
<1>5. /\ Len(sanctions) \in Nat /\ DOMAIN sanctions = 1..Len(sanctions)
      /\ requests[r] \in AnyRequest /\ i \in DOMAIN sanctions /\ sanctions[i] \in AnySanction
      /\ kind \in {"RENEW", "REVOKE"}
  <2>1. i \in DOMAIN sanctions /\ kind \in {"RENEW", "REVOKE"}
    BY <1>1, <1>2, <1>3, <1>4 DEF AtWork
  <2> QED BY <1>4, <2>1, SanctionShapes
<1> DEFINE s == [sanctions[i] EXCEPT !.status = Sanction!StatusAfter(kind)]
           q == [requests[r] EXCEPT !.step = IF kind = "RENEW" THEN "successor" ELSE "action"]
<1>6. /\ s \in AnySanction /\ s.renews = sanctions[i].renews /\ s.trail = sanctions[i].trail
      /\ s.status # "ACTIVE" /\ sanctions' = [sanctions EXCEPT ![i] = s]
  BY <1>3, <1>5 DEF AnySanction, Sanction!StatusAfter
<1>7. q \in AnyRequest /\ requests' = [requests EXCEPT ![r] = q]
  BY <1>3, <1>5 DEF AnyRequest
<1>8. /\ q.kind = kind /\ q.sanction = i
      /\ q.step \in {"successor", "action"} /\ (q.step = "successor" <=> kind = "RENEW")
  BY <1>1, <1>2, <1>5 DEF AnyRequest
<1> HIDE DEF q, s
<1>9. /\ sanctions' \in Seq(AnySanction) /\ Len(sanctions') = Len(sanctions)
      /\ DOMAIN sanctions' = DOMAIN sanctions /\ sanctions'[i] = s
      /\ \A j \in DOMAIN sanctions : j # i => sanctions'[j] = sanctions[j]
      /\ \A j : Sanction!Successors(j)' = Sanction!Successors(j)
      /\ \A j \in DOMAIN sanctions : sanctions'[j].renews = sanctions[j].renews
  BY <1>4, <1>5, <1>6, SanctionUpdated
<1>10. ASSUME NEW j \in DOMAIN sanctions PROVE Sanction!Renewals(j)' = Sanction!Renewals(j)
  <2>1. sanctions'[j].trail = sanctions[j].trail
    BY <1>6, <1>9
  <2> QED BY <2>1 DEF Sanction!Renewals
<1>11. \A j : Recording(j)' = Recording(j)
  <2>1. \A j : Recording(j)' = IF q.sanction = j /\ q.step = "action" /\ q.kind = "RENEW"
                               THEN Recording(j) \cup {r} ELSE Recording(j) \ {r}
    BY <1>4, <1>7, RequestMoves
  <2>2. ~(q.step = "action" /\ q.kind = "RENEW")
    BY <1>8
  <2>3. \A j : r \notin Recording(j)
    BY <1>3 DEF Recording
  <2>4. \A j : Recording(j)' = Recording(j) \ {r}
    BY <2>1, <2>2
  <2> QED BY <2>3, <2>4
<1>12. r \in Deciding(i)' /\ \A j : j # i => Deciding(j)' = Deciding(j)
  <2>1. \A j : Deciding(j)' = IF /\ q.sanction = j
                                 /\ \/ q.step = "successor"
                                    \/ q.step = "action" /\ q.kind \in {"RENEW", "REVOKE"}
                              THEN Deciding(j) \cup {r} ELSE Deciding(j) \ {r}
    BY <1>4, <1>7, RequestMoves
  <2>2. \/ q.step = "successor"
        \/ q.step = "action" /\ q.kind \in {"RENEW", "REVOKE"}
    BY <1>5, <1>8
  <2>3. Deciding(i)' = Deciding(i) \cup {r}
    BY <1>8, <2>1, <2>2
  <2>4. ASSUME NEW j, j # i PROVE Deciding(j)' = Deciding(j)
    <3>1. r \notin Deciding(j)
      BY <1>1, <2>4 DEF Deciding
    <3>2. Deciding(j)' = Deciding(j) \ {r}
      BY <1>8, <2>1, <2>4
    <3> QED BY <3>1, <3>2
  <2> QED BY <2>3, <2>4
<1>13. Renewing' = Renewing
  <2>1. Renewing' = IF q.step \in {"status", "successor"} /\ q.kind = "RENEW"
                    THEN Renewing \cup {r} ELSE Renewing \ {r}
    BY <1>4, <1>7, RequestMoves
  <2>2. r \in Renewing <=> kind = "RENEW"
    BY <1>2, <1>3 DEF Renewing
  <2>3. Renewing' = IF kind = "RENEW" THEN Renewing \cup {r} ELSE Renewing \ {r}
    BY <1>8, <2>1
  <2> QED BY <2>2, <2>3
<1>14. ASSUME NEW j \in DOMAIN sanctions' PROVE Accounted(j)'
  <2>1. j \in DOMAIN sanctions /\ Accounted(j)
    BY <1>4, <1>9 DEF AllAccounted
  <2>2. CASE j = i
    BY <1>3, <1>6, <1>9, <1>10, <1>11, <1>12, <2>1, <2>2 DEF Accounted
  <2>3. CASE j # i
    BY <1>3, <1>9, <1>10, <1>11, <1>12, <2>1, <2>3, SameAccount
  <2> QED BY <2>2, <2>3
<1>15. Len(sanctions') + Cardinality(Renewing') <= MaxSanctions
  BY <1>4, <1>9, <1>13 DEF RoomForRenewals
<1>16. /\ lost' \in [1..MaxSanctions -> 0..MaxFailures]
       /\ DOMAIN sanctions \subseteq DOMAIN sanctions'
       /\ \A j \in DOMAIN sanctions' : sanctions'[j].renews < j
  BY <1>3, <1>4, <1>9 DEF SanctionTypes, AtWork
<1>17. /\ q.step \notin {"none", "status"} /\ q.kind # "none"
       /\ q.step = "successor" => q.kind = "RENEW"
       /\ q.sanction \in DOMAIN sanctions'
  BY <1>5, <1>8, <1>9
<1> QED BY <1>7, <1>9, <1>14, <1>15, <1>16, <1>17, SanctionStep

\* What is written in a trail joins what was there.
RenewalsIn(trail) == {k \in DOMAIN trail : trail[k] = "RENEW"}

LEMMA TrailGrows ==
    ASSUME NEW trail \in Seq(Kinds \cup {"CREATE"}), NEW kind \in Kinds \cup {"CREATE"},
           NEW longer, longer = Append(trail, kind)
    PROVE  /\ longer \in Seq(Kinds \cup {"CREATE"})
           /\ ToSet(longer) = ToSet(trail) \cup {kind}
           /\ RenewalsIn(longer) = IF kind = "RENEW" THEN RenewalsIn(trail) \cup {Len(trail) + 1}
                                   ELSE RenewalsIn(trail)
<1>1. /\ longer \in Seq(Kinds \cup {"CREATE"}) /\ Len(longer) = Len(trail) + 1
      /\ \A k \in 1..Len(trail) : longer[k] = trail[k]
      /\ longer[Len(trail) + 1] = kind
  BY AppendProperties
<1>2. /\ Len(trail) \in Nat /\ DOMAIN trail = 1..Len(trail)
      /\ DOMAIN longer = 1..(Len(trail) + 1)
  BY <1>1, LenProperties
<1>3. ToSet(longer) = ToSet(trail) \cup {kind}
  BY <1>1, <1>2 DEF ToSet
<1>4. CASE kind = "RENEW"
  BY <1>1, <1>2, <1>3, <1>4 DEF RenewalsIn
<1>5. CASE kind # "RENEW"
  BY <1>1, <1>2, <1>3, <1>5 DEF RenewalsIn
<1> QED BY <1>4, <1>5

LEMMA InsertActionKeeps ==
    ASSUME SanctionInv, NEW r \in Analysts, Sanction!InsertAction(r)
    PROVE  SanctionInv'
<1>1. PICK i : i = requests[r].sanction
  OBVIOUS
<1>2. PICK kind : kind = requests[r].kind
  OBVIOUS
<1>3. /\ requests[r].step = "action" /\ lost' = lost
      /\ sanctions' = [sanctions EXCEPT ![i].trail = Append(@, kind)]
      /\ requests' = [requests EXCEPT ![r] = Sanction!Idle]
  BY <1>1, <1>2 DEF Sanction!InsertAction, Sanction!At
<1>4. SanctionTypes /\ AtWork /\ RoomForRenewals /\ AllAccounted
  BY DEF SanctionInv
<1>5. /\ Len(sanctions) \in Nat /\ DOMAIN sanctions = 1..Len(sanctions)
      /\ requests[r] \in AnyRequest /\ i \in DOMAIN sanctions /\ sanctions[i] \in AnySanction
      /\ sanctions[i].trail \in Seq(Kinds \cup {"CREATE"}) /\ Len(sanctions[i].trail) \in Nat
      /\ DOMAIN sanctions[i].trail = 1..Len(sanctions[i].trail)
      /\ kind \in Kinds \cup {"CREATE"} /\ lost[i] \in Nat /\ MaxSanctions \in Nat
  <2>1. i \in DOMAIN sanctions /\ kind # "none"
    BY <1>1, <1>2, <1>3, <1>4 DEF AtWork
  <2>2. /\ Len(sanctions) \in Nat /\ DOMAIN sanctions = 1..Len(sanctions)
        /\ requests[r] \in AnyRequest /\ sanctions[i] \in AnySanction
        /\ sanctions[i].trail \in Seq(Kinds \cup {"CREATE"}) /\ Len(sanctions[i].trail) \in Nat
        /\ DOMAIN sanctions[i].trail = 1..Len(sanctions[i].trail)
    BY <1>4, <2>1, SanctionShapes
  <2>3. kind \in Kinds \cup {"CREATE"}
    BY <1>2, <2>1, <2>2 DEF AnyRequest
  <2>4. Len(sanctions) <= MaxSanctions /\ MaxSanctions \in Nat
    BY <1>4, <2>2, SanctionSets, SanctionParameters DEF RoomForRenewals
  <2>5. lost[i] \in Nat
    BY <1>4, <2>1, <2>2, <2>4, SanctionShapes
  <2> QED BY <2>1, <2>2, <2>3, <2>4, <2>5
<1>6. PICK longer : longer = Append(sanctions[i].trail, kind)
  OBVIOUS
<1>7. /\ longer \in Seq(Kinds \cup {"CREATE"})
      /\ ToSet(longer) = ToSet(sanctions[i].trail) \cup {kind}
      /\ RenewalsIn(longer) = IF kind = "RENEW"
                              THEN Sanction!Renewals(i) \cup {Len(sanctions[i].trail) + 1}
                              ELSE Sanction!Renewals(i)
  <2>1. PICK trail : trail = sanctions[i].trail
    OBVIOUS
  <2>2. trail \in Seq(Kinds \cup {"CREATE"}) /\ longer = Append(trail, kind)
    BY <1>5, <1>6, <2>1
  <2>3. /\ longer \in Seq(Kinds \cup {"CREATE"})
        /\ ToSet(longer) = ToSet(trail) \cup {kind}
        /\ RenewalsIn(longer) = IF kind = "RENEW" THEN RenewalsIn(trail) \cup {Len(trail) + 1}
                                ELSE RenewalsIn(trail)
    BY <1>5, <2>2, TrailGrows
  <2>4. Sanction!Renewals(i) = RenewalsIn(trail)
    BY <2>1 DEF Sanction!Renewals, RenewalsIn
  <2> QED BY <2>1, <2>3, <2>4
<1> DEFINE s == [sanctions[i] EXCEPT !.trail = longer]
<1>8. /\ s \in AnySanction /\ s.renews = sanctions[i].renews /\ s.trail = longer
      /\ s.status = sanctions[i].status /\ sanctions' = [sanctions EXCEPT ![i] = s]
  BY <1>3, <1>5, <1>6, <1>7 DEF AnySanction
<1> HIDE DEF s
<1>9. /\ sanctions' \in Seq(AnySanction) /\ Len(sanctions') = Len(sanctions)
      /\ DOMAIN sanctions' = DOMAIN sanctions /\ sanctions'[i] = s
      /\ \A j \in DOMAIN sanctions : j # i => sanctions'[j] = sanctions[j]
      /\ \A j : Sanction!Successors(j)' = Sanction!Successors(j)
      /\ \A j \in DOMAIN sanctions : sanctions'[j].renews = sanctions[j].renews
  BY <1>4, <1>5, <1>8, SanctionUpdated
<1>10. Sanction!Idle \in AnyRequest /\ Sanction!Idle.step = "none"
  BY <1>5 DEF Sanction!Idle, AnyRequest
<1>11. /\ Renewing' = Renewing \ {r} /\ \A j : Recording(j)' = Recording(j) \ {r}
       /\ \A j : Deciding(j)' = Deciding(j) \ {r}
  <2>1. Renewing' = Renewing \ {r}
    BY <1>3, <1>4, <1>10, RequestMoves
  <2>2. \A j : Recording(j)' = Recording(j) \ {r}
    BY <1>3, <1>4, <1>10, RequestMoves
  <2>3. \A j : Deciding(j)' = Deciding(j) \ {r}
    BY <1>3, <1>4, <1>10, RequestMoves
  <2> QED BY <2>1, <2>2, <2>3
<1>12. Renewing' = Renewing
  BY <1>3, <1>11 DEF Renewing
<1>13. Accounted(i)'
  <2>1. Accounted(i)
    BY <1>4, <1>5 DEF AllAccounted
  <2>2. /\ IsFiniteSet(Recording(i)) /\ Cardinality(Recording(i)) \in Nat
        /\ Cardinality(Sanction!Successors(i)) \in Nat
        /\ IsFiniteSet(Sanction!Renewals(i)) /\ Cardinality(Sanction!Renewals(i)) \in Nat
    BY <1>4, <1>5, SanctionSets
  <2>3. Sanction!Renewals(i)' = IF kind = "RENEW"
                                THEN Sanction!Renewals(i) \cup {Len(sanctions[i].trail) + 1}
                                ELSE Sanction!Renewals(i)
    <3>1. sanctions'[i].trail = longer
      BY <1>8, <1>9
    <3> QED BY <1>7, <3>1 DEF Sanction!Renewals, RenewalsIn
  <2>4. r \in Recording(i) <=> kind = "RENEW"
    BY <1>1, <1>2, <1>3 DEF Recording
  <2>5. r \in Deciding(i) <=> kind \in {"RENEW", "REVOKE"}
    BY <1>1, <1>2, <1>3 DEF Deciding
  <2>6. Cardinality(Sanction!Renewals(i)') + Cardinality(Recording(i)')
          = Cardinality(Sanction!Renewals(i)) + Cardinality(Recording(i))
    <3>1. CASE kind = "RENEW"
      <4>1. Len(sanctions[i].trail) + 1 \notin Sanction!Renewals(i)
        BY <1>5 DEF Sanction!Renewals
      <4>2. Cardinality(Sanction!Renewals(i)') = Cardinality(Sanction!Renewals(i)) + 1
        BY <2>2, <2>3, <3>1, <4>1, FS_AddElement
      <4>3. Cardinality(Recording(i)') = Cardinality(Recording(i)) - 1
        BY <1>11, <2>2, <2>4, <3>1, FS_RemoveElement
      <4> QED BY <2>2, <4>2, <4>3
    <3>2. CASE kind # "RENEW"
      <4>1. Sanction!Renewals(i)' = Sanction!Renewals(i)
        BY <2>3, <3>2
      <4>2. Recording(i)' = Recording(i)
        BY <1>11, <2>4, <3>2
      <4> QED BY <4>1, <4>2
    <3> QED BY <3>1, <3>2
  <2>7. Sanction!Successors(i)' = Sanction!Successors(i)
    BY <1>9
  <2>8. sanctions'[i].status = sanctions[i].status
    BY <1>8, <1>9
  <2>9. Undecided(i)' <=> Undecided(i) /\ kind \in {"CREATE", "NOTE"}
    BY <1>7, <1>8, <1>9 DEF Undecided
  <2>10. kind \in {"RENEW", "REVOKE"} \/ kind \in {"CREATE", "NOTE"}
    BY <1>5, SanctionParameters
  <2>11. sanctions[i].status = "ACTIVE" => Deciding(i)' = {} /\ Undecided(i)'
    <3> SUFFICES ASSUME sanctions[i].status = "ACTIVE"
                 PROVE  Deciding(i)' = {} /\ Undecided(i)'
      OBVIOUS
    <3>1. Deciding(i) = {} /\ Undecided(i)
      BY <2>1 DEF Accounted
    <3> QED BY <1>11, <2>5, <2>9, <2>10, <3>1
  <2>12. sanctions[i].status # "ACTIVE" => Deciding(i)' # {} \/ ~Undecided(i)' \/ lost[i] > 0
    <3> SUFFICES ASSUME sanctions[i].status # "ACTIVE", Undecided(i)', ~(lost[i] > 0)
                 PROVE  Deciding(i)' # {}
      OBVIOUS
    <3>1. Undecided(i) /\ kind \notin {"RENEW", "REVOKE"}
      BY <2>9
    <3>2. Deciding(i) # {}
      BY <2>1, <3>1 DEF Accounted
    <3> QED BY <1>11, <2>5, <3>1, <3>2
  <2> QED BY <1>3, <2>1, <2>6, <2>7, <2>8, <2>11, <2>12 DEF Accounted
<1>14. ASSUME NEW j \in DOMAIN sanctions, j # i PROVE Accounted(j)'
  <2>1. Accounted(j) /\ sanctions'[j] = sanctions[j] /\ lost'[j] = lost[j]
    BY <1>3, <1>4, <1>9, <1>14 DEF AllAccounted
  <2>2. Sanction!Renewals(j)' = Sanction!Renewals(j)
    BY <2>1 DEF Sanction!Renewals
  <2>3. r \notin Recording(j) /\ r \notin Deciding(j)
    BY <1>1, <1>14 DEF Recording, Deciding
  <2>4. Recording(j)' = Recording(j) /\ Deciding(j)' = Deciding(j)
    BY <1>11, <2>3
  <2> QED BY <1>9, <2>1, <2>2, <2>4, SameAccount
<1>15. \A j \in DOMAIN sanctions' : Accounted(j)'
  BY <1>9, <1>13, <1>14
<1>16. Len(sanctions') + Cardinality(Renewing') <= MaxSanctions
  BY <1>4, <1>9, <1>12 DEF RoomForRenewals
<1>17. /\ lost' \in [1..MaxSanctions -> 0..MaxFailures]
       /\ DOMAIN sanctions \subseteq DOMAIN sanctions'
       /\ \A j \in DOMAIN sanctions' : sanctions'[j].renews < j
  BY <1>3, <1>4, <1>9 DEF SanctionTypes, AtWork
<1> QED BY <1>3, <1>9, <1>10, <1>15, <1>16, <1>17, SanctionStep

\* The bound on the failures of all sanctions bounds those of one.
LEMMA RoomToFail ==
    ASSUME SanctionTypes, NEW i \in 1..MaxSanctions, Sanction!LostInAll < MaxFailures
    PROVE  lost[i] < MaxFailures
<1>1. lost[i] \in 0..MaxFailures /\ MaxFailures \in Nat /\ MaxSanctions \in Nat
  BY SanctionParameters DEF SanctionTypes
<1> SUFFICES ASSUME lost[i] = MaxFailures
             PROVE  FALSE
  BY <1>1
<1> DEFINE all == {l \in (1..MaxSanctions) \X (1..MaxFailures) : l[2] <= lost[l[1]]}
           its == {i} \X (1..MaxFailures)
<1>2. IsFiniteSet(all)
  <2>1. IsFiniteSet(1..MaxSanctions) /\ IsFiniteSet(1..MaxFailures)
    BY <1>1, FS_Interval
  <2>2. IsFiniteSet((1..MaxSanctions) \X (1..MaxFailures))
    BY <2>1, FS_Product
  <2> QED BY <2>2, FS_Subset
<1>3. its \in SUBSET all
  BY <1>1
<1>4. Cardinality(its) = MaxFailures
  <2>1. /\ IsFiniteSet(1..MaxFailures) /\ Cardinality(1..MaxFailures) = MaxFailures
    BY <1>1, FS_Interval
  <2>2. IsFiniteSet({i}) /\ Cardinality({i}) = 1
    BY FS_Singleton
  <2>3. Cardinality(its) = Cardinality({i}) * Cardinality(1..MaxFailures)
    BY <2>1, <2>2, FS_Product
  <2>4. 1 * MaxFailures = MaxFailures
    BY <1>1
  <2> QED BY <2>1, <2>2, <2>3, <2>4
<1>5. Cardinality(its) <= Cardinality(all) /\ Cardinality(all) \in Nat
  BY <1>2, <1>3, FS_Subset, FS_CardinalityType
<1>6. Sanction!LostInAll = Cardinality(all)
  BY SanctionNames DEF Sanction!LostInAll
<1> QED BY <1>1, <1>4, <1>5, <1>6

LEMMA RequestFailsKeeps ==
    ASSUME SanctionInv, NEW r \in Analysts, Sanction!RequestFails(r)
    PROVE  SanctionInv'
<1>1. PICK i : i = requests[r].sanction
  OBVIOUS
<1>2. /\ requests[r] # Sanction!Idle /\ sanctions' = sanctions
      /\ Sanction!LostInAll < MaxFailures
      /\ lost' = [lost EXCEPT ![i] = @ + 1]
      /\ requests' = [requests EXCEPT ![r] = Sanction!Idle]
  BY <1>1 DEF Sanction!RequestFails
<1>3. SanctionTypes /\ AtWork /\ RoomForRenewals /\ AllAccounted
  BY DEF SanctionInv
<1>4. /\ Len(sanctions) \in Nat /\ DOMAIN sanctions = 1..Len(sanctions)
      /\ Len(sanctions) <= MaxSanctions /\ i \in DOMAIN sanctions /\ i \in 1..MaxSanctions
      /\ MaxSanctions \in Nat /\ MaxFailures \in Nat
      /\ IsFiniteSet(Renewing) /\ Cardinality(Renewing) \in Nat
  <2>1. Len(sanctions) \in Nat /\ DOMAIN sanctions = 1..Len(sanctions)
    BY <1>3, SanctionShapes
  <2>2. IsFiniteSet(Renewing) /\ Cardinality(Renewing) \in Nat
    BY <1>3, SanctionSets
  <2>3. Len(sanctions) <= MaxSanctions
    BY <1>3, <2>1, <2>2, SanctionParameters DEF RoomForRenewals
  <2>4. i \in DOMAIN sanctions
    BY <1>1, <1>2, <1>3 DEF AtWork
  <2> QED BY <2>1, <2>2, <2>3, <2>4, SanctionParameters
<1>5. /\ lost[i] \in Nat /\ lost'[i] = lost[i] + 1
      /\ \A j \in 1..MaxSanctions : j # i => lost'[j] = lost[j]
      /\ lost' \in [1..MaxSanctions -> 0..MaxFailures]
  <2>1. lost[i] < MaxFailures
    BY <1>2, <1>3, <1>4, RoomToFail
  <2> QED BY <1>2, <1>3, <1>4, <2>1 DEF SanctionTypes
<1>6. Sanction!Idle \in AnyRequest /\ Sanction!Idle.step = "none"
  BY <1>4 DEF Sanction!Idle, AnyRequest
<1>7. /\ Renewing' = Renewing \ {r} /\ \A j : Recording(j)' = Recording(j) \ {r}
      /\ \A j : Deciding(j)' = Deciding(j) \ {r}
  <2>1. Renewing' = Renewing \ {r}
    BY <1>2, <1>3, <1>6, RequestMoves
  <2>2. \A j : Recording(j)' = Recording(j) \ {r}
    BY <1>2, <1>3, <1>6, RequestMoves
  <2>3. \A j : Deciding(j)' = Deciding(j) \ {r}
    BY <1>2, <1>3, <1>6, RequestMoves
  <2> QED BY <2>1, <2>2, <2>3
<1>8. ASSUME NEW j
      PROVE  /\ Sanction!Renewals(j)' = Sanction!Renewals(j)
             /\ Sanction!Successors(j)' = Sanction!Successors(j)
  BY <1>2 DEF Sanction!Renewals, Sanction!Successors
<1>9. Accounted(i)'
  <2>1. Accounted(i)
    BY <1>3, <1>4 DEF AllAccounted
  <2>2. /\ IsFiniteSet(Recording(i)) /\ Cardinality(Recording(i)) \in Nat
        /\ Cardinality(Sanction!Successors(i)) \in Nat
        /\ Cardinality(Sanction!Renewals(i)) \in Nat
    BY <1>3, <1>4, SanctionSets
  <2>3. Cardinality(Recording(i)') \in {Cardinality(Recording(i)), Cardinality(Recording(i)) - 1}
    BY <1>7, <2>2, FS_RemoveElement
  <2>4. Undecided(i)' <=> Undecided(i)
    BY <1>2 DEF Undecided
  <2>5. /\ Cardinality(Sanction!Renewals(i)') + Cardinality(Recording(i)')
              <= Cardinality(Sanction!Successors(i)')
        /\ Cardinality(Sanction!Successors(i)')
              <= Cardinality(Sanction!Renewals(i)') + Cardinality(Recording(i)') + lost'[i]
    BY <1>5, <1>8, <2>1, <2>2, <2>3 DEF Accounted
  <2>6. sanctions'[i].status = "ACTIVE" => Deciding(i)' = {} /\ Undecided(i)'
    BY <1>2, <1>7, <2>1, <2>4 DEF Accounted
  <2>7. lost'[i] > 0
    BY <1>5
  <2> QED BY <2>5, <2>6, <2>7 DEF Accounted
<1>10. ASSUME NEW j \in DOMAIN sanctions, j # i PROVE Accounted(j)'
  <2>1. Accounted(j) /\ sanctions'[j] = sanctions[j] /\ lost'[j] = lost[j]
    BY <1>2, <1>3, <1>4, <1>5, <1>10 DEF AllAccounted
  <2>2. r \notin Recording(j) /\ r \notin Deciding(j)
    BY <1>1, <1>10 DEF Recording, Deciding
  <2>3. Recording(j)' = Recording(j) /\ Deciding(j)' = Deciding(j)
    BY <1>7, <2>2
  <2> QED BY <1>8, <2>1, <2>3, SameAccount
<1>11. \A j \in DOMAIN sanctions' : Accounted(j)'
  BY <1>2, <1>9, <1>10
<1>12. Len(sanctions') + Cardinality(Renewing') <= MaxSanctions
  <2>1. Cardinality(Renewing \ {r}) \in {Cardinality(Renewing), Cardinality(Renewing) - 1}
    BY <1>4, FS_RemoveElement
  <2> QED BY <1>2, <1>3, <1>4, <1>7, <2>1 DEF RoomForRenewals
<1>13. /\ sanctions' \in Seq(AnySanction) /\ DOMAIN sanctions \subseteq DOMAIN sanctions'
       /\ \A j \in DOMAIN sanctions' : sanctions'[j].renews < j
  BY <1>2, <1>3 DEF SanctionTypes, AtWork
<1> QED BY <1>2, <1>5, <1>6, <1>11, <1>12, <1>13, SanctionStep

LEMMA SanctionNext == ASSUME SanctionInv, [Sanction!Next]_Sanction!vars PROVE SanctionInv'
<1>1. CASE UNCHANGED Sanction!vars
  <2>1. sanctions' = sanctions /\ requests' = requests /\ lost' = lost
    BY <1>1 DEF Sanction!vars
  <2>2. SanctionTypes' /\ AtWork' /\ RoomForRenewals'
    BY <2>1 DEF SanctionInv, SanctionTypes, AtWork, RoomForRenewals, Renewing
  <2>3. ASSUME NEW i \in DOMAIN sanctions PROVE Accounted(i)'
    BY <2>1 DEF SanctionInv, AllAccounted, Accounted, Recording, Deciding, Undecided,
                Sanction!Renewals, Sanction!Successors
  <2>4. AllAccounted'
    BY <2>1, <2>3 DEF AllAccounted
  <2> QED BY <2>2, <2>4 DEF SanctionInv
<1>2. ASSUME NEW r \in Analysts, Sanction!Request(r) PROVE SanctionInv'
  BY <1>1, <1>2, CreateKeeps, UpdateStatusKeeps, InsertSuccessorKeeps, InsertActionKeeps,
     RequestFailsKeeps, SelectKeeps DEF Sanction!Request, Sanction!NotFound
<1> QED BY <1>1, <1>2 DEF Sanction!Next

LEMMA SanctionInvariance == Spec => []SanctionInv
<1>1. Sanction!Init => SanctionInv
  BY SanctionInit
<1>2. SanctionInv /\ [Sanction!Next]_Sanction!vars => SanctionInv'
  BY SanctionNext
<1> QED BY <1>1, <1>2, SanctionSpec, PTL DEF Sanction!Spec

LEMMA SanctionTypesHold == SanctionInv => Sanction!TypeOK
<1> SUFFICES ASSUME SanctionInv
             PROVE  Sanction!TypeOK
  OBVIOUS
<1>1. SanctionTypes /\ AtWork /\ RoomForRenewals
  BY DEF SanctionInv
<1>2. /\ Len(sanctions) \in Nat /\ DOMAIN sanctions = 1..Len(sanctions)
      /\ Len(sanctions) <= MaxSanctions
  BY <1>1, SanctionShapes, SanctionSets, SanctionParameters DEF RoomForRenewals
<1>3. ASSUME NEW r \in Analysts
      PROVE  requests[r] \in [step : {"none", "status", "successor", "action"},
                              kind : Kinds \cup {"none", "CREATE"}, sanction : 0..Len(sanctions)]
  <2>1. requests[r] \in AnyRequest
    BY <1>1, SanctionShapes
  <2>2. requests[r].sanction \in 0..Len(sanctions)
    BY <1>1, <1>2 DEF AtWork, Sanction!Idle
  <2> QED BY <2>1, <2>2 DEF AnyRequest
<1> QED BY <1>1, <1>2, <1>3 DEF SanctionTypes, AnySanction, Sanction!TypeOK

\* Whatever requests of analysts do between each other's statements, and wherever one
\* fails: a renewal is on record only with its successor, a successor without a record
\* belongs to a request at work or lost, and at rest the status says what the trail says
\* (server.js: POST /sanctions/:id/actions).
THEOREM TrailTrue == Spec => []TrailIsTrue
<1>1. SanctionInv => TrailIsTrue
  <2> SUFFICES ASSUME SanctionInv, NEW i \in DOMAIN sanctions
               PROVE  /\ Cardinality(Sanction!Renewals(i)) <= Cardinality(Sanction!Successors(i))
                      /\ Cardinality(Sanction!Successors(i))
                            <= Cardinality(Sanction!Renewals(i)) + Cardinality(Sanction!On(i))
                               + lost[i]
                      /\ Sanction!On(i) = {} /\ lost[i] = 0 =>
                            (sanctions[i].status = "ACTIVE" <=> Undecided(i))
    BY SanctionNames DEF TrailIsTrue, Sanction!TrailIsTrue, Undecided
  <2>1. SanctionTypes /\ Accounted(i) /\ RoomForRenewals
    BY DEF SanctionInv, AllAccounted
  <2>2. /\ Cardinality(Recording(i)) \in Nat /\ Cardinality(Sanction!On(i)) \in Nat
        /\ Cardinality(Recording(i)) <= Cardinality(Sanction!On(i))
        /\ Cardinality(Sanction!Successors(i)) \in Nat
        /\ Cardinality(Sanction!Renewals(i)) \in Nat
    BY <2>1, SanctionSets
  <2>3. lost[i] \in Nat
    <3>1. /\ Len(sanctions) \in Nat /\ DOMAIN sanctions = 1..Len(sanctions)
          /\ Cardinality(Renewing) \in Nat
      BY <2>1, SanctionShapes, SanctionSets
    <3>2. i \in 1..MaxSanctions
      BY <2>1, <3>1, SanctionParameters DEF RoomForRenewals
    <3> QED BY <2>1, <3>2, SanctionShapes
  <2>4. Deciding(i) \subseteq Sanction!On(i)
    BY DEF Deciding, Sanction!On
  <2> QED BY <2>1, <2>2, <2>3, <2>4 DEF Accounted
<1> QED BY <1>1, SanctionInvariance, PTL
-----------------------------------------------------------------------------
(* All parts.                                                              *)

\* What each part keeps is of its types, whatever part is at work.
THEOREM Types == Spec => []TypeOK
<1> QED BY EmergencyInvariance, EmergencyTypesHold, CollectiveTypesHold, SanctionInvariance,
           SanctionTypesHold, IntakeTypesHold, FeedInvariance, FeedTypesHold,
           DecisionInvariance, DecisionTypesHold, PTL DEF TypeOK
=============================================================================
