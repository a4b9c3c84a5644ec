--------------------------------- MODULE Sanctions ---------------------------------
(* Sanctions of vehicles and owners (services/api-gateway/src/server.js): analysts     *)
(* decide them, renew, revoke and comment on them. A request is three or four           *)
(* statements without a transaction, none of which looks at the status: requests meet   *)
(* between any two of them, and one may fail after any. What a sanction says, whom it   *)
(* concerns and the notice of it (SanctionNotice of NotificationOutbox) are left out.   *)
EXTENDS Naturals, FiniteSets, Sequences, SequencesExt

CONSTANTS
    Requests,        \* at work at a time
    Kinds,           \* what analysts do with a sanction, of RENEW, REVOKE and NOTE
    MaxSanctions, MaxTrail, MaxFailures   \* bounds

\* A server has finitely many requests at work.
SanctionConstants ==
    /\ Kinds \subseteq {"RENEW", "REVOKE", "NOTE"}
    /\ IsFiniteSet(Requests)
    /\ {MaxSanctions, MaxTrail, MaxFailures} \subseteq Nat

VARIABLES
    sanctions,   \* status; the one it renews (renews, 0 without); sanction_actions (trail)
    requests,    \* what each has done
    lost         \* history: requests that failed, by sanction

vars == <<sanctions, requests, lost>>

Idle == [step |-> "none", kind |-> "none", sanction |-> 0]
At(r, step) == requests[r].step = step
On(i) == {r \in Requests : requests[r].sanction = i}
Successors(i) == {j \in DOMAIN sanctions : sanctions[j].renews = i}
Renewals(i) == {k \in DOMAIN sanctions[i].trail : sanctions[i].trail[k] = "RENEW"}

\* Within the bounds, counting what requests at work will write.
RoomInTrail(i) == Len(sanctions[i].trail) + Cardinality(On(i)) < MaxTrail
RoomForAnother ==
    Len(sanctions) + Cardinality({r \in Requests : requests[r].step \in {"status", "successor"}
                                                    /\ requests[r].kind = "RENEW"}) < MaxSanctions
LostInAll == Cardinality({l \in (1..MaxSanctions) \X (1..MaxFailures) : l[2] <= lost[l[1]]})
Fresh(i) == [status |-> "ACTIVE", renews |-> i, trail |-> <<>>]

Init ==
    /\ sanctions = <<>>
    /\ requests = [r \in Requests |-> Idle]
    /\ lost = [i \in 1..MaxSanctions |-> 0]
------------------------------------------------------------------------------
(* POST /sanctions.                                                           *)

Create(r) ==
    /\ requests[r] = Idle /\ RoomForAnother
    /\ sanctions' = Append(sanctions, Fresh(0))
    /\ requests' = [requests EXCEPT ![r] =
           [step |-> "action", kind |-> "CREATE", sanction |-> Len(sanctions) + 1]]
    /\ UNCHANGED lost
------------------------------------------------------------------------------
(* POST /sanctions/:id/actions.                                               *)

\* What a sanction says is copied before the status is written.
Select(r, kind, i) ==
    /\ requests[r] = Idle /\ RoomInTrail(i) /\ (kind = "RENEW" => RoomForAnother)
    /\ requests' = [requests EXCEPT ![r] =
           [step |-> IF kind = "NOTE" THEN "action" ELSE "status", kind |-> kind, sanction |-> i]]
    /\ UNCHANGED <<sanctions, lost>>

\* 404: there is no such sanction.
NotFound(r) == requests[r] = Idle /\ UNCHANGED vars

StatusAfter(kind) == IF kind = "RENEW" THEN "RENEWED" ELSE "REVOKED"

UpdateStatusOnly(r) ==
    /\ At(r, "status")
    /\ sanctions' = [sanctions EXCEPT ![requests[r].sanction].status = StatusAfter(requests[r].kind)]
    /\ requests' = [requests EXCEPT ![r].step = "action"]
    /\ UNCHANGED lost

UpdateStatus(r) ==
    /\ At(r, "status")
    /\ sanctions' = [sanctions EXCEPT ![requests[r].sanction].status = StatusAfter(requests[r].kind)]
    /\ requests' = [requests EXCEPT ![r].step =
           IF requests[r].kind = "RENEW" THEN "successor" ELSE "action"]
    /\ UNCHANGED lost

\* Whatever has become of the old one meanwhile.
InsertSuccessor(r) ==
    /\ At(r, "successor")
    /\ sanctions' = Append(sanctions, Fresh(requests[r].sanction))
    /\ requests' = [requests EXCEPT ![r].step = "action"]
    /\ UNCHANGED lost

\* The last statement of both.
InsertAction(r) ==
    LET i == requests[r].sanction
    IN /\ At(r, "action")
       /\ sanctions' = [sanctions EXCEPT ![i].trail = Append(@, requests[r].kind)]
       /\ requests' = [requests EXCEPT ![r] = Idle]
       /\ UNCHANGED lost
------------------------------------------------------------------------------
\* A statement fails or the process ends; what was written stays.
RequestFails(r) ==
    LET i == requests[r].sanction
    IN /\ requests[r] # Idle
       /\ LostInAll < MaxFailures /\ lost' = [lost EXCEPT ![i] = @ + 1]
       /\ requests' = [requests EXCEPT ![r] = Idle]
       /\ UNCHANGED sanctions

Request(r) ==
    \/ Create(r) \/ NotFound(r) \/ UpdateStatus(r) \/ InsertSuccessor(r) \/ InsertAction(r)
    \/ RequestFails(r)
    \/ \E kind \in Kinds, i \in DOMAIN sanctions : Select(r, kind, i)

Next == \E r \in Requests : Request(r)

Spec == Init /\ [][Next]_vars
------------------------------------------------------------------------------
(* Properties                                                                  *)

\* Types; the statuses are among those of the CHECK in migration 014.
TypeOK ==
    /\ Len(sanctions) <= MaxSanctions
    /\ sanctions \in Seq([status : {"ACTIVE", "REVOKED", "RENEWED"}, renews : 0..MaxSanctions,
                          trail : Seq(Kinds \cup {"CREATE"})])
    /\ \A r \in Requests : requests[r] \in
         [step : {"none", "status", "successor", "action"}, kind : Kinds \cup {"none", "CREATE"},
          sanction : 0..Len(sanctions)]
    /\ lost \in [1..MaxSanctions -> 0..MaxFailures]

\* The trail of a sanction is true. Every RENEW in it has its successor, and of the
\* successors without one each belongs to a request that is at work or has failed:
\* no renewal is on record without the sanction it promises, and a sanction is there
\* twice only because it was renewed twice. And when nobody has it at work and no
\* request failed on it, it is active unless its trail says renewed or revoked.
TrailIsTrue ==
    \A i \in DOMAIN sanctions :
        LET recorded == Cardinality(Renewals(i))
            made == Cardinality(Successors(i))
        IN /\ recorded <= made
           /\ made <= recorded + Cardinality(On(i)) + lost[i]
           /\ On(i) = {} /\ lost[i] = 0 =>
                (sanctions[i].status = "ACTIVE" <=> ToSet(sanctions[i].trail) \subseteq {"CREATE", "NOTE"})
====================================================================================
