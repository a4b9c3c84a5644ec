------------------------------ MODULE MCServices ------------------------------
(* TLC instances of the two services that run by a timer of their own and of     *)
(* which progress is asked too: the notification service and the loop of the     *)
(* rules engine. They share neither rows nor memory here, so a behaviour is one  *)
(* of one service (`service`) and their state spaces add up. The idle one stays  *)
(* in an initial state.                                                          *)
EXTENDS NotificationOutbox, RulesEngineLoop

VARIABLE service

servicesVars == <<service, vars, loopVars>>
-------------------------------------------------------------------------------
Notifies == service = "notification"
Evaluates == service = "rules"

ServicesInit ==
    /\ service \in {"notification", "rules"}
    /\ Init /\ LoopInit
    /\ Notifies => pass = CHOOSE p \in Passes : TRUE
    /\ Notifies => concurrency = 1 /\ failing = {}
    /\ Evaluates => config = {"SMTP_HOST"} /\ smtp = "UP"

Notifying(A) == Notifies /\ A /\ UNCHANGED <<service, loopVars>>
Evaluating(A) == Evaluates /\ A /\ UNCHANGED <<service, vars>>

ServicesNext == Notifying(Next) \/ Evaluating(LoopNext)

\* FairSpec and FairLoopSpec, each in the behaviours where its service runs.
ServicesSpec ==
    /\ ServicesInit /\ [][ServicesNext]_servicesVars
    /\ WF_servicesVars(Notifying(Pass))
    /\ WF_servicesVars(Evaluating(Loop))
    /\ \A p \in Passes, w \in 1..Len(Fleet) :
         WF_servicesVars(Evaluating(WorkerGoesOn(p, w)))

\* Where the loop runs, a vehicle is served for ever unless something ahead of it
\* keeps failing (runRules gives a pass up at its first failure).
VehiclesAreServed == Evaluates => ServedUnlessFailureAhead
-------------------------------------------------------------------------------
(* Values.                                                                       *)

\* The environments: everything set, and no recipient.
Reconfigured == {{"SMTP_HOST", "EMAIL_TO", "FCM"}, {"SMTP_HOST"}}

\* Two batches, the second one short; the middle vehicle is out of service.
ThreeVehicles == <<"v1", "v2", "v3">>
TwoRules == <<"LOST_SIGNAL", "OFF_ROUTE">>
InService == [r \in {"LOST_SIGNAL", "OFF_ROUTE"} |->
                IF r = "OFF_ROUTE" THEN {"v1", "v3"} ELSE {}]
===============================================================================
