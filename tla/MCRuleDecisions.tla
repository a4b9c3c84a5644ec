---------------------------- MODULE MCRuleDecisions ----------------------------
EXTENDS RuleDecisions

\* Standing on the route, racing away from it, parked at the base next to a stop.
MCNull == -1
MCSights ==
    {[speed |-> 0, place |-> 0, off |-> 0, base |-> FALSE, heading |-> -1, road |-> -1],
     [speed |-> 90, place |-> 500, off |-> 2000, base |-> FALSE, heading |-> 10, road |-> 200],
     [speed |-> 0, place |-> 500, off |-> 2000, base |-> TRUE, heading |-> -1, road |-> -1]}
================================================================================
