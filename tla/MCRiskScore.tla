------------------------------ MODULE MCRiskScore ------------------------------
EXTENDS RiskScore, TLC

CONSTANTS v1, v2

\* Two vehicles of one owner, and two of two.
OneOwner  == v1 :> "o1" @@ v2 :> "o1"
TwoOwners == v1 :> "o1" @@ v2 :> "o2"

\* One of the rules, with its points.
OffRoute == "OFF_ROUTE" :> 12
=============================================================================
