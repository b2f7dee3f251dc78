--------------------------- MODULE MCCampaignSessions ---------------------------
EXTENDS CampaignSessions, TLC

CONSTANTS s1, g1, g2, r1, r2, r3

\* Two routes to choose between in one GEO, one route in another.
TwoGeos == r1 :> g1 @@ r2 :> g1 @@ r3 :> g2

TwoRoutes == r1 :> g1 @@ r3 :> g2

Campaign(g, active) == [geo |-> g, server |-> s1, is_active |-> active]

AllRows == Routing!CampaignRows

\* A campaign that may be given several GEOs, and one again.
MovingRows == {Campaign(g, TRUE) : g \in {g1, None}}

\* Campaigns that stay where they are.
FixedRows == {Campaign(g1, TRUE)}

Symmetry == Permutations(Workers) \cup Permutations(Campaigns)
================================================================================
