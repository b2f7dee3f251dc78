------------------------------- MODULE MCSessions ------------------------------
(* Routing events and tariff changes of overlapping requests.  The two share *)
(* no row that is changed, so one of them is followed while the other rests. *)
EXTENDS MCCampaignSessions, TariffSessions

\* The ids of the tariffs are numbers: a recalculation takes them in order.
\* Two keys are as alike as two campaigns, and are named like them.
CONSTANTS usd

VARIABLES followed

\* Campaigns at rest are in the first GEO.
CampaignsRest == Init /\ \A c \in Campaigns : campaign[c].geo = g1

\* Bound: files name one of the rates.
OneImportedRate == \A w \in Users : asked[w] # Nil /\ asked[w].op = "import" => asked[w].rate = 1

SessionsInit ==
    /\ followed \in {"tariffs", "campaigns"}
    /\ TariffInit
    /\ IF followed = "campaigns" THEN Init ELSE CampaignsRest

SessionsNext ==
    /\ UNCHANGED followed
    /\ \/ followed = "campaigns" /\ Next /\ UNCHANGED tariffVars
       \/ followed = "tariffs" /\ TariffNext /\ UNCHANGED vars

SessionsSpec == SessionsInit /\ [][SessionsNext]_<<followed, vars, tariffVars>>
================================================================================
