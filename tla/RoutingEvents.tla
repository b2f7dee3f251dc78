----------------------------- MODULE RoutingEvents -----------------------------
(***************************************************************************)
(* create_routing_event with its scopes: the settings of campaigns and the *)
(* priorities of servers in one database.  The scope "none" only writes    *)
(* journal rows and changes no routing.                                    *)
(***************************************************************************)
EXTENDS CampaignRouting

VARIABLES priority, journal   \* as in ServerPriorities

Server == INSTANCE ServerPriorities

eventVars == <<routingVars, priority, journal>>

EventsInit == RoutingInit /\ Server!Init

EventsNext ==
    \/ RoutingNext /\ UNCHANGED <<priority, journal>>
    \/ Server!Next /\ UNCHANGED routingVars

EventsSpec == EventsInit /\ [][EventsNext]_eventVars

EventsTypeOK == RoutingTypeOK /\ Server!TypeOK

\* A server's current and previous route are those of its newest journal row.
PriorityFollowsJournal == Server!PriorityFollowsJournal
================================================================================
