---------------------------- MODULE CampaignRouting ----------------------------
(***************************************************************************)
(* Calling campaigns and the versions of their routing settings, as        *)
(* requests change them when every request runs alone.  A campaign without *)
(* an open version follows the server priority; an open version gives it a *)
(* route of its own, autorotation or both.                                 *)
(***************************************************************************)
EXTENDS Naturals

CONSTANTS Campaigns, Geos, Servers, Routes, SettingIds, None,
          RouteGeo     \* the GEO of each (actual) route

ASSUME RouteGeoAssumption == RouteGeo \in [Routes -> Geos]
ASSUME IdsAssumption == SettingIds \subseteq Nat
ASSUME NoneAssumption == None \notin Geos \cup Routes

\* A campaign of several GEOs has none of its own.
CampaignRows == [geo: Geos \cup {None}, server: Servers, is_active: BOOLEAN]

Decisions == [route: Routes \cup {None}, autorotation: BOOLEAN]
ServerPriority == [route |-> None, autorotation |-> FALSE]

\* routing_mode is a function of the decision and is not repeated.
Versions == [campaign: Campaigns, geo: Geos \cup {None}, server: Servers,
             decision: Decisions, open: BOOLEAN]

ASSUME RowsAssumption == None \notin CampaignRows \cup Versions

CampaignChanges == [kind: {"enable_autorotation", "disable_autorotation", "remove_campaign_route"}]
           \cup [kind: {"set_campaign_route"}, route: Routes]

VARIABLES campaign,   \* Campaigns -> row or None
          settings,   \* SettingIds -> version or None
          announced   \* per campaign, the decision its newest history states

routingVars == <<campaign, settings, announced>>

(***************************************************************************)
(* Reading                                                                 *)
(***************************************************************************)
OpenVersions(c) ==
    {n \in SettingIds : settings[n] # None /\ settings[n].campaign = c /\ settings[n].open}

\* ORDER BY id DESC LIMIT 1
ActiveSetting(c) == CHOOSE n \in OpenVersions(c) : \A m \in OpenVersions(c) : m <= n

InForce(c) ==
    IF OpenVersions(c) = {} THEN ServerPriority ELSE settings[ActiveSetting(c)].decision

\* A decision that needs a version; the other one is the server priority.
Decides(d) == d.route # None \/ d.autorotation

(***************************************************************************)
(* What a routing event of scope campaign_setting asks of a campaign       *)
(***************************************************************************)
GeoFits(c, r) == campaign[c].geo \in {None, RouteGeo[r]}

\* Events that change nothing are skipped.
NoChange(c, e) ==
    CASE e.kind = "enable_autorotation" -> InForce(c).autorotation
      [] e.kind = "disable_autorotation" -> ~InForce(c).autorotation
      [] e.kind = "set_campaign_route" -> GeoFits(c, e.route) /\ InForce(c).route = e.route
      [] e.kind = "remove_campaign_route" -> InForce(c).route = None

NewDecision(c, e) ==
    CASE e.kind = "enable_autorotation" -> [InForce(c) EXCEPT !.autorotation = TRUE]
      [] e.kind = "disable_autorotation" -> [InForce(c) EXCEPT !.autorotation = FALSE]
      [] e.kind = "set_campaign_route" -> [InForce(c) EXCEPT !.route = e.route]
      [] e.kind = "remove_campaign_route" -> [InForce(c) EXCEPT !.route = None]

EventGeo(c, e) ==
    CASE e.kind = "set_campaign_route" -> RouteGeo[e.route]
      [] e.kind = "remove_campaign_route" -> RouteGeo[InForce(c).route]
      [] OTHER -> IF campaign[c].geo = None /\ InForce(c).route # None
                  THEN settings[ActiveSetting(c)].geo
                  ELSE campaign[c].geo

\* Fault: the route is not compared with the GEO.
ValidValuesAnyRoute(c, d, g) ==
    /\ campaign[c].geo = None => d.route = None
    /\ campaign[c].geo # None => g = campaign[c].geo

\* _validate_company_routing_values
ValidValues(c, d, g) ==
    /\ campaign[c].geo = None => d.route = None
    /\ campaign[c].geo # None => g = campaign[c].geo
    /\ d.route # None /\ g # None => RouteGeo[d.route] = g

Accepted(c, e) ==
    /\ e.kind = "set_campaign_route" => GeoFits(c, e.route)
    /\ Decides(NewDecision(c, e)) => ValidValues(c, NewDecision(c, e), EventGeo(c, e))

(***************************************************************************)
(* Requests                                                                *)
(***************************************************************************)
\* Fault: GEO and server are passed in the wrong order.
VersionSwapped(c, g, s, d) ==
    [campaign |-> c, geo |-> s, server |-> g, decision |-> d, open |-> TRUE]

Version(c, g, s, d) == [campaign |-> c, geo |-> g, server |-> s, decision |-> d, open |-> TRUE]

FreeIds == {n \in SettingIds : \A m \in SettingIds : settings[m] # None => m < n}

Closed(n) == [settings[n] EXCEPT !.open = FALSE]

RoutingInit ==
    /\ campaign = [c \in Campaigns |-> None]
    /\ settings = [n \in SettingIds |-> None]
    /\ announced = [c \in Campaigns |-> ServerPriority]

\* create_calling_company: with autorotation, its first version is opened.
CreateCampaign(c, row, auto) ==
    /\ campaign[c] = None
    /\ campaign' = [campaign EXCEPT ![c] = row]
    /\ announced' = [announced EXCEPT ![c].autorotation = auto]
    /\ IF auto
       THEN \E n \in FreeIds :
              settings' = [settings EXCEPT ![n] = Version(c, row.geo, row.server, announced'[c])]
       ELSE UNCHANGED settings

\* update_calling_company, update_calling_company_import_fields: the settings
\* are not looked at.
UpdateCampaign(c, row) ==
    /\ campaign[c] # None
    /\ campaign' = [campaign EXCEPT ![c] = row]
    /\ UNCHANGED <<settings, announced>>

\* Fault: the version in force is left when the event closes nothing else.
ApplyEventOpenOnly(cs, e, at) ==
    /\ settings' = [n \in SettingIds |->
          IF \E c \in cs : Decides(NewDecision(c, e)) /\ at[c] = n
          THEN LET c == CHOOSE c \in cs : at[c] = n
               IN  Version(c, EventGeo(c, e), campaign[c].server, NewDecision(c, e))
          ELSE IF \E c \in cs : Decides(NewDecision(c, e)) /\ n \in OpenVersions(c)
          THEN Closed(n)
          ELSE settings[n]]
    /\ announced' = [c \in Campaigns |-> IF c \in cs THEN NewDecision(c, e) ELSE announced[c]]

\* Fault: only a return to server priority closes the version in force.
ApplyEventClosingLast(cs, e, at) ==
    /\ settings' = [n \in SettingIds |->
          IF \E c \in cs : Decides(NewDecision(c, e)) /\ at[c] = n
          THEN LET c == CHOOSE c \in cs : at[c] = n
               IN  Version(c, EventGeo(c, e), campaign[c].server, NewDecision(c, e))
          ELSE IF \E c \in cs : ~Decides(NewDecision(c, e)) /\ n \in OpenVersions(c)
          THEN Closed(n)
          ELSE settings[n]]
    /\ announced' = [c \in Campaigns |-> IF c \in cs THEN NewDecision(c, e) ELSE announced[c]]

\* The campaigns cs change: the version in force is closed and, when the new
\* decision needs one, another is opened.
ApplyEvent(cs, e, at) ==
    /\ settings' = [n \in SettingIds |->
          IF \E c \in cs : Decides(NewDecision(c, e)) /\ at[c] = n
          THEN LET c == CHOOSE c \in cs : at[c] = n
               IN  Version(c, EventGeo(c, e), campaign[c].server, NewDecision(c, e))
          ELSE IF \E c \in cs : n \in OpenVersions(c) THEN Closed(n)
          ELSE settings[n]]
    /\ announced' = [c \in Campaigns |-> IF c \in cs THEN NewDecision(c, e) ELSE announced[c]]

\* /provider-changes/create for the selected campaigns, in one transaction: a
\* campaign that is already as asked is skipped, any other refusal undoes all.
RoutingEvent(cs, e) ==
    LET changing == {c \in cs : ~NoChange(c, e)} IN
    /\ \A c \in cs : campaign[c] # None /\ campaign[c].is_active
    /\ \A c \in changing : Accepted(c, e)
    /\ changing # {}
    /\ \E at \in [changing -> FreeIds] :
          /\ \A c, d \in changing : at[c] = at[d] => c = d
          /\ ApplyEvent(changing, e, at)
    /\ UNCHANGED campaign

RoutingNext ==
    \/ \E c \in Campaigns, row \in CampaignRows, auto \in BOOLEAN : CreateCampaign(c, row, auto)
    \/ \E c \in Campaigns, row \in CampaignRows : UpdateCampaign(c, row)
    \/ \E cs \in SUBSET Campaigns, e \in CampaignChanges : RoutingEvent(cs, e)

RoutingSpec == RoutingInit /\ [][RoutingNext]_routingVars

(***************************************************************************)
(* Properties                                                              *)
(***************************************************************************)
RoutingTypeOK ==
    /\ campaign \in [Campaigns -> CampaignRows \cup {None}]
    /\ settings \in [SettingIds -> Versions \cup {None}]
    /\ announced \in [Campaigns -> Decisions]

\* A campaign has at most one open version of its settings
\* (ux_company_routing_settings_one_active never refuses an event).
OneOpenVersion == \A c \in Campaigns : \A m, n \in OpenVersions(c) : m = n

\* The routing in force is what the newest event of the campaign announced,
\* through closed versions, skipped events and a return to server priority.
JournalTrue == \A c \in Campaigns : InForce(c) = announced[c]

\* A version that is open decides something and its GEO is that of its route,
\* wherever its campaign has been moved since.
VersionsCoherent ==
    \A n \in SettingIds : settings[n] # None =>
        /\ Decides(settings[n].decision)
        /\ settings[n].decision.route # None =>
              settings[n].geo = RouteGeo[settings[n].decision.route]

\* A version opens with the server of its campaign, and with its GEO unless
\* the campaign has several; closed versions never change.
OpenedForCampaign ==
    [][\A n \in SettingIds :
         LET new == settings'[n] IN
         /\ settings[n] = None /\ new # None =>
               /\ new.server = campaign'[new.campaign].server
               /\ campaign'[new.campaign].geo \in {None, new.geo}
         /\ settings[n] # None /\ ~settings[n].open => new = settings[n]]_routingVars

\* What an event does not ask for stays as it was: no step changes the route
\* of a campaign together with its autorotation.
OnlyAsked ==
    [][\A c \in Campaigns :
         \/ InForce(c)'.route = InForce(c).route
         \/ InForce(c)'.autorotation = InForce(c).autorotation]_routingVars

\* The open version of a campaign has the GEO and the server of the campaign.
SettingMatchesCampaign ==
    \A c \in Campaigns : \A n \in OpenVersions(c) :
        settings[n].geo = campaign[c].geo /\ settings[n].server = campaign[c].server
================================================================================
