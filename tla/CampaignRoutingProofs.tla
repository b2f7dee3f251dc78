------------------------- MODULE CampaignRoutingProofs -------------------------
(***************************************************************************)
(* Proofs about CampaignRouting and RoutingEvents: the one open version of *)
(* a campaign and its agreement with what the newest event announced, and  *)
(* the priorities of servers and their journal, for any sets of campaigns, *)
(* GEOs, servers, routes and ids.                                          *)
(***************************************************************************)
EXTENDS RoutingEvents, TLAPS

\* A campaign that does not exist yet follows the server priority.
Unmade ==
    \A c \in Campaigns : campaign[c] = None =>
        announced[c] = ServerPriority /\ OpenVersions(c) = {}

RoutingInv ==
    /\ RoutingTypeOK
    /\ OneOpenVersion
    /\ JournalTrue
    /\ VersionsCoherent
    /\ Unmade

--------------------------------------------------------------------------------
\* The newest of a single version.
LEMMA NewestOfOne ==
  ASSUME NEW n \in Nat
  PROVE  (CHOOSE x \in {n} : \A m \in {n} : m <= x) = n
<1>1. \A m \in {n} : m <= n
  OBVIOUS
<1> QED
  BY <1>1

\* A stored row is never the absent one.
LEMMA NotNone ==
  /\ \A v \in Versions : v # None
  /\ \A row \in CampaignRows : row # None
  BY RowsAssumption

\* Following the server priority is the one decision without a version.
LEMMA ServerPriorityDecision ==
  ServerPriority \in Decisions /\ ~Decides(ServerPriority)
  BY DEF ServerPriority, Decisions, Decides

\* An open version is the active setting of its campaign.
LEMMA OpenIsActive ==
  ASSUME RoutingTypeOK, OneOpenVersion, NEW c \in Campaigns, NEW n \in OpenVersions(c)
  PROVE  /\ n \in SettingIds /\ settings[n] \in Versions
         /\ OpenVersions(c) = {n}
         /\ ActiveSetting(c) = n
         /\ InForce(c) = settings[n].decision
<1>1. n \in SettingIds /\ settings[n] # None
  BY DEF OpenVersions
<1>2. settings[n] \in Versions
  BY <1>1 DEF RoutingTypeOK
<1>3. OpenVersions(c) = {n}
  BY DEF OneOpenVersion
<1>4. n \in Nat
  BY <1>1, IdsAssumption
<1>5. ActiveSetting(c) = n
  BY <1>3, <1>4, NewestOfOne DEF ActiveSetting
<1> QED
  BY <1>1, <1>2, <1>3, <1>5 DEF InForce

\* What is in force is a decision.
LEMMA InForceType ==
  ASSUME RoutingTypeOK, OneOpenVersion, NEW c \in Campaigns PROVE InForce(c) \in Decisions
<1>1. CASE OpenVersions(c) = {}
  BY <1>1, ServerPriorityDecision DEF InForce
<1>2. CASE OpenVersions(c) # {}
  <2>1. PICK n : n \in OpenVersions(c)
    BY <1>2
  <2>2. settings[n] \in Versions /\ InForce(c) = settings[n].decision
    BY <2>1, OpenIsActive
  <2> QED
    BY <2>2 DEF Versions
<1> QED
  BY <1>1, <1>2

\* What an event turns it into is a decision again.
LEMMA NewDecisionType ==
  ASSUME RoutingTypeOK, OneOpenVersion, NEW c \in Campaigns, NEW e \in CampaignChanges
  PROVE  NewDecision(c, e) \in Decisions
<1> DEFINE f == InForce(c)
<1>1. f \in Decisions
  BY InForceType
<1> HIDE DEF f
<1>2. /\ [f EXCEPT !.autorotation = TRUE] \in Decisions
      /\ [f EXCEPT !.autorotation = FALSE] \in Decisions
      /\ [f EXCEPT !.route = None] \in Decisions
      /\ \A r \in Routes : [f EXCEPT !.route = r] \in Decisions
  BY <1>1 DEF Decisions
<1>3. \/ e.kind \in {"enable_autorotation", "disable_autorotation", "remove_campaign_route"}
      \/ e.kind = "set_campaign_route" /\ e.route \in Routes
  BY DEF CampaignChanges
<1> QED
  BY <1>2, <1>3 DEF NewDecision, f

\* The GEO recorded with an event exists, or is none for several GEOs.
LEMMA EventGeoType ==
  ASSUME RoutingTypeOK, OneOpenVersion, NEW c \in Campaigns, NEW e \in CampaignChanges,
         campaign[c] # None, ~NoChange(c, e)
  PROVE  EventGeo(c, e) \in Geos \cup {None}
<1>1. campaign[c].geo \in Geos \cup {None}
  BY DEF RoutingTypeOK, CampaignRows
<1>2. ASSUME InForce(c).route # None
      PROVE  settings[ActiveSetting(c)].geo \in Geos \cup {None}
  <2>1. OpenVersions(c) # {}
    BY <1>2 DEF InForce, ServerPriority
  <2>2. PICK n : n \in OpenVersions(c)
    BY <2>1
  <2>3. ActiveSetting(c) = n /\ settings[n] \in Versions
    BY <2>2, OpenIsActive
  <2> QED
    BY <2>3 DEF Versions
<1>3. CASE e.kind = "set_campaign_route"
  <2>1. e.route \in Routes
    BY <1>3 DEF CampaignChanges
  <2> QED
    BY <1>3, <2>1, RouteGeoAssumption DEF EventGeo
<1>4. CASE e.kind = "remove_campaign_route"
  <2>1. InForce(c).route \in Routes
    BY <1>4, InForceType DEF NoChange, Decisions
  <2> QED
    BY <1>4, <2>1, RouteGeoAssumption DEF EventGeo
<1>5. CASE e.kind \in {"enable_autorotation", "disable_autorotation"}
  BY <1>1, <1>2, <1>5 DEF EventGeo
<1> QED
  BY <1>3, <1>4, <1>5 DEF CampaignChanges

\* Opening writes a row of the table.
LEMMA VersionType ==
  ASSUME NEW c \in Campaigns, NEW g \in Geos \cup {None}, NEW s \in Servers,
         NEW d \in Decisions
  PROVE  /\ Version(c, g, s, d) \in Versions
         /\ Version(c, g, s, d) # None
  BY NotNone DEF Version, Versions

\* Closing keeps all of a version but its being open.
LEMMA ClosedType ==
  ASSUME RoutingTypeOK, NEW n \in SettingIds, settings[n] # None
  PROVE  /\ Closed(n) \in Versions
         /\ ~Closed(n).open
         /\ Closed(n) # None
         /\ Closed(n).decision = settings[n].decision
         /\ Closed(n).geo = settings[n].geo
         /\ Closed(n).campaign = settings[n].campaign
<1>1. settings[n] \in Versions
  BY DEF RoutingTypeOK
<1> QED
  BY <1>1, NotNone DEF Closed, Versions

--------------------------------------------------------------------------------
\* A version under a free id is no open version yet.
LEMMA FreeIsUnused ==
  ASSUME NEW n \in FreeIds
  PROVE  n \in SettingIds /\ settings[n] = None /\ (\A c \in Campaigns : n \notin OpenVersions(c))
<1>1. n \in SettingIds /\ (settings[n] # None => n < n)
  BY DEF FreeIds
<1>2. settings[n] = None
  BY <1>1, IdsAssumption
<1> QED
  BY <1>1, <1>2 DEF OpenVersions

\* The conjuncts of RoutingInv, once it is known which versions are open
\* afterwards: none or one, of the decision announced.
LEMMA InvFromOpen ==
  ASSUME RoutingTypeOK', VersionsCoherent',
         \A c \in Campaigns :
            \/ OpenVersions(c)' = {} /\ announced'[c] = ServerPriority
            \/ \E n \in SettingIds :
                 /\ OpenVersions(c)' = {n}
                 /\ settings'[n].decision = announced'[c]
                 /\ campaign'[c] # None
  PROVE  RoutingInv'
<1>1. OneOpenVersion'
  BY DEF OneOpenVersion
<1>2. ASSUME NEW c \in Campaigns PROVE InForce(c)' = announced'[c]
  <2>1. CASE OpenVersions(c)' = {} /\ announced'[c] = ServerPriority
    BY <2>1 DEF InForce
  <2>2. ASSUME NEW n \in SettingIds, OpenVersions(c)' = {n},
               settings'[n].decision = announced'[c]
        PROVE  InForce(c)' = announced'[c]
    <3>1. n \in Nat
      BY IdsAssumption
    <3>2. ActiveSetting(c)' = n
      BY <2>2, <3>1, NewestOfOne DEF ActiveSetting
    <3> QED
      BY <2>2, <3>2 DEF InForce
  <2> QED
    BY <2>1, <2>2
<1>3. JournalTrue'
  BY <1>2 DEF JournalTrue
<1>4. Unmade'
  BY DEF Unmade
<1> QED
  BY <1>1, <1>3, <1>4 DEF RoutingInv

\* What is open before a step, in the same form.
LEMMA OpenFromInv ==
  ASSUME RoutingInv, NEW c \in Campaigns
  PROVE  \/ OpenVersions(c) = {} /\ announced[c] = ServerPriority
         \/ \E n \in SettingIds :
              /\ OpenVersions(c) = {n}
              /\ settings[n].decision = announced[c]
              /\ campaign[c] # None
<1>1. CASE OpenVersions(c) = {}
  BY <1>1 DEF RoutingInv, JournalTrue, InForce
<1>2. CASE OpenVersions(c) # {}
  <2>1. PICK n : n \in OpenVersions(c)
    BY <1>2
  <2>2. /\ n \in SettingIds
        /\ OpenVersions(c) = {n}
        /\ InForce(c) = settings[n].decision
    BY <2>1, OpenIsActive DEF RoutingInv
  <2>3. campaign[c] # None
    BY <1>2 DEF RoutingInv, Unmade
  <2> QED
    BY <2>2, <2>3 DEF RoutingInv, JournalTrue
<1> QED
  BY <1>1, <1>2

--------------------------------------------------------------------------------
\* A program without campaigns satisfies the invariant.
LEMMA InitInv == RoutingInit => RoutingInv
<1> SUFFICES ASSUME RoutingInit PROVE RoutingInv
  OBVIOUS
<1>1. RoutingTypeOK
  BY ServerPriorityDecision DEF RoutingInit, RoutingTypeOK
<1>2. \A c \in Campaigns : OpenVersions(c) = {}
  BY DEF RoutingInit, OpenVersions
<1>3. OneOpenVersion /\ JournalTrue /\ VersionsCoherent /\ Unmade
  BY <1>2 DEF RoutingInit, OneOpenVersion, JournalTrue, InForce, VersionsCoherent, Unmade
<1> QED
  BY <1>1, <1>3 DEF RoutingInv

\* create_calling_company opens at most the first version of its campaign.
LEMMA CreateInv ==
  ASSUME RoutingInv, NEW c \in Campaigns, NEW row \in CampaignRows, NEW auto \in BOOLEAN,
         CreateCampaign(c, row, auto)
  PROVE  RoutingInv'
<1> DEFINE d == [route |-> None, autorotation |-> auto]
<1>1. d \in Decisions /\ d.route = None
  BY DEF Decisions
<1>2. announced' = [announced EXCEPT ![c] = d] /\ OpenVersions(c) = {}
  <2>1. announced[c] = ServerPriority /\ OpenVersions(c) = {}
    BY DEF CreateCampaign, RoutingInv, Unmade
  <2>2. announced' = [announced EXCEPT ![c] = [announced[c] EXCEPT !.autorotation = auto]]
    BY DEF CreateCampaign
  <2>3. [ServerPriority EXCEPT !.autorotation = auto] = d
    BY DEF ServerPriority
  <2> QED
    BY <2>1, <2>2, <2>3
<1>3. announced'[c] = d /\ announced' \in [Campaigns -> Decisions]
  BY <1>1, <1>2 DEF RoutingInv, RoutingTypeOK
<1>4. campaign' \in [Campaigns -> CampaignRows \cup {None}] /\ campaign'[c] # None
  BY NotNone DEF CreateCampaign, RoutingInv, RoutingTypeOK
<1>5. \A x \in Campaigns \ {c} : announced'[x] = announced[x] /\ campaign'[x] = campaign[x]
  BY <1>2 DEF CreateCampaign, RoutingInv, RoutingTypeOK
<1>6. CASE ~auto
  <2>1. settings' = settings
    BY <1>6 DEF CreateCampaign
  <2>2. d = ServerPriority
    BY <1>6 DEF ServerPriority
  <2>3. RoutingTypeOK' /\ VersionsCoherent'
    BY <1>3, <1>4, <2>1 DEF RoutingInv, RoutingTypeOK, VersionsCoherent
  <2>4. \A x \in Campaigns : OpenVersions(x)' = OpenVersions(x)
    BY <2>1 DEF OpenVersions
  <2> QED
    BY <1>2, <1>3, <1>5, <2>1, <2>2, <2>3, <2>4, OpenFromInv, InvFromOpen
<1>7. CASE auto
  <2> DEFINE v == Version(c, row.geo, row.server, d)
  <2>1. PICK n \in FreeIds : settings' = [settings EXCEPT ![n] = v]
    BY <1>7, <1>3 DEF CreateCampaign
  <2>2. n \in SettingIds /\ settings[n] = None /\ \A x \in Campaigns : n \notin OpenVersions(x)
    BY FreeIsUnused
  <2>3. v \in Versions /\ v # None
    <3>1. row.geo \in Geos \cup {None} /\ row.server \in Servers
      BY DEF CampaignRows
    <3> QED
      BY <1>1, <3>1, VersionType
  <2>4. v.campaign = c /\ v.open /\ v.decision = d
    BY DEF Version
  <2>5. Decides(d)
    BY <1>7 DEF Decides
  <2> HIDE DEF v, d
  <2>6. settings'[n] = v /\ \A m \in SettingIds \ {n} : settings'[m] = settings[m]
    BY <2>1, <2>2 DEF RoutingInv, RoutingTypeOK
  <2>7. RoutingTypeOK'
    BY <1>3, <1>4, <2>1, <2>3 DEF RoutingInv, RoutingTypeOK
  <2>8. VersionsCoherent'
    BY <1>1, <2>4, <2>5, <2>6 DEF RoutingInv, VersionsCoherent
  <2>9. OpenVersions(c)' = {n}
    BY <1>2, <2>2, <2>3, <2>4, <2>6 DEF OpenVersions
  <2>10. \A x \in Campaigns \ {c} : OpenVersions(x)' = OpenVersions(x)
    BY <2>2, <2>4, <2>6 DEF OpenVersions
  <2>11. settings'[n].decision = announced'[c]
    BY <1>3, <2>4, <2>6
  <2>12. ASSUME NEW x \in Campaigns \ {c}
         PROVE  \/ OpenVersions(x)' = {} /\ announced'[x] = ServerPriority
                \/ \E m \in SettingIds :
                     /\ OpenVersions(x)' = {m}
                     /\ settings'[m].decision = announced'[x]
                     /\ campaign'[x] # None
    <3>1. \A m \in OpenVersions(x) : settings'[m] = settings[m]
      BY <2>2, <2>6 DEF OpenVersions
    <3> QED
      BY <1>5, <2>10, <3>1, OpenFromInv
  <2> QED
    BY <1>4, <2>2, <2>7, <2>8, <2>9, <2>11, <2>12, InvFromOpen
<1> QED
  BY <1>6, <1>7

\* update_calling_company leaves all versions alone.
LEMMA UpdateInv ==
  ASSUME RoutingInv, NEW c \in Campaigns, NEW row \in CampaignRows, UpdateCampaign(c, row)
  PROVE  RoutingInv'
<1>1. settings' = settings /\ announced' = announced
  BY DEF UpdateCampaign
<1>2. RoutingTypeOK' /\ VersionsCoherent'
  BY <1>1 DEF UpdateCampaign, RoutingInv, RoutingTypeOK, VersionsCoherent
<1>3. \A x \in Campaigns : OpenVersions(x)' = OpenVersions(x)
  BY <1>1 DEF OpenVersions
<1>4. \A x \in Campaigns : campaign[x] # None => campaign'[x] # None
  BY NotNone DEF UpdateCampaign, RoutingInv, RoutingTypeOK
<1> QED
  BY <1>1, <1>2, <1>3, <1>4, OpenFromInv, InvFromOpen

\* What ApplyEvent leaves under each id, case by case.
LEMMA EventVersions ==
  ASSUME RoutingInv, NEW S \in SUBSET Campaigns, NEW e \in CampaignChanges,
         NEW at \in [S -> FreeIds], \A c, d \in S : at[c] = at[d] => c = d,
         ApplyEvent(S, e, at)
  PROVE  /\ \A c \in S : Decides(NewDecision(c, e)) =>
              settings'[at[c]] = Version(c, EventGeo(c, e), campaign[c].server, NewDecision(c, e))
         /\ \A c \in S : \A n \in OpenVersions(c) : settings'[n] = Closed(n)
         /\ \A n \in SettingIds :
              \/ \E c \in S : Decides(NewDecision(c, e)) /\ at[c] = n
              \/ \E c \in S : n \in OpenVersions(c)
              \/ settings'[n] = settings[n]
<1> DEFINE Opened(n) == \E c \in S : Decides(NewDecision(c, e)) /\ at[c] = n
           Ver(c) == Version(c, EventGeo(c, e), campaign[c].server, NewDecision(c, e))
           Who(n) == CHOOSE c \in S : at[c] = n
<1>1. settings' = [n \in SettingIds |->
          IF Opened(n) THEN Ver(Who(n))
          ELSE IF \E c \in S : n \in OpenVersions(c) THEN Closed(n)
          ELSE settings[n]]
  BY DEF ApplyEvent
<1>2. ASSUME NEW c \in S, Decides(NewDecision(c, e))
      PROVE  settings'[at[c]] = Ver(c)
  <2>1. at[c] \in SettingIds
    BY FreeIsUnused
  <2>2. Opened(at[c])
    BY <1>2
  <2>3. Who(at[c]) = c
    OBVIOUS
  <2> HIDE DEF Opened, Ver, Who
  <2>4. settings'[at[c]] = Ver(Who(at[c]))
    BY <1>1, <2>1, <2>2
  <2> QED
    BY <2>3, <2>4
<1>3. ASSUME NEW c \in S, NEW n \in OpenVersions(c) PROVE settings'[n] = Closed(n)
  <2>1. n \in SettingIds
    BY DEF OpenVersions
  <2>2. ~Opened(n)
    BY FreeIsUnused
  <2> HIDE DEF Opened, Ver, Who
  <2> QED
    BY <1>1, <2>1, <2>2
<1>4. ASSUME NEW n \in SettingIds, ~Opened(n), ~\E c \in S : n \in OpenVersions(c)
      PROVE  settings'[n] = settings[n]
  <2> HIDE DEF Opened, Ver, Who
  <2> QED
    BY <1>1, <1>4
<1> QED
  BY <1>2, <1>3, <1>4

\* An event closes what was in force in the campaigns it changes and opens
\* exactly what it announces, the other campaigns keep theirs.
LEMMA EventInv ==
  ASSUME RoutingInv, NEW cs \in SUBSET Campaigns, NEW e \in CampaignChanges, RoutingEvent(cs, e)
  PROVE  RoutingInv'
<1> DEFINE S == {c \in cs : ~NoChange(c, e)}
           ND(c) == NewDecision(c, e)
           Ver(c) == Version(c, EventGeo(c, e), campaign[c].server, ND(c))
<1>1. /\ S \in SUBSET Campaigns
      /\ \A c \in S : campaign[c] # None /\ ~NoChange(c, e) /\ Accepted(c, e)
      /\ campaign' = campaign
  BY DEF RoutingEvent
<1>2. PICK at \in [S -> FreeIds] :
          /\ \A c, d \in S : at[c] = at[d] => c = d
          /\ ApplyEvent(S, e, at)
  BY DEF RoutingEvent
<1> HIDE DEF S
<1>3. \A c \in S : ND(c) \in Decisions
  BY <1>1, NewDecisionType DEF RoutingInv
<1>4. \A c \in S : Ver(c) \in Versions /\ Ver(c) # None
  <2> TAKE c \in S
  <2>1. EventGeo(c, e) \in Geos \cup {None}
    BY <1>1, EventGeoType DEF RoutingInv
  <2>2. campaign[c].server \in Servers
    BY <1>1 DEF RoutingInv, RoutingTypeOK, CampaignRows
  <2> QED
    BY <1>1, <1>3, <2>1, <2>2, VersionType
<1>5. \A c \in S : Ver(c).campaign = c /\ Ver(c).open /\ Ver(c).decision = ND(c)
                  /\ Ver(c).geo = EventGeo(c, e)
  BY DEF Version
<1>6. /\ \A c \in S : Decides(ND(c)) => settings'[at[c]] = Ver(c)
      /\ \A c \in S : \A n \in OpenVersions(c) : settings'[n] = Closed(n)
      /\ \A n \in SettingIds :
           \/ \E c \in S : Decides(ND(c)) /\ at[c] = n
           \/ \E c \in S : n \in OpenVersions(c)
           \/ settings'[n] = settings[n]
  BY <1>1, <1>2, EventVersions
<1>7. \A c \in S : /\ at[c] \in SettingIds
                  /\ settings[at[c]] = None
                  /\ \A x \in Campaigns : at[c] \notin OpenVersions(x)
  BY <1>2, FreeIsUnused
<1>8. announced' = [c \in Campaigns |-> IF c \in S THEN ND(c) ELSE announced[c]]
  BY <1>2 DEF ApplyEvent
<1> HIDE DEF Ver, ND
<1>9. \A c \in Campaigns : \A n \in OpenVersions(c) :
        /\ n \in SettingIds /\ settings[n] # None /\ settings[n].campaign = c
        /\ Closed(n) \in Versions /\ ~Closed(n).open
        /\ Closed(n).decision = settings[n].decision /\ Closed(n).geo = settings[n].geo
  <2> TAKE c \in Campaigns
  <2> TAKE n \in OpenVersions(c)
  <2>1. n \in SettingIds /\ settings[n] # None /\ settings[n].campaign = c
    BY DEF OpenVersions
  <2> QED
    BY <2>1, ClosedType DEF RoutingInv
<1>10. RoutingTypeOK'
  <2>1. settings' \in [SettingIds -> Versions \cup {None}]
    <3>1. \A n \in SettingIds : settings'[n] \in Versions \cup {None}
      BY <1>1, <1>4, <1>6, <1>9 DEF RoutingInv, RoutingTypeOK
    <3>2. DOMAIN settings' = SettingIds /\ settings' = [n \in SettingIds |-> settings'[n]]
      BY <1>2 DEF ApplyEvent
    <3> QED
      BY <3>1, <3>2
  <2>2. announced' \in [Campaigns -> Decisions]
    BY <1>3, <1>8 DEF RoutingInv, RoutingTypeOK
  <2> QED
    BY <1>1, <2>1, <2>2 DEF RoutingInv, RoutingTypeOK
<1>11. VersionsCoherent'
  <2> SUFFICES ASSUME NEW n \in SettingIds, settings'[n] # None
               PROVE  /\ Decides(settings'[n].decision)
                      /\ settings'[n].decision.route # None =>
                            settings'[n].geo = RouteGeo[settings'[n].decision.route]
    BY DEF VersionsCoherent
  <2>1. ASSUME NEW c \in S, Decides(ND(c)), at[c] = n
        PROVE  /\ Decides(settings'[n].decision)
               /\ settings'[n].decision.route # None =>
                     settings'[n].geo = RouteGeo[settings'[n].decision.route]
    <3>1. settings'[n].decision = ND(c) /\ settings'[n].geo = EventGeo(c, e)
      BY <1>5, <1>6, <2>1
    <3>2. ValidValues(c, ND(c), EventGeo(c, e))
      BY <1>1, <2>1 DEF Accepted, ND
    <3>3. ASSUME ND(c).route # None PROVE EventGeo(c, e) = RouteGeo[ND(c).route]
      <4>1. campaign[c].geo # None /\ EventGeo(c, e) = campaign[c].geo
        BY <3>2, <3>3 DEF ValidValues
      <4> QED
        BY <3>2, <3>3, <4>1 DEF ValidValues
    <3> QED
      BY <2>1, <3>1, <3>3
  <2>2. ASSUME NEW c \in S, n \in OpenVersions(c)
        PROVE  /\ Decides(settings'[n].decision)
               /\ settings'[n].decision.route # None =>
                     settings'[n].geo = RouteGeo[settings'[n].decision.route]
    BY <1>1, <1>6, <1>9, <2>2 DEF RoutingInv, VersionsCoherent
  <2>3. CASE settings'[n] = settings[n]
    BY <2>3 DEF RoutingInv, VersionsCoherent
  <2> QED
    BY <1>6, <2>1, <2>2, <2>3
<1>12. ASSUME NEW c \in S, Decides(ND(c))
       PROVE  OpenVersions(c)' = {at[c]} /\ settings'[at[c]].decision = announced'[c]
                /\ campaign'[c] # None
  <2>1. settings'[at[c]] = Ver(c) /\ at[c] \in SettingIds
    BY <1>6, <1>7, <1>12
  <2>2. at[c] \in OpenVersions(c)'
    BY <1>4, <1>5, <2>1 DEF OpenVersions
  <2>3. ASSUME NEW n \in OpenVersions(c)' PROVE n = at[c]
    <3>1. n \in SettingIds /\ settings'[n] # None /\ settings'[n].campaign = c /\ settings'[n].open
      BY DEF OpenVersions
    <3>2. ASSUME NEW d \in S, Decides(ND(d)), at[d] = n PROVE n = at[c]
      <4>1. d = c
        BY <1>5, <1>6, <3>1, <3>2
      <4> QED
        BY <3>2, <4>1
    <3>3. ASSUME NEW d \in S, n \in OpenVersions(d) PROVE FALSE
      BY <1>1, <1>6, <1>9, <3>1, <3>3
    <3>4. ASSUME settings'[n] = settings[n], ~\E d \in S : n \in OpenVersions(d) PROVE FALSE
      BY <3>1, <3>4 DEF OpenVersions
    <3> QED
      BY <1>6, <3>1, <3>2, <3>3, <3>4
  <2>4. announced'[c] = ND(c) /\ campaign'[c] # None
    BY <1>1, <1>8
  <2> QED
    BY <1>5, <2>1, <2>2, <2>3, <2>4
<1>13. ASSUME NEW c \in S, ~Decides(ND(c))
       PROVE  OpenVersions(c)' = {} /\ announced'[c] = ServerPriority
  <2>1. ASSUME NEW n \in OpenVersions(c)' PROVE FALSE
    <3>1. n \in SettingIds /\ settings'[n] # None /\ settings'[n].campaign = c /\ settings'[n].open
      BY DEF OpenVersions
    <3>2. ASSUME NEW d \in S, Decides(ND(d)), at[d] = n PROVE FALSE
      BY <1>5, <1>6, <1>13, <3>1, <3>2
    <3>3. ASSUME NEW d \in S, n \in OpenVersions(d) PROVE FALSE
      BY <1>1, <1>6, <1>9, <3>1, <3>3
    <3>4. ASSUME settings'[n] = settings[n], ~\E d \in S : n \in OpenVersions(d) PROVE FALSE
      BY <3>1, <3>4 DEF OpenVersions
    <3> QED
      BY <1>6, <3>1, <3>2, <3>3, <3>4
  <2>2. announced'[c] = ND(c)
    BY <1>1, <1>8
  <2>3. ND(c) = ServerPriority
    <3> DEFINE d == ND(c)
    <3>1. d \in Decisions /\ ~Decides(d)
      BY <1>3, <1>13
    <3> HIDE DEF d
    <3>2. d = [route |-> d.route, autorotation |-> d.autorotation] /\ d.autorotation \in BOOLEAN
      BY <3>1 DEF Decisions
    <3>3. d.route = None /\ d.autorotation = FALSE
      BY <3>1, <3>2 DEF Decides
    <3> QED
      BY <3>2, <3>3 DEF ServerPriority, d
  <2> QED
    BY <2>1, <2>2, <2>3
<1>14. ASSUME NEW c \in Campaigns \ S
       PROVE  \/ OpenVersions(c)' = {} /\ announced'[c] = ServerPriority
              \/ \E n \in SettingIds :
                   /\ OpenVersions(c)' = {n}
                   /\ settings'[n].decision = announced'[c]
                   /\ campaign'[c] # None
  <2>1. ASSUME NEW n \in SettingIds, settings'[n] # settings[n]
        PROVE  n \notin OpenVersions(c) /\ n \notin OpenVersions(c)'
    <3>1. ASSUME NEW d \in S, Decides(ND(d)), at[d] = n
          PROVE  n \notin OpenVersions(c) /\ n \notin OpenVersions(c)'
      <4>1. settings'[n].campaign = d /\ d # c
        BY <1>5, <1>6, <3>1
      <4> QED
        BY <1>7, <3>1, <4>1 DEF OpenVersions
    <3>2. ASSUME NEW d \in S, n \in OpenVersions(d)
          PROVE  n \notin OpenVersions(c) /\ n \notin OpenVersions(c)'
      <4>1. settings[n].campaign = d /\ d # c
        BY <1>1, <1>9, <3>2
      <4>2. ~settings'[n].open
        BY <1>1, <1>6, <1>9, <3>2
      <4> QED
        BY <4>1, <4>2 DEF OpenVersions
    <3> QED
      BY <1>6, <2>1, <3>1, <3>2
  <2>2. \A n \in SettingIds : n \in OpenVersions(c)' <=> n \in OpenVersions(c)
    <3> TAKE n \in SettingIds
    <3>1. CASE settings'[n] = settings[n]
      BY <3>1 DEF OpenVersions
    <3> QED
      BY <2>1, <3>1
  <2>3. OpenVersions(c)' = OpenVersions(c)
    <3>1. OpenVersions(c)' \subseteq SettingIds /\ OpenVersions(c) \subseteq SettingIds
      BY DEF OpenVersions
    <3> QED
      BY <2>2, <3>1
  <2>4. \A n \in OpenVersions(c) : settings'[n] = settings[n]
    BY <2>1 DEF OpenVersions
  <2>5. announced'[c] = announced[c] /\ campaign'[c] = campaign[c]
    BY <1>1, <1>8
  <2> QED
    BY <2>3, <2>4, <2>5, OpenFromInv
<1> QED
  <2> SUFFICES ASSUME NEW c \in Campaigns
               PROVE  \/ OpenVersions(c)' = {} /\ announced'[c] = ServerPriority
                      \/ \E n \in SettingIds :
                           /\ OpenVersions(c)' = {n}
                           /\ settings'[n].decision = announced'[c]
                           /\ campaign'[c] # None
    BY <1>10, <1>11, InvFromOpen
  <2> QED
    BY <1>7, <1>12, <1>13, <1>14

\* The invariant depends on the variables only.
LEMMA StutterInv == RoutingInv /\ UNCHANGED routingVars => RoutingInv'
  BY DEF routingVars, RoutingInv, RoutingTypeOK, OneOpenVersion, JournalTrue, VersionsCoherent, Unmade,
         OpenVersions, InForce, ActiveSetting

--------------------------------------------------------------------------------
\* The inductive invariant holds in every reachable state.
LEMMA RoutingInvariant == RoutingSpec => []RoutingInv
<1>1. RoutingInv /\ [RoutingNext]_routingVars => RoutingInv'
  <2> SUFFICES ASSUME RoutingInv, [RoutingNext]_routingVars PROVE RoutingInv'
    OBVIOUS
  <2>1. ASSUME NEW c \in Campaigns, NEW row \in CampaignRows, NEW auto \in BOOLEAN,
               CreateCampaign(c, row, auto)
        PROVE  RoutingInv'
    BY <2>1, CreateInv
  <2>2. ASSUME NEW c \in Campaigns, NEW row \in CampaignRows, UpdateCampaign(c, row)
        PROVE  RoutingInv'
    BY <2>2, UpdateInv
  <2>3. ASSUME NEW cs \in SUBSET Campaigns, NEW e \in CampaignChanges, RoutingEvent(cs, e)
        PROVE  RoutingInv'
    BY <2>3, EventInv
  <2>4. CASE UNCHANGED routingVars
    BY <2>4, StutterInv
  <2> QED
    BY <2>1, <2>2, <2>3, <2>4 DEF RoutingNext
<1> QED
  BY <1>1, InitInv, PTL DEF RoutingSpec

\* Whatever campaigns, routes and events there are, the rows keep their types.
THEOREM TypeCorrect == RoutingSpec => []RoutingTypeOK
<1>1. RoutingInv => RoutingTypeOK
  BY DEF RoutingInv
<1> QED
  BY <1>1, RoutingInvariant, PTL

\* The partial unique index never refuses an event that runs alone: a campaign
\* never has two open versions.
THEOREM AtMostOneOpenVersion == RoutingSpec => []OneOpenVersion
<1>1. RoutingInv => OneOpenVersion
  BY DEF RoutingInv
<1> QED
  BY <1>1, RoutingInvariant, PTL

\* The routing in force is always the one its newest event announced.
THEOREM JournalExplainsRouting == RoutingSpec => []JournalTrue
<1>1. RoutingInv => JournalTrue
  BY DEF RoutingInv
<1> QED
  BY <1>1, RoutingInvariant, PTL

\* No version is empty, and the route of a version is of the version's GEO,
\* although campaigns move between GEOs.
THEOREM RoutesOfTheirGeo == RoutingSpec => []VersionsCoherent
<1>1. RoutingInv => VersionsCoherent
  BY DEF RoutingInv
<1> QED
  BY <1>1, RoutingInvariant, PTL

\* What an event did not ask for stays as it was: no request changes the route
\* of a campaign together with its autorotation.
THEOREM EventsChangeOnlyAsked == RoutingSpec => OnlyAsked
<1> DEFINE Kept(c) == \/ InForce(c)'.route = InForce(c).route
                      \/ InForce(c)'.autorotation = InForce(c).autorotation
<1>1. ASSUME RoutingInv, RoutingInv', [RoutingNext]_routingVars, NEW c \in Campaigns
      PROVE  Kept(c)
  <2>1. InForce(c) = announced[c] /\ InForce(c)' = announced'[c] /\ announced[c] \in Decisions
    BY <1>1 DEF RoutingInv, JournalTrue, RoutingTypeOK
  <2>2. ASSUME NEW x \in Campaigns, NEW row \in CampaignRows, NEW auto \in BOOLEAN,
               CreateCampaign(x, row, auto)
        PROVE  Kept(c)
    <3>1. announced' = [announced EXCEPT ![x] = [announced[x] EXCEPT !.autorotation = auto]]
      BY <2>2 DEF CreateCampaign
    <3>2. announced'[c].route = announced[c].route
      BY <1>1, <2>1, <3>1 DEF RoutingInv, RoutingTypeOK, Decisions
    <3> QED
      BY <2>1, <3>2
  <2>3. ASSUME NEW cs \in SUBSET Campaigns, NEW e \in CampaignChanges, RoutingEvent(cs, e)
        PROVE  Kept(c)
    <3>1. \/ announced'[c] = announced[c]
          \/ announced'[c] = NewDecision(c, e)
      BY <2>3 DEF RoutingEvent, ApplyEvent
    <3>2. CASE announced'[c] = NewDecision(c, e)
      <4> DEFINE f == announced[c]
      <4>1. /\ \A a \in BOOLEAN : [f EXCEPT !.autorotation = a].route = f.route
            /\ \A r \in Routes \cup {None} : [f EXCEPT !.route = r].autorotation = f.autorotation
        BY <2>1 DEF Decisions
      <4> HIDE DEF f
      <4>2. \/ announced'[c] = [f EXCEPT !.autorotation = TRUE]
            \/ announced'[c] = [f EXCEPT !.autorotation = FALSE]
            \/ announced'[c] = [f EXCEPT !.route = None]
            \/ e.route \in Routes /\ announced'[c] = [f EXCEPT !.route = e.route]
        BY <2>1, <3>2 DEF NewDecision, CampaignChanges, f
      <4> QED
        BY <2>1, <4>1, <4>2 DEF f
    <3> QED
      BY <2>1, <3>1, <3>2
  <2>4. CASE announced' = announced
    BY <2>1, <2>4
  <2> QED
    BY <1>1, <2>2, <2>3, <2>4 DEF RoutingNext, UpdateCampaign, routingVars
<1>2. RoutingInv /\ RoutingInv' /\ [RoutingNext]_routingVars =>
        [\A c \in Campaigns : Kept(c)]_routingVars
  BY <1>1
<1> QED
  BY <1>2, RoutingInvariant, PTL DEF RoutingSpec, OnlyAsked

--------------------------------------------------------------------------------
(* The priorities of servers.                                              *)
PriorityInv == Server!TypeOK /\ PriorityFollowsJournal

\* Servers that an event leaves out, or skips, keep their row and journal;
\* the others get the two rows that belong together.
LEMMA SetPriorityStep ==
  ASSUME None \notin Server!Priorities, PriorityInv, NEW g \in Geos, NEW ss \in SUBSET Servers, NEW r \in Routes,
         NEW o \in Routes \cup {None}, Server!SetPriority(g, ss, r, o)
  PROVE  PriorityInv'
<1> DEFINE changing == {s \in ss : ~Server!IsNoop(g, s, r, o)}
<1>1. \A h \in Geos, s \in Servers : Server!CurrentRoute(h, s) \in Routes \cup {None}
  BY DEF PriorityInv, Server!TypeOK, Server!CurrentRoute, Server!Priorities
<1>2. \A h \in Geos, s \in Servers : Server!Applied(h, s, r, o) \in Server!Priorities
  BY <1>1 DEF Server!Applied, Server!Priorities
<1>3. \A s \in Servers : [old |-> Server!CurrentRoute(g, s), new |-> r] \in Server!JournalRows
  BY <1>1 DEF Server!JournalRows
<1>4. priority' = [priority EXCEPT ![g] = [s \in Servers |->
                     IF s \in changing THEN Server!Applied(g, s, r, o) ELSE priority[g][s]]]
  BY DEF Server!SetPriority
<1>5. journal' = [journal EXCEPT ![g] = [s \in Servers |->
                    IF s \in changing THEN [old |-> Server!CurrentRoute(g, s), new |-> r]
                    ELSE journal[g][s]]]
  BY DEF Server!SetPriority
<1> HIDE DEF changing
<1>6. Server!TypeOK'
  BY <1>2, <1>3, <1>4, <1>5 DEF PriorityInv, Server!TypeOK
<1>7. \A h \in Geos, s \in Servers :
        \/ /\ priority'[h][s] = priority[h][s]
           /\ journal'[h][s] = journal[h][s]
        \/ /\ priority'[h][s] = Server!Applied(h, s, r, o)
           /\ journal'[h][s] = [old |-> Server!CurrentRoute(h, s), new |-> r]
  BY <1>4, <1>5 DEF PriorityInv, Server!TypeOK
<1>8. ASSUME NEW h \in Geos, NEW s \in Servers
      PROVE  IF priority'[h][s] = None THEN journal'[h][s] = None
             ELSE journal'[h][s] = [old |-> priority'[h][s].previous,
                                    new |-> priority'[h][s].current]
  <2>1. CASE priority'[h][s] = priority[h][s] /\ journal'[h][s] = journal[h][s]
    BY <2>1 DEF PriorityInv, PriorityFollowsJournal, Server!PriorityFollowsJournal
  <2>2. CASE /\ priority'[h][s] = Server!Applied(h, s, r, o)
             /\ journal'[h][s] = [old |-> Server!CurrentRoute(h, s), new |-> r]
    <3>1. priority'[h][s] # None
      BY <1>2, <2>2
    <3>2. priority'[h][s].previous = Server!CurrentRoute(h, s) /\ priority'[h][s].current = r
      BY <2>2 DEF Server!Applied
    <3> QED
      BY <2>2, <3>1, <3>2
  <2> QED
    BY <1>7, <2>1, <2>2
<1>9. PriorityFollowsJournal'
  BY <1>8 DEF PriorityFollowsJournal, Server!PriorityFollowsJournal
<1> QED
  BY <1>6, <1>9 DEF PriorityInv

\* The previous route of a server is always the one its newest event replaced,
\* and the current one the one it set, through skipped servers and events that
\* change the overflow only.
THEOREM PrioritiesFollowJournal ==
  ASSUME None \notin Server!Priorities
  PROVE  EventsSpec => []PriorityFollowsJournal
<1>1. EventsInit => PriorityInv
  BY DEF EventsInit, Server!Init, PriorityInv, Server!TypeOK, PriorityFollowsJournal,
         Server!PriorityFollowsJournal
<1>2. PriorityInv /\ [EventsNext]_eventVars => PriorityInv'
  <2> SUFFICES ASSUME PriorityInv, [EventsNext]_eventVars PROVE PriorityInv'
    OBVIOUS
  <2>1. CASE Server!Next
    BY <2>1, SetPriorityStep DEF Server!Next
  <2>2. CASE UNCHANGED <<priority, journal>>
    BY <2>2 DEF PriorityInv, Server!TypeOK, PriorityFollowsJournal,
                Server!PriorityFollowsJournal
  <2> QED
    BY <2>1, <2>2 DEF EventsNext, eventVars
<1>3. PriorityInv => PriorityFollowsJournal
  BY DEF PriorityInv
<1> QED
  BY <1>1, <1>2, <1>3, PTL DEF EventsSpec
================================================================================
