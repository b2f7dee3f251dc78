------------------------- MODULE CampaignSessionsProofs ------------------------
(***************************************************************************)
(* A campaign has at most one open version however many events overlap:    *)
(* for any numbers of requests, campaigns, routes and versions.            *)
(***************************************************************************)
EXTENDS CampaignSessions, FiniteSetTheorems, SequenceTheorems, TLAPS

Elements(s) == {s[i] : i \in 1 .. Len(s)}

\* What a request has found out when it has come to its step.
WorkerOK(w) ==
    /\ pc[w] = "idle" => wSettings[w] = NothingWritten
    /\ pc[w] \notin {"idle", "commit"} =>
          todo[w] \in Selections /\ req[w] \in Routing!CampaignChanges
    /\ pc[w] \in {"event", "close", "keep", "open"} => plan[w] \in Plans
    /\ pc[w] \in {"close", "keep"} =>
          /\ target[w] \in SettingIds /\ settings[target[w]] # None
          /\ settings[target[w]].campaign = Head(todo[w])

StepsOK == \A w \in Workers : WorkerOK(w)

RowsApart == \A v, w \in Workers : v # w => Written(v) \cap Written(w) = {}

\* The version n that w has inserted is to be the only open one of its campaign:
\* w closes those that are open, and nobody else touches one or opens another.
Opens(w, n) ==
    LET c == wSettings[w][n].campaign IN
    /\ wSettings[w][n].open
    /\ \A m \in Routing!OpenVersions(c) : m \in Written(w)
    /\ \A m \in Written(w) \ {n} :
          wSettings[w][m].campaign = c => ~wSettings[w][m].open
    /\ \A v \in Workers \ {w} : \A m \in Written(v) :
          wSettings[v][m].campaign = c => ~wSettings[v][m].open /\ m \notin Routing!OpenVersions(c)

\* A version that is written stays with its campaign and is not opened again;
\* of the campaigns still to do, only the first may have lost its version.
WrittenRowOK(w, n) ==
    /\ settings[n] # None =>
          /\ wSettings[w][n].campaign = settings[n].campaign
          /\ wSettings[w][n].open => settings[n].open
    /\ wSettings[w][n].campaign \in Elements(todo[w]) =>
          /\ pc[w] = "open" /\ ~wSettings[w][n].open
          /\ wSettings[w][n].campaign = Head(todo[w])
    /\ settings[n] = None => Opens(w, n)

WrittenOK == \A w \in Workers : \A n \in Written(w) : WrittenRowOK(w, n)

LocksInv == OneOpenVersion /\ RowsApart /\ WrittenOK

SessionsInv == TypeOK /\ StepsOK /\ LocksInv

--------------------------------------------------------------------------------
(* Operators of CampaignRouting.                                           *)

LEMMA NewestOfOne ==
  ASSUME NEW n \in Nat
  PROVE  (CHOOSE x \in {n} : \A m \in {n} : m <= x) = n
<1>1. \A m \in {n} : m <= n
  OBVIOUS
<1> QED
  BY <1>1

\* An open version is the active setting of its campaign.
LEMMA OpenIsActive ==
  ASSUME Routing!RoutingTypeOK, OneOpenVersion, NEW c \in Campaigns,
         NEW n \in Routing!OpenVersions(c)
  PROVE  /\ n \in SettingIds /\ settings[n] \in Routing!Versions
         /\ settings[n].campaign = c /\ settings[n] # None
         /\ Routing!ActiveSetting(c) = n
         /\ Routing!InForce(c) = settings[n].decision
<1>1. n \in SettingIds /\ settings[n] # None /\ settings[n].campaign = c
  BY DEF Routing!OpenVersions
<1>2. settings[n] \in Routing!Versions
  BY <1>1 DEF Routing!RoutingTypeOK
<1>3. Routing!OpenVersions(c) = {n}
  BY DEF OneOpenVersion, Routing!OneOpenVersion
<1>4. n \in Nat
  BY <1>1, IdsAssumption
<1>5. Routing!ActiveSetting(c) = n
  BY <1>3, <1>4, NewestOfOne DEF Routing!ActiveSetting
<1> QED
  BY <1>1, <1>2, <1>3, <1>5 DEF Routing!InForce

LEMMA InForceType ==
  ASSUME Routing!RoutingTypeOK, OneOpenVersion, NEW c \in Campaigns
  PROVE  Routing!InForce(c) \in Routing!Decisions
<1>1. CASE Routing!OpenVersions(c) = {}
  BY <1>1 DEF Routing!InForce, Routing!ServerPriority, Routing!Decisions
<1>2. CASE Routing!OpenVersions(c) # {}
  <2>1. PICK n : n \in Routing!OpenVersions(c)
    BY <1>2
  <2>2. settings[n] \in Routing!Versions /\ Routing!InForce(c) = settings[n].decision
    BY <2>1, OpenIsActive
  <2> QED
    BY <2>2 DEF Routing!Versions
<1> QED
  BY <1>1, <1>2

LEMMA NewDecisionType ==
  ASSUME Routing!RoutingTypeOK, OneOpenVersion, NEW c \in Campaigns,
         NEW e \in Routing!CampaignChanges
  PROVE  Routing!NewDecision(c, e) \in Routing!Decisions
<1> DEFINE f == Routing!InForce(c)
<1>1. f \in Routing!Decisions
  BY InForceType
<1> HIDE DEF f
<1>2. /\ [f EXCEPT !.autorotation = TRUE] \in Routing!Decisions
      /\ [f EXCEPT !.autorotation = FALSE] \in Routing!Decisions
      /\ [f EXCEPT !.route = None] \in Routing!Decisions
      /\ \A r \in Routes : [f EXCEPT !.route = r] \in Routing!Decisions
  BY <1>1 DEF Routing!Decisions
<1>3. \/ e.kind \in {"enable_autorotation", "disable_autorotation", "remove_campaign_route"}
      \/ e.kind = "set_campaign_route" /\ e.route \in Routes
  BY DEF Routing!CampaignChanges
<1> QED
  BY <1>2, <1>3 DEF Routing!NewDecision, f

LEMMA EventGeoType ==
  ASSUME Routing!RoutingTypeOK, OneOpenVersion, NEW c \in Campaigns,
         NEW e \in Routing!CampaignChanges, campaign[c] # None, ~Routing!NoChange(c, e)
  PROVE  Routing!EventGeo(c, e) \in Geos \cup {None}
<1>1. campaign[c].geo \in Geos \cup {None}
  BY DEF Routing!RoutingTypeOK, Routing!CampaignRows
<1>2. ASSUME Routing!InForce(c).route # None
      PROVE  settings[Routing!ActiveSetting(c)].geo \in Geos \cup {None}
  <2>1. Routing!OpenVersions(c) # {}
    BY <1>2 DEF Routing!InForce, Routing!ServerPriority
  <2>2. PICK n : n \in Routing!OpenVersions(c)
    BY <2>1
  <2>3. Routing!ActiveSetting(c) = n /\ settings[n] \in Routing!Versions
    BY <2>2, OpenIsActive
  <2> QED
    BY <2>3 DEF Routing!Versions
<1>3. CASE e.kind = "set_campaign_route"
  <2>1. e.route \in Routes
    BY <1>3 DEF Routing!CampaignChanges
  <2> QED
    BY <1>3, <2>1, RouteGeoAssumption DEF Routing!EventGeo
<1>4. CASE e.kind = "remove_campaign_route"
  <2>1. Routing!InForce(c).route \in Routes
    BY <1>4, InForceType DEF Routing!NoChange, Routing!Decisions
  <2> QED
    BY <1>4, <2>1, RouteGeoAssumption DEF Routing!EventGeo
<1>5. CASE e.kind \in {"enable_autorotation", "disable_autorotation"}
  BY <1>1, <1>2, <1>5 DEF Routing!EventGeo
<1> QED
  BY <1>3, <1>4, <1>5 DEF Routing!CampaignChanges

\* Closing keeps all of a version but its being open.
LEMMA ClosedType ==
  ASSUME Routing!RoutingTypeOK, NEW n \in SettingIds, settings[n] # None
  PROVE  /\ Routing!Closed(n) \in Routing!Versions
         /\ ~Routing!Closed(n).open
         /\ Routing!Closed(n).campaign = settings[n].campaign
         /\ Routing!Closed(n).decision = settings[n].decision
         /\ ~settings[n].open => Routing!Closed(n) = settings[n]
<1>1. settings[n] \in Routing!Versions
  BY DEF Routing!RoutingTypeOK
<1> QED
  BY <1>1 DEF Routing!Closed, Routing!Versions

--------------------------------------------------------------------------------
(* Selections of campaigns.                                                *)

LEMMA SelectionFacts ==
  ASSUME NEW s \in Selections
  PROVE  /\ s \in Seq(Campaigns) /\ s # <<>> /\ Len(s) \in Nat \ {0}
         /\ Head(s) = s[1] /\ Head(s) \in Campaigns /\ Head(s) \in Elements(s)
         /\ \A i, j \in 1 .. Len(s) : s[i] = s[j] => i = j
<1>1. PICK k \in 1 .. Cardinality(Campaigns) : s \in [1 .. k -> Campaigns]
  BY DEF Selections
<1>2. \A i, j \in DOMAIN s : s[i] = s[j] => i = j
  BY DEF Selections
<1>3. k \in Nat \ {0}
  BY <1>1
<1>4. s \in Seq(Campaigns) /\ Len(s) = k
  BY <1>1, <1>3
<1> QED
  BY <1>1, <1>2, <1>3, <1>4 DEF Elements

\* What is left of a selection when its first campaign is done.
LEMMA SelectionTail ==
  ASSUME NEW s \in Selections
  PROVE  /\ Tail(s) = <<>> \/ Tail(s) \in Selections
         /\ Len(s) > 1 => Tail(s) \in Selections
         /\ Elements(Tail(s)) = Elements(s) \ {Head(s)}
<1>1. PICK k \in 1 .. Cardinality(Campaigns) : s \in [1 .. k -> Campaigns]
  BY DEF Selections
<1>2. k \in Nat \ {0} /\ Len(s) = k /\ s \in Seq(Campaigns) /\ s # <<>> /\ Head(s) = s[1]
      /\ \A i, j \in 1 .. k : s[i] = s[j] => i = j
  BY <1>1, SelectionFacts
<1> DEFINE t == Tail(s)
<1>3. /\ t \in Seq(Campaigns) /\ Len(t) = k - 1
      /\ \A i \in 1 .. k - 1 : t[i] = s[i + 1]
  BY <1>2, HeadTailProperties
<1> HIDE DEF t
<1>4. ASSUME k > 1 PROVE t \in Selections
  <2>1. k - 1 \in 1 .. Cardinality(Campaigns)
    <3>1. Cardinality(Campaigns) \in Nat
      BY CampaignsAssumption, FS_CardinalityType
    <3> QED
      BY <1>1, <1>2, <1>4, <3>1
  <2>2. t \in [1 .. k - 1 -> Campaigns]
    BY <1>2, <1>3
  <2>3. \A i, j \in DOMAIN t : t[i] = t[j] => i = j
    BY <1>2, <1>3, <2>2
  <2> QED
    BY <2>1, <2>2, <2>3 DEF Selections
<1>5. CASE k = 1
  <2>1. t = <<>>
    BY <1>3, <1>5
  <2>2. Elements(s) = {s[1]} /\ Elements(<<>>) = {}
    BY <1>2, <1>5 DEF Elements
  <2>3. Elements(t) = Elements(s) \ {Head(s)}
    BY <1>2, <2>1, <2>2
  <2>4. ~(Len(s) > 1)
    BY <1>2, <1>5
  <2> QED
    BY <2>1, <2>3, <2>4 DEF t
<1>6. Elements(t) = Elements(s) \ {Head(s)}
  <2>1. ASSUME NEW i \in 1 .. k - 1 PROVE t[i] \in Elements(s) \ {Head(s)}
    BY <1>2, <1>3, <2>1 DEF Elements
  <2>2. ASSUME NEW j \in 1 .. k, s[j] # Head(s) PROVE s[j] \in Elements(t)
    <3>1. j - 1 \in 1 .. k - 1 /\ t[j - 1] = s[j]
      BY <1>2, <1>3, <2>2
    <3> QED
      BY <1>3, <3>1 DEF Elements
  <2> QED
    BY <1>2, <1>3, <2>1, <2>2 DEF Elements
<1>7. k = 1 \/ k > 1
  BY <1>2
<1> QED
  BY <1>2, <1>4, <1>5, <1>6, <1>7 DEF t

--------------------------------------------------------------------------------
(* Locks.                                                                  *)

LEMMA NothingIsWritten ==
  ASSUME NEW w \in Workers, wSettings[w] = NothingWritten
  PROVE  Written(w) = {}
BY DEF NothingWritten, Written

\* Nothing is written or committed, and transactions may end.
LEMMA QuietStep ==
  ASSUME LocksInv, settings' = settings,
         \A u \in Workers :
            \/ wSettings'[u] = NothingWritten
            \/ /\ wSettings'[u] = wSettings[u]
               /\ \/ pc'[u] = pc[u] /\ todo'[u] = todo[u]
                  \/ pc[u] # "open" /\ Elements(todo'[u]) \subseteq Elements(todo[u])
  PROVE  LocksInv'
<1>1. ASSUME NEW u \in Workers
      PROVE  \/ Written(u)' = {}
             \/ Written(u)' = Written(u) /\ wSettings'[u] = wSettings[u]
  BY DEF Written, NothingWritten
<1>2. \A c : Routing!OpenVersions(c)' = Routing!OpenVersions(c)
  BY DEF Routing!OpenVersions
<1>3. OneOpenVersion'
  BY <1>2 DEF LocksInv, OneOpenVersion, Routing!OneOpenVersion
<1>4. RowsApart'
  BY <1>1 DEF LocksInv, RowsApart
<1>5. ASSUME NEW w \in Workers, NEW n \in Written(w)'
      PROVE  WrittenRowOK(w, n)'
  <2>1. Written(w)' = Written(w) /\ wSettings'[w] = wSettings[w] /\ n \in Written(w)
    BY <1>1, <1>5
  <2>2. \/ pc'[w] = pc[w] /\ todo'[w] = todo[w]
        \/ pc[w] # "open" /\ Elements(todo'[w]) \subseteq Elements(todo[w])
    BY <2>1 DEF Written, NothingWritten
  <2>3. ASSUME settings[n] = None PROVE Opens(w, n)'
    <3>1. Opens(w, n)
      BY <2>1, <2>3 DEF LocksInv, WrittenOK, WrittenRowOK
    <3> QED
      BY <1>1, <1>2, <2>1, <3>1 DEF Opens
  <2> QED
    BY <2>1, <2>2, <2>3 DEF LocksInv, WrittenOK, WrittenRowOK
<1>6. WrittenOK'
  BY <1>5 DEF WrittenOK
<1> QED
  BY <1>3, <1>4, <1>6 DEF LocksInv

\* The event of w writes the row n, which is the version it closes or keeps.
LEMMA RowWritten ==
  ASSUME TypeOK, StepsOK, LocksInv, NEW w \in Workers, NEW row \in Routing!Versions,
         pc[w] \in {"close", "keep"}, Granted(w),
         settings' = settings,
         wSettings' = [wSettings EXCEPT ![w][target[w]] = row],
         row # Absent, row.campaign = settings[target[w]].campaign,
         row.open => settings[target[w]].open /\ pc[w] = "keep",
         \A u \in Workers \ {w} : pc'[u] = pc[u] /\ todo'[u] = todo[u],
         \/ Elements(todo'[w]) = Elements(todo[w]) \ {Head(todo[w])}
         \/ pc[w] = "close" /\ pc'[w] = "open" /\ todo'[w] = todo[w]
  PROVE  LocksInv'
<1>0. target[w] \in SettingIds /\ settings[target[w]].campaign = Head(todo[w])
  BY DEF StepsOK, WorkerOK
<1>n. PICK n \in SettingIds : n = target[w]
  BY <1>0
<1>c. PICK c \in Campaigns : c = Head(todo[w])
  BY SelectionFacts DEF StepsOK, WorkerOK
<1>1. /\ settings[n] # None /\ settings[n].campaign = c
      /\ todo[w] \in Selections /\ c \in Elements(todo[w])
  BY <1>n, <1>c, SelectionFacts DEF StepsOK, WorkerOK
<1>2. \A u \in Workers \ {w} : n \notin Written(u)
  BY <1>n DEF Granted, WaitsFor, RowHolders
<1>3. /\ wSettings'[w] = [wSettings[w] EXCEPT ![n] = row]
      /\ \A u \in Workers \ {w} : wSettings'[u] = wSettings[u]
  BY <1>n DEF TypeOK
<1>4. /\ Written(w)' = Written(w) \cup {n}
      /\ wSettings'[w][n] = row
      /\ \A m \in Written(w) \ {n} : wSettings'[w][m] = wSettings[w][m]
  BY <1>1, <1>3 DEF TypeOK, Written
<1>5. \A u \in Workers \ {w} : Written(u)' = Written(u)
  BY <1>3 DEF Written
<1>6. \A d : Routing!OpenVersions(d)' = Routing!OpenVersions(d)
  BY DEF Routing!OpenVersions
<1>7. OneOpenVersion'
  BY <1>6 DEF LocksInv, OneOpenVersion, Routing!OneOpenVersion
<1>8. RowsApart'
  BY <1>2, <1>4, <1>5 DEF LocksInv, RowsApart
<1>9. ASSUME NEW m \in Written(w), wSettings[w][m].campaign = c PROVE FALSE
  BY <1>1, <1>9 DEF LocksInv, WrittenOK, WrittenRowOK
<1>10. \A d : n \in Routing!OpenVersions(d) <=> c = d /\ settings[n].open
  BY <1>1 DEF Routing!OpenVersions
<1>11. Elements(todo'[w]) \subseteq Elements(todo[w])
  OBVIOUS
<1>12. row.campaign = c /\ (row.open => settings[n].open /\ pc[w] = "keep")
  BY <1>n, <1>1
<1>13. ASSUME NEW m \in Written(w)' \ {n} PROVE WrittenRowOK(w, m)'
  <2> DEFINE d == wSettings[w][m].campaign
  <2>1. m \in Written(w) /\ d # c /\ wSettings'[w][m] = wSettings[w][m]
    BY <1>4, <1>9, <1>13
  <2>2. WrittenRowOK(w, m)
    BY <2>1 DEF LocksInv, WrittenOK
  <2>3. ~(d \in Elements(todo'[w]))
    BY <1>11, <2>2 DEF WrittenRowOK
  <2>4. ASSUME settings[m] = None PROVE Opens(w, m)'
    <3>1. Opens(w, m)
      BY <2>2, <2>4 DEF WrittenRowOK
    <3> QED
      BY <1>3, <1>4, <1>5, <1>6, <1>12, <2>1, <3>1 DEF Opens
  <2> QED
    BY <2>1, <2>2, <2>3, <2>4 DEF WrittenRowOK
<1>14. WrittenRowOK(w, n)'
  <2>1. c \in Elements(todo'[w]) => pc'[w] = "open" /\ todo'[w] = todo[w] /\ ~row.open
    BY <1>c, <1>12
  <2>2. wSettings'[w][n].campaign = c /\ (wSettings'[w][n].open <=> row.open)
    BY <1>4, <1>12
  <2>3. settings'[n] # None /\ settings'[n].campaign = c /\ (row.open => settings'[n].open)
    BY <1>1, <1>12
  <2>4. c \in Elements(todo'[w]) => c = Head(todo'[w])
    BY <1>c, <2>1
  <2> QED
    BY <2>1, <2>2, <2>3, <2>4 DEF WrittenRowOK
<1>15. ASSUME NEW u \in Workers \ {w}, NEW m \in Written(u)' PROVE WrittenRowOK(u, m)'
  <2> DEFINE d == wSettings[u][m].campaign
  <2>1. m \in Written(u) /\ wSettings'[u] = wSettings[u] /\ Written(u)' = Written(u)
    BY <1>3, <1>5, <1>15
  <2>2. WrittenRowOK(u, m)
    BY <2>1 DEF LocksInv, WrittenOK
  <2>3. ASSUME settings[m] = None PROVE Opens(u, m)'
    <3>1. Opens(u, m)
      BY <2>2, <2>3 DEF WrittenRowOK
    <3>2. n \notin Routing!OpenVersions(d)
      BY <1>2, <3>1 DEF Opens
    <3>3. c = d => ~row.open
      BY <1>10, <1>12, <3>2
    <3>4. ASSUME NEW v \in Workers \ {u}, NEW k \in Written(v)', wSettings'[v][k].campaign = d
          PROVE  ~wSettings'[v][k].open /\ k \notin Routing!OpenVersions(d)
      <4>1. CASE v = w /\ k = n
        BY <1>4, <1>12, <3>2, <3>3, <3>4, <4>1
      <4>2. CASE v = w /\ k # n
        <5>1. k \in Written(w) /\ wSettings'[w][k] = wSettings[w][k]
          BY <1>4, <3>4, <4>2
        <5> QED
          BY <3>1, <3>4, <4>2, <5>1 DEF Opens
      <4>3. CASE v # w
        <5>1. k \in Written(v) /\ wSettings'[v] = wSettings[v]
          BY <1>3, <1>5, <3>4, <4>3
        <5> QED
          BY <3>1, <3>4, <5>1 DEF Opens
      <4> QED
        BY <4>1, <4>2, <4>3
    <3> QED
      BY <1>6, <2>1, <3>1, <3>4 DEF Opens
  <2> QED
    BY <2>1, <2>2, <2>3 DEF WrittenRowOK
<1>16. ASSUME NEW u \in Workers, NEW m \in Written(u)' PROVE WrittenRowOK(u, m)'
  BY <1>13, <1>14, <1>15, <1>16
<1>17. WrittenOK'
  BY <1>16 DEF WrittenOK
<1> QED
  BY <1>7, <1>8, <1>17 DEF LocksInv

LEMMA NewVersionType ==
  ASSUME StepsOK, NEW w \in Workers, pc[w] \in {"event", "close", "keep", "open"}
  PROVE  /\ NewVersion(w) \in Routing!Versions
         /\ NewVersion(w) # Absent
         /\ NewVersion(w).campaign = Head(todo[w])
         /\ NewVersion(w).open
<1>1. plan[w] \in Plans /\ Head(todo[w]) \in Campaigns
  BY SelectionFacts DEF StepsOK, WorkerOK
<1>2. NewVersion(w) \in Routing!Versions
  BY <1>1 DEF NewVersion, Routing!Version, Routing!Versions, Plans
<1> QED
  BY <1>2, AbsentAssumption DEF NewVersion, Routing!Version

LEMMA UnusedIsFree ==
  ASSUME NEW n \in UnusedIds
  PROVE  n \in SettingIds /\ settings[n] = None /\ \A w \in Workers : n \notin Written(w)
<1>1. n \in Nat
  BY IdsAssumption DEF UnusedIds
<1>2. ~(n < n)
  BY <1>1
<1> QED
  BY <1>2 DEF UnusedIds

\* The event of w inserts a version n for its first campaign.
LEMMA RowOpened ==
  ASSUME TypeOK, StepsOK, LocksInv, NEW w \in Workers, NEW n \in UnusedIds,
         pc[w] = "open", Granted(w),
         Routing!OpenVersions(Head(todo[w])) \ Written(w) = {},
         settings' = settings,
         wSettings' = [wSettings EXCEPT ![w][n] = NewVersion(w)],
         \A u \in Workers \ {w} : pc'[u] = pc[u] /\ todo'[u] = todo[u],
         todo'[w] = Tail(todo[w])
  PROVE  LocksInv'
<1>1. PICK c \in Campaigns : c = Head(todo[w])
  BY SelectionFacts DEF StepsOK, WorkerOK
<1>2. PICK row \in Routing!Versions :
        row = NewVersion(w) /\ row # Absent /\ row.campaign = c /\ row.open
  BY <1>1, NewVersionType
<1>3. n \in SettingIds /\ settings[n] = None /\ \A u \in Workers : n \notin Written(u)
  BY UnusedIsFree
<1>4. /\ todo[w] \in Selections /\ c \in Elements(todo[w])
      /\ Elements(todo'[w]) = Elements(todo[w]) \ {c}
  BY <1>1, SelectionFacts, SelectionTail DEF StepsOK, WorkerOK
<1>5. /\ wSettings'[w] = [wSettings[w] EXCEPT ![n] = row]
      /\ \A u \in Workers \ {w} : wSettings'[u] = wSettings[u]
  BY <1>2 DEF TypeOK
<1>6. /\ Written(w)' = Written(w) \cup {n}
      /\ wSettings'[w][n] = row
      /\ \A m \in Written(w) : wSettings'[w][m] = wSettings[w][m]
  BY <1>2, <1>3, <1>5 DEF TypeOK, Written
<1>7. \A u \in Workers \ {w} : Written(u)' = Written(u)
  BY <1>5 DEF Written
<1>8. \A d : Routing!OpenVersions(d)' = Routing!OpenVersions(d)
  BY DEF Routing!OpenVersions
<1>9. \A m \in Routing!OpenVersions(c) : m \in Written(w)
  BY <1>1
<1>10. \A u \in Workers \ {w} : \A m \in Written(u) :
          wSettings[u][m].campaign = c => ~wSettings[u][m].open /\ m \notin Routing!OpenVersions(c)
  BY <1>1 DEF Granted, WaitsFor, IndexHolders
<1>11. ASSUME NEW m \in Written(w)
       PROVE  /\ WrittenRowOK(w, m)
              /\ wSettings[w][m].campaign = c => ~wSettings[w][m].open
              /\ wSettings[w][m].campaign \notin Elements(todo'[w])
  <2>1. WrittenRowOK(w, m)
    BY DEF LocksInv, WrittenOK
  <2> QED
    BY <1>1, <1>4, <2>1 DEF WrittenRowOK
<1>12. OneOpenVersion'
  BY <1>8 DEF LocksInv, OneOpenVersion, Routing!OneOpenVersion
<1>13. RowsApart'
  BY <1>3, <1>6, <1>7 DEF LocksInv, RowsApart
<1>14. WrittenRowOK(w, n)'
  <2>1. Opens(w, n)'
    <3>1. ASSUME NEW m \in Written(w)' \ {n} PROVE wSettings'[w][m].campaign = c => ~wSettings'[w][m].open
      BY <1>6, <1>11, <3>1
    <3>2. ASSUME NEW u \in Workers \ {w}, NEW m \in Written(u)', wSettings'[u][m].campaign = c
          PROVE  ~wSettings'[u][m].open /\ m \notin Routing!OpenVersions(c)
      BY <1>5, <1>7, <1>10, <3>2
    <3> QED
      BY <1>2, <1>6, <1>8, <1>9, <3>1, <3>2 DEF Opens
  <2>2. wSettings'[w][n].campaign \notin Elements(todo'[w])
    BY <1>2, <1>4, <1>6
  <2> QED
    BY <1>3, <2>1, <2>2 DEF WrittenRowOK
<1>15. ASSUME NEW m \in Written(w) PROVE WrittenRowOK(w, m)'
  <2> DEFINE d == wSettings[w][m].campaign
  <2>1. WrittenRowOK(w, m) /\ m # n /\ wSettings'[w][m] = wSettings[w][m] /\ d \notin Elements(todo'[w])
    BY <1>3, <1>6, <1>11
  <2>2. ASSUME settings[m] = None PROVE Opens(w, m)'
    <3>1. Opens(w, m)
      BY <2>1, <2>2 DEF WrittenRowOK
    <3>2. d # c
      BY <1>11, <3>1 DEF Opens
    <3>3. ASSUME NEW k \in Written(w)' \ {m} PROVE wSettings'[w][k].campaign = d => ~wSettings'[w][k].open
      BY <1>2, <1>6, <3>1, <3>2, <3>3 DEF Opens
    <3> QED
      BY <1>5, <1>6, <1>7, <1>8, <2>1, <3>1, <3>3 DEF Opens
  <2> QED
    BY <2>1, <2>2 DEF WrittenRowOK
<1>16. ASSUME NEW u \in Workers \ {w}, NEW m \in Written(u) PROVE WrittenRowOK(u, m)'
  <2> DEFINE d == wSettings[u][m].campaign
  <2>1. WrittenRowOK(u, m) /\ wSettings'[u] = wSettings[u] /\ Written(u)' = Written(u)
    BY <1>5, <1>7 DEF LocksInv, WrittenOK
  <2>2. ASSUME settings[m] = None PROVE Opens(u, m)'
    <3>1. Opens(u, m)
      BY <2>1, <2>2 DEF WrittenRowOK
    <3>2. d # c
      BY <1>10, <3>1 DEF Opens
    <3>3. ASSUME NEW v \in Workers \ {u}, NEW k \in Written(v)', wSettings'[v][k].campaign = d
          PROVE  ~wSettings'[v][k].open /\ k \notin Routing!OpenVersions(d)
      <4>1. k # n \/ v # w
        BY <1>2, <1>6, <3>2, <3>3
      <4>2. k \in Written(v) /\ wSettings'[v][k] = wSettings[v][k]
        BY <1>5, <1>6, <1>7, <3>3, <4>1
      <4> QED
        BY <3>1, <3>3, <4>2 DEF Opens
    <3> QED
      BY <1>8, <2>1, <3>1, <3>3 DEF Opens
  <2> QED
    BY <2>1, <2>2 DEF WrittenRowOK
<1>17. ASSUME NEW u \in Workers, NEW m \in Written(u)' PROVE WrittenRowOK(u, m)'
  BY <1>6, <1>7, <1>14, <1>15, <1>16, <1>17
<1>18. WrittenOK'
  BY <1>17 DEF WrittenOK
<1> QED
  BY <1>12, <1>13, <1>18 DEF LocksInv

\* The transaction of w commits what it has written.
LEMMA RowsCommitted ==
  ASSUME TypeOK, LocksInv, NEW w \in Workers,
         settings' = [n \in SettingIds |-> IF n \in Written(w) THEN wSettings[w][n] ELSE settings[n]],
         wSettings' = [wSettings EXCEPT ![w] = NothingWritten],
         \A u \in Workers \ {w} : pc'[u] = pc[u] /\ todo'[u] = todo[u]
  PROVE  /\ LocksInv'
         /\ settings' \in [SettingIds -> Routing!Versions \cup {None}]
         /\ \A n \in SettingIds : settings[n] # None =>
               settings'[n] # None /\ settings'[n].campaign = settings[n].campaign
<1>1. \A n \in Written(w) : n \in SettingIds /\ wSettings[w][n] \in Routing!Versions
  BY DEF TypeOK, Written
<1>2. \A n \in Written(w) : settings'[n] = wSettings[w][n] /\ settings'[n] # None
  BY <1>1, NoneAssumption
<1>3. \A n \in SettingIds \ Written(w) : settings'[n] = settings[n]
  OBVIOUS
<1>4. \A n \in Written(w) : WrittenRowOK(w, n)
  BY DEF LocksInv, WrittenOK
<1>5. settings' \in [SettingIds -> Routing!Versions \cup {None}]
  BY <1>1 DEF TypeOK, Routing!RoutingTypeOK
<1>6. \A n \in SettingIds : settings[n] # None =>
               settings'[n] # None /\ settings'[n].campaign = settings[n].campaign
  BY <1>2, <1>3, <1>4 DEF WrittenRowOK
<1>7. Written(w)' = {} /\ \A u \in Workers \ {w} : wSettings'[u] = wSettings[u] /\ Written(u)' = Written(u)
  BY DEF TypeOK, Written, NothingWritten
<1>8. ASSUME NEW c, NEW n \in Routing!OpenVersions(c)', n \notin Written(w)
      PROVE  n \in Routing!OpenVersions(c)
  BY <1>3, <1>8 DEF Routing!OpenVersions
<1>9. ASSUME NEW c, NEW n \in Routing!OpenVersions(c)', n \in Written(w)
      PROVE  /\ wSettings[w][n].campaign = c /\ wSettings[w][n].open
             /\ n \in Routing!OpenVersions(c) \/ Opens(w, n)
  <2>1. wSettings[w][n].campaign = c /\ wSettings[w][n].open /\ n \in SettingIds
    BY <1>2, <1>9 DEF Routing!OpenVersions
  <2>2. settings[n] # None => n \in Routing!OpenVersions(c)
    BY <1>4, <1>9, <2>1 DEF WrittenRowOK, Routing!OpenVersions
  <2>3. settings[n] = None => Opens(w, n)
    BY <1>4, <1>9 DEF WrittenRowOK
  <2> QED
    BY <2>1, <2>2, <2>3
<1>10. ASSUME NEW c \in Campaigns, NEW m \in Routing!OpenVersions(c)',
              NEW n \in Routing!OpenVersions(c)', m # n
       PROVE  FALSE
  <2>1. ASSUME NEW k \in Routing!OpenVersions(c)', NEW l \in Routing!OpenVersions(c)', k # l,
               k \in Written(w), Opens(w, k)
        PROVE  FALSE
    <3>1. wSettings[w][k].campaign = c
      BY <1>9, <2>1
    <3>2. l \in Written(w)
      BY <1>8, <2>1, <3>1 DEF Opens
    <3>3. wSettings[w][l].campaign = c /\ wSettings[w][l].open
      BY <1>9, <3>2
    <3> QED
      BY <2>1, <3>1, <3>2, <3>3 DEF Opens
  <2>2. m \in Routing!OpenVersions(c) /\ n \in Routing!OpenVersions(c)
    BY <1>8, <1>9, <1>10, <2>1
  <2> QED
    BY <1>10, <2>2 DEF LocksInv, OneOpenVersion, Routing!OneOpenVersion
<1>11. OneOpenVersion'
  BY <1>10 DEF OneOpenVersion, Routing!OneOpenVersion
<1>12. RowsApart'
  BY <1>7 DEF LocksInv, RowsApart
<1>13. ASSUME NEW u \in Workers, NEW m \in Written(u)' PROVE WrittenRowOK(u, m)'
  <2>1. u # w /\ m \in Written(u) /\ m \notin Written(w) /\ m \in SettingIds
    BY <1>7, <1>13 DEF LocksInv, RowsApart, Written
  <2>d. PICK d : d = wSettings[u][m].campaign
    OBVIOUS
  <2>2. /\ WrittenRowOK(u, m) /\ wSettings'[u] = wSettings[u] /\ settings'[m] = settings[m]
        /\ Written(u)' = Written(u)
    BY <1>3, <1>7, <2>1 DEF LocksInv, WrittenOK
  <2>3. ASSUME settings[m] = None PROVE Opens(u, m)'
    <3>1. Opens(u, m)
      BY <2>2, <2>3 DEF WrittenRowOK
    <3>2. ASSUME NEW k \in Routing!OpenVersions(d)' PROVE k \in Routing!OpenVersions(d)
      <4>1. k \notin Written(w)
        BY <1>9, <2>1, <2>d, <3>1, <3>2 DEF Opens
      <4> QED
        BY <1>8, <3>2, <4>1
    <3>3. ASSUME NEW v \in Workers \ {u}, NEW k \in Written(v)', wSettings'[v][k].campaign = d
          PROVE  ~wSettings'[v][k].open /\ k \notin Routing!OpenVersions(d)'
      <4>1. v # w /\ k \in Written(v) /\ wSettings'[v] = wSettings[v]
        BY <1>7, <3>3
      <4> QED
        BY <2>d, <3>1, <3>2, <3>3, <4>1 DEF Opens
    <3> QED
      BY <2>2, <2>d, <3>1, <3>2, <3>3 DEF Opens
  <2> QED
    BY <2>1, <2>2, <2>3 DEF WrittenRowOK
<1>14. WrittenOK'
  BY <1>13 DEF WrittenOK
<1> QED
  BY <1>5, <1>6, <1>11, <1>12, <1>14 DEF LocksInv

--------------------------------------------------------------------------------
(* Steps of one request.                                                   *)

\* What the other requests remember stays true.
OthersKeep(w) ==
    \A u \in Workers \ {w} :
        /\ pc'[u] = pc[u] /\ req'[u] = req[u] /\ todo'[u] = todo[u]
        /\ plan'[u] = plan[u] /\ target'[u] = target[u]

LEMMA OthersOK ==
  ASSUME StepsOK, NEW w \in Workers, OthersKeep(w), WorkerOK(w)',
         \A u \in Workers \ {w} : wSettings'[u] = wSettings[u],
         \A n \in SettingIds : settings[n] # None =>
            settings'[n] # None /\ settings'[n].campaign = settings[n].campaign
  PROVE  StepsOK'
<1>1. ASSUME NEW u \in Workers \ {w} PROVE WorkerOK(u)'
  BY <1>1 DEF StepsOK, WorkerOK, OthersKeep
<1> QED
  BY <1>1 DEF StepsOK

LEMMA EndStep ==
  ASSUME SessionsInv, NEW w \in Workers, Rollback(w)
  PROVE  SessionsInv'
<1> USE DEF SessionsInv
<1>1. TypeOK'
  <2>1. NothingWritten \in [SettingIds -> Routing!Versions \cup {Absent}]
    BY DEF NothingWritten
  <2>2. NoEvents \in [Campaigns -> Routing!Decisions \cup {Absent}]
    BY DEF NoEvents
  <2>3. /\ pc' \in [Workers -> Steps] /\ req' \in [Workers -> Routing!CampaignChanges \cup {Absent}]
        /\ plan' \in [Workers -> Plans \cup {Absent}]
        /\ target' \in [Workers -> SettingIds \cup {None}]
    BY DEF TypeOK, Rollback, End, Steps
  <2>4. todo' \in [Workers -> Selections \cup {<<>>}]
    BY DEF TypeOK, Rollback, End
  <2>5. wSettings' \in [Workers -> [SettingIds -> Routing!Versions \cup {Absent}]]
    BY <2>1 DEF TypeOK, Rollback, End
  <2>6. wEvents' \in [Workers -> [Campaigns -> Routing!Decisions \cup {Absent}]]
    BY <2>2 DEF TypeOK, Rollback, End
  <2>7. Routing!RoutingTypeOK' /\ superseded' \subseteq Campaigns
    BY DEF TypeOK, Rollback, db, Routing!RoutingTypeOK
  <2> QED
    BY <2>3, <2>4, <2>5, <2>6, <2>7 DEF TypeOK
<1>2. /\ OthersKeep(w) /\ settings' = settings
      /\ \A u \in Workers \ {w} : wSettings'[u] = wSettings[u]
      /\ wSettings'[w] = NothingWritten /\ pc'[w] = "idle"
  BY DEF Rollback, End, db, TypeOK, OthersKeep
<1>3. WorkerOK(w)'
  BY <1>2 DEF WorkerOK
<1>4. StepsOK'
  BY <1>2, <1>3, OthersOK
<1>5. LocksInv'
  BY <1>2, QuietStep DEF OthersKeep
<1> QED
  BY <1>1, <1>4, <1>5

LEMMA FinishFacts ==
  ASSUME TypeOK, StepsOK, NEW w \in Workers, Finish(w),
         pc[w] \in {"read", "event", "keep", "close", "open"}
  PROVE  /\ pc' \in [Workers -> Steps]
         /\ req' \in [Workers -> Routing!CampaignChanges \cup {Absent}]
         /\ todo' \in [Workers -> Selections \cup {<<>>}]
         /\ plan' \in [Workers -> Plans \cup {Absent}]
         /\ target' \in [Workers -> SettingIds \cup {None}]
         /\ Routing!RoutingTypeOK' /\ superseded' \subseteq Campaigns
         /\ settings' = settings /\ OthersKeep(w) /\ WorkerOK(w)'
         /\ todo'[w] = Tail(todo[w])
         /\ Elements(todo'[w]) = Elements(todo[w]) \ {Head(todo[w])}
<1> DEFINE next == IF Len(todo[w]) > 1 THEN "read" ELSE "commit"
<1>1. todo[w] \in Selections /\ req[w] \in Routing!CampaignChanges
  BY DEF StepsOK, WorkerOK
<1>2. pc' = [pc EXCEPT ![w] = next] /\ next \in {"read", "commit"} /\ next \in Steps
  BY DEF Finish, Goto, Steps
<1>3. UNCHANGED <<db, req>>
  BY DEF Finish, Goto
<1>4. /\ todo' = [todo EXCEPT ![w] = Tail(todo[w])]
      /\ plan' = [plan EXCEPT ![w] = Absent]
      /\ target' = [target EXCEPT ![w] = None]
  BY DEF Finish
<1>5. /\ Tail(todo[w]) = <<>> \/ Tail(todo[w]) \in Selections
      /\ next = "read" => Tail(todo[w]) \in Selections
      /\ Elements(Tail(todo[w])) = Elements(todo[w]) \ {Head(todo[w])}
  BY <1>1, SelectionTail
<1> HIDE DEF next
<1>6. todo'[w] = Tail(todo[w]) /\ \A u \in Workers \ {w} : todo'[u] = todo[u]
  BY <1>4 DEF TypeOK
<1>7. /\ pc' \in [Workers -> Steps] /\ pc'[w] = next
      /\ todo' \in [Workers -> Selections \cup {<<>>}]
      /\ plan' \in [Workers -> Plans \cup {Absent}]
      /\ target' \in [Workers -> SettingIds \cup {None}]
      /\ OthersKeep(w)
  BY <1>2, <1>3, <1>4, <1>5, <1>6 DEF TypeOK, OthersKeep
<1>8. /\ Routing!RoutingTypeOK' /\ superseded' \subseteq Campaigns /\ settings' = settings
      /\ req' \in [Workers -> Routing!CampaignChanges \cup {Absent}]
  BY <1>3 DEF TypeOK, db, Routing!RoutingTypeOK
<1>9. WorkerOK(w)'
  BY <1>1, <1>2, <1>3, <1>5, <1>6, <1>7 DEF WorkerOK
<1> QED
  BY <1>5, <1>6, <1>7, <1>8, <1>9 DEF TypeOK

LEMMA BeginStep ==
  ASSUME SessionsInv, NEW w \in Workers, Begin(w)
  PROVE  SessionsInv'
<1> USE DEF SessionsInv
<1>1. PICK e \in Routing!CampaignChanges, cs \in Selections :
        req' = [req EXCEPT ![w] = e] /\ todo' = [todo EXCEPT ![w] = cs]
  BY DEF Begin
<1>2. /\ pc[w] = "idle" /\ pc' = [pc EXCEPT ![w] = "read"]
      /\ UNCHANGED <<db, plan, target, wSettings, wEvents>>
  BY DEF Begin
<1>3. TypeOK'
  BY <1>1, <1>2 DEF TypeOK, Steps, db, Routing!RoutingTypeOK
<1>4. /\ pc'[w] = "read" /\ todo'[w] \in Selections /\ req'[w] \in Routing!CampaignChanges
      /\ OthersKeep(w) /\ settings' = settings /\ wSettings' = wSettings
  BY <1>1, <1>2 DEF TypeOK, OthersKeep, db
<1>5. WorkerOK(w)'
  BY <1>4 DEF WorkerOK
<1>6. StepsOK'
  BY <1>4, <1>5, OthersOK
<1>7. wSettings'[w] = NothingWritten
  BY <1>2, <1>4 DEF StepsOK, WorkerOK
<1>8. LocksInv'
  BY <1>4, <1>7, QuietStep DEF OthersKeep
<1> QED
  BY <1>3, <1>6, <1>8

LEMMA ReadStep ==
  ASSUME SessionsInv, NEW w \in Workers, ReadState(w)
  PROVE  SessionsInv'
<1> USE DEF SessionsInv
<1> DEFINE c == Head(todo[w])
           e == req[w]
           refused == \/ campaign[c] = None \/ ~campaign[c].is_active
                      \/ e.kind = "set_campaign_route" /\ ~Routing!GeoFits(c, e.route)
<1>1. pc[w] = "read"
  BY DEF ReadState
<1>2. CASE refused
  BY <1>2, EndStep DEF ReadState
<1>3. CASE ~refused /\ Routing!NoChange(c, e)
  <2>1. Finish(w) /\ UNCHANGED <<wSettings, wEvents>>
    BY <1>3 DEF ReadState
  <2>2. TypeOK'
    BY <1>1, <2>1, FinishFacts DEF TypeOK
  <2>3. StepsOK'
    BY <1>1, <2>1, FinishFacts, OthersOK
  <2>4. LocksInv'
    <3>1. settings' = settings /\ Elements(todo'[w]) \subseteq Elements(todo[w]) /\ wSettings' = wSettings
      BY <1>1, <2>1, FinishFacts
    <3>2. \A u \in Workers \ {w} : pc'[u] = pc[u] /\ todo'[u] = todo[u]
      BY <1>1, <2>1, FinishFacts DEF OthersKeep
    <3> QED
      BY <1>1, <3>1, <3>2, QuietStep
  <2> QED
    BY <2>2, <2>3, <2>4
<1>4. CASE ~refused /\ ~Routing!NoChange(c, e)
  <2> DEFINE p == [decision |-> Routing!NewDecision(c, e), geo |-> Routing!EventGeo(c, e),
                   server |-> campaign[c].server]
  <2>1. /\ plan' = [plan EXCEPT ![w] = p] /\ pc' = [pc EXCEPT ![w] = "event"]
        /\ UNCHANGED <<db, req, todo, target, wSettings, wEvents>>
    BY <1>4 DEF ReadState, Goto
  <2>2. todo[w] \in Selections /\ c \in Campaigns /\ e \in Routing!CampaignChanges
    BY <1>1, SelectionFacts DEF StepsOK, WorkerOK
  <2>3. p \in Plans
    <3>1. Routing!NewDecision(c, e) \in Routing!Decisions
      BY <2>2, NewDecisionType DEF TypeOK, LocksInv
    <3>2. Routing!EventGeo(c, e) \in Geos \cup {None}
      BY <1>4, <2>2, EventGeoType DEF TypeOK, LocksInv
    <3>3. campaign[c].server \in Servers
      BY <1>4, <2>2 DEF TypeOK, Routing!RoutingTypeOK, Routing!CampaignRows
    <3> QED
      BY <3>1, <3>2, <3>3 DEF Plans
  <2> HIDE DEF p, c, e, refused
  <2>4. TypeOK'
    BY <2>1, <2>3 DEF TypeOK, Steps, db, Routing!RoutingTypeOK
  <2>5. /\ pc'[w] = "event" /\ plan'[w] = p /\ OthersKeep(w) /\ settings' = settings
        /\ wSettings' = wSettings /\ todo' = todo /\ req' = req
    BY <2>1 DEF TypeOK, OthersKeep, db
  <2>6. WorkerOK(w)'
    BY <1>1, <2>3, <2>5 DEF StepsOK, WorkerOK
  <2>7. StepsOK'
    BY <2>5, <2>6, OthersOK
  <2>8. LocksInv'
    BY <1>1, <2>5, QuietStep DEF OthersKeep
  <2> QED
    BY <2>4, <2>7, <2>8
<1> QED
  BY <1>2, <1>3, <1>4

LEMMA InsertStep ==
  ASSUME SessionsInv, NEW w \in Workers, InsertEvent(w)
  PROVE  SessionsInv'
<1> USE DEF SessionsInv
<1> DEFINE c == Head(todo[w])
           next == IF settings[Routing!ActiveSetting(c)] = NewVersion(w) THEN "keep" ELSE "close"
<1>1. /\ pc[w] = "event" /\ todo[w] \in Selections /\ c \in Campaigns /\ plan[w] \in Plans
      /\ req[w] \in Routing!CampaignChanges
  BY SelectionFacts DEF InsertEvent, StepsOK, WorkerOK
<1>2. CASE ~Accepted(w, c)
  BY <1>2, EndStep DEF InsertEvent
<1>3. CASE Accepted(w, c)
  <2>1. wEvents' = [wEvents EXCEPT ![w][c] = plan[w].decision] /\ UNCHANGED wSettings
    BY <1>3 DEF InsertEvent
  <2>2. wEvents' \in [Workers -> [Campaigns -> Routing!Decisions \cup {Absent}]]
    BY <1>1, <2>1 DEF TypeOK, Plans
  <2>3. CASE Routing!OpenVersions(c) # {}
    <3>1. /\ target' = [target EXCEPT ![w] = Routing!ActiveSetting(c)]
          /\ pc' = [pc EXCEPT ![w] = next] /\ UNCHANGED <<db, req, todo, plan>>
      BY <1>3, <2>3 DEF InsertEvent, Goto
    <3>2. PICK n \in Routing!OpenVersions(c) : TRUE
      BY <2>3
    <3>3. /\ n = Routing!ActiveSetting(c) /\ n \in SettingIds /\ settings[n] # None
          /\ settings[n].campaign = c
      BY <1>1, <3>2, OpenIsActive DEF TypeOK, LocksInv
    <3>4. next \in {"keep", "close"}
      OBVIOUS
    <3> HIDE DEF next, c
    <3>5. TypeOK'
      BY <2>1, <2>2, <3>1, <3>3, <3>4 DEF TypeOK, Steps, db, Routing!RoutingTypeOK
    <3>6. /\ pc'[w] = next /\ target'[w] = n /\ OthersKeep(w) /\ settings' = settings
          /\ wSettings' = wSettings /\ todo' = todo /\ req' = req /\ plan' = plan
      BY <2>1, <3>1, <3>3 DEF TypeOK, OthersKeep, db
    <3>7. WorkerOK(w)'
      BY <1>1, <3>3, <3>4, <3>6 DEF WorkerOK, c
    <3>8. StepsOK'
      BY <3>6, <3>7, OthersOK
    <3>9. LocksInv'
      BY <1>1, <3>6, QuietStep DEF OthersKeep
    <3> QED
      BY <3>5, <3>8, <3>9
  <2>4. CASE Routing!OpenVersions(c) = {} /\ Routing!Decides(plan[w].decision)
    <3>1. pc' = [pc EXCEPT ![w] = "open"] /\ UNCHANGED <<db, req, todo, plan, target>>
      BY <1>3, <2>4 DEF InsertEvent, Goto
    <3>2. TypeOK'
      BY <2>1, <2>2, <3>1 DEF TypeOK, Steps, db, Routing!RoutingTypeOK
    <3>3. /\ pc'[w] = "open" /\ OthersKeep(w) /\ settings' = settings
          /\ wSettings' = wSettings /\ todo' = todo /\ req' = req /\ plan' = plan
      BY <2>1, <3>1 DEF TypeOK, OthersKeep, db
    <3>4. WorkerOK(w)'
      BY <1>1, <3>3 DEF WorkerOK
    <3>5. StepsOK'
      BY <3>3, <3>4, OthersOK
    <3>6. LocksInv'
      BY <1>1, <3>3, QuietStep DEF OthersKeep
    <3> QED
      BY <3>2, <3>5, <3>6
  <2>5. CASE Routing!OpenVersions(c) = {} /\ ~Routing!Decides(plan[w].decision)
    <3>1. Finish(w)
      BY <1>3, <2>5 DEF InsertEvent
    <3>2. TypeOK'
      BY <1>1, <2>1, <2>2, <3>1, FinishFacts DEF TypeOK
    <3>3. StepsOK'
      BY <1>1, <2>1, <3>1, FinishFacts, OthersOK
    <3>4. LocksInv'
      <4>1. settings' = settings /\ Elements(todo'[w]) \subseteq Elements(todo[w]) /\ OthersKeep(w)
        BY <1>1, <3>1, FinishFacts
      <4> QED
        BY <1>1, <2>1, <4>1, QuietStep DEF OthersKeep
    <3> QED
      BY <3>2, <3>3, <3>4
  <2> QED
    BY <2>3, <2>4, <2>5
<1> QED
  BY <1>2, <1>3

LEMMA KeepStep ==
  ASSUME SessionsInv, NEW w \in Workers, KeepVersion(w)
  PROVE  SessionsInv'
<1> USE DEF SessionsInv
<1>0. pc[w] = "keep" /\ target[w] \in SettingIds /\ settings[target[w]] # None
  BY DEF KeepVersion, StepsOK, WorkerOK
<1>1. PICK row \in Routing!Versions : row = settings[target[w]]
  BY <1>0 DEF TypeOK, Routing!RoutingTypeOK
<1>2. /\ pc[w] = "keep" /\ Granted(w) /\ Finish(w) /\ UNCHANGED wEvents
      /\ wSettings' = [wSettings EXCEPT ![w][target[w]] = row]
      /\ target[w] \in SettingIds
  BY <1>0, <1>1 DEF KeepVersion
<1>3. TypeOK'
  <2>1. wSettings' \in [Workers -> [SettingIds -> Routing!Versions \cup {Absent}]]
    BY <1>2 DEF TypeOK
  <2> QED
    BY <1>2, <2>1, FinishFacts DEF TypeOK
<1>4. StepsOK'
  <2>1. \A u \in Workers \ {w} : wSettings'[u] = wSettings[u]
    BY <1>2 DEF TypeOK
  <2> QED
    BY <1>2, <2>1, FinishFacts, OthersOK
<1>5. LocksInv'
  <2>1. /\ settings' = settings /\ OthersKeep(w)
        /\ Elements(todo'[w]) = Elements(todo[w]) \ {Head(todo[w])}
    BY <1>2, FinishFacts
  <2>2. row # Absent /\ row.campaign = settings[target[w]].campaign
        /\ (row.open => settings[target[w]].open /\ pc[w] = "keep")
    BY <1>1, <1>2, AbsentAssumption
  <2>3. \A u \in Workers \ {w} : pc'[u] = pc[u] /\ todo'[u] = todo[u]
    BY <2>1 DEF OthersKeep
  <2> QED
    BY <1>2, <2>1, <2>2, <2>3, RowWritten
<1> QED
  BY <1>3, <1>4, <1>5

LEMMA CloseStep ==
  ASSUME SessionsInv, NEW w \in Workers, CloseVersion(w)
  PROVE  SessionsInv'
<1> USE DEF SessionsInv
<1>0. pc[w] = "close" /\ target[w] \in SettingIds /\ settings[target[w]] # None
  BY DEF CloseVersion, StepsOK, WorkerOK
<1>1. PICK row \in Routing!Versions : row = Routing!Closed(target[w])
  BY <1>0, ClosedType DEF TypeOK
<1>2. /\ target[w] \in SettingIds /\ row # Absent
      /\ row.campaign = settings[target[w]].campaign /\ ~row.open
  BY <1>0, <1>1, AbsentAssumption, ClosedType DEF TypeOK
<1>c. /\ pc[w] = "close" /\ Granted(w) /\ UNCHANGED wEvents
      /\ wSettings' = [wSettings EXCEPT ![w][target[w]] = row]
  BY <1>1 DEF CloseVersion
<1>3. /\ wSettings' \in [Workers -> [SettingIds -> Routing!Versions \cup {Absent}]]
      /\ \A u \in Workers \ {w} : wSettings'[u] = wSettings[u]
  BY <1>c, <1>2 DEF TypeOK
<1>4. CASE Routing!Decides(plan[w].decision)
  <2>1. pc' = [pc EXCEPT ![w] = "open"] /\ UNCHANGED <<db, req, todo, plan, target>>
    BY <1>4 DEF CloseVersion, Goto
  <2>2. TypeOK'
    BY <1>c, <1>3, <2>1 DEF TypeOK, Steps, db, Routing!RoutingTypeOK
  <2>3. /\ pc'[w] = "open" /\ OthersKeep(w) /\ settings' = settings
        /\ todo' = todo /\ req' = req /\ plan' = plan
    BY <2>1 DEF TypeOK, OthersKeep, db
  <2>4. WorkerOK(w)'
    BY <1>c, <2>3 DEF StepsOK, WorkerOK
  <2>5. StepsOK'
    BY <1>3, <2>3, <2>4, OthersOK
  <2>6. LocksInv'
    <3>1. \A u \in Workers \ {w} : pc'[u] = pc[u] /\ todo'[u] = todo[u]
      BY <2>3 DEF OthersKeep
    <3>2. settings' = settings /\ pc'[w] = "open" /\ todo'[w] = todo[w]
      BY <2>3
    <3> QED
      BY <1>c, <1>2, <3>1, <3>2, RowWritten
  <2> QED
    BY <2>2, <2>5, <2>6
<1>5. CASE ~Routing!Decides(plan[w].decision)
  <2>1. Finish(w)
    BY <1>5 DEF CloseVersion
  <2>2. TypeOK'
    BY <1>c, <1>3, <2>1, FinishFacts DEF TypeOK
  <2>3. StepsOK'
    BY <1>c, <1>3, <2>1, FinishFacts, OthersOK
  <2>4. LocksInv'
    <3>1. /\ settings' = settings /\ OthersKeep(w)
          /\ Elements(todo'[w]) = Elements(todo[w]) \ {Head(todo[w])}
      BY <1>c, <2>1, FinishFacts
    <3>2. \A u \in Workers \ {w} : pc'[u] = pc[u] /\ todo'[u] = todo[u]
      BY <3>1 DEF OthersKeep
    <3> QED
      BY <1>c, <1>2, <3>1, <3>2, RowWritten
  <2> QED
    BY <2>2, <2>3, <2>4
<1> QED
  BY <1>4, <1>5

LEMMA OpenStep ==
  ASSUME SessionsInv, NEW w \in Workers, OpenVersion(w)
  PROVE  SessionsInv'
<1> USE DEF SessionsInv
<1>1. pc[w] = "open" /\ Granted(w)
  BY DEF OpenVersion
<1>2. CASE Routing!OpenVersions(Head(todo[w])) \ Written(w) # {} \/ UnusedIds = {}
  BY <1>2, EndStep DEF OpenVersion
<1>3. CASE ~(Routing!OpenVersions(Head(todo[w])) \ Written(w) # {} \/ UnusedIds = {})
  <2>1. PICK n \in UnusedIds : wSettings' = [wSettings EXCEPT ![w][n] = NewVersion(w)]
    BY <1>3 DEF OpenVersion
  <2>2. Finish(w) /\ UNCHANGED wEvents
    BY <1>3 DEF OpenVersion
  <2>3. NewVersion(w) \in Routing!Versions /\ n \in SettingIds
    BY <1>1, NewVersionType, UnusedIsFree
  <2>4. /\ wSettings' \in [Workers -> [SettingIds -> Routing!Versions \cup {Absent}]]
        /\ \A u \in Workers \ {w} : wSettings'[u] = wSettings[u]
    BY <2>1, <2>3 DEF TypeOK
  <2>5. TypeOK'
    BY <1>1, <2>2, <2>4, FinishFacts DEF TypeOK
  <2>6. StepsOK'
    BY <1>1, <2>2, <2>4, FinishFacts, OthersOK
  <2>7. LocksInv'
    <3>1. settings' = settings /\ OthersKeep(w) /\ todo'[w] = Tail(todo[w])
      BY <1>1, <2>2, FinishFacts
    <3> QED
      BY <1>1, <1>3, <2>1, <3>1, RowOpened DEF OthersKeep
  <2> QED
    BY <2>5, <2>6, <2>7
<1> QED
  BY <1>2, <1>3

LEMMA CommitStep ==
  ASSUME SessionsInv, NEW w \in Workers, Commit(w)
  PROVE  SessionsInv'
<1> USE DEF SessionsInv
<1>1. CASE wEvents[w] = NoEvents
  BY <1>1, EndStep DEF Commit
<1>2. CASE wEvents[w] # NoEvents
  <2>1. /\ settings' = [n \in SettingIds |-> IF n \in Written(w) THEN wSettings[w][n] ELSE settings[n]]
        /\ announced' = [c \in Campaigns |->
                            IF wEvents[w][c] = Absent THEN announced[c] ELSE wEvents[w][c]]
        /\ superseded' = {c \in superseded : wEvents[w][c] = Absent} \cup KeptClosed(w)
        /\ UNCHANGED campaign
    BY <1>2 DEF Commit
  <2>2. End(w)
    BY <1>2 DEF Commit
  <2>3. OthersKeep(w) /\ pc'[w] = "idle"
    BY <2>2 DEF End, TypeOK, OthersKeep
  <2>4. /\ wSettings' = [wSettings EXCEPT ![w] = NothingWritten]
        /\ wSettings'[w] = NothingWritten
        /\ \A u \in Workers \ {w} : wSettings'[u] = wSettings[u]
    BY <2>2 DEF End, TypeOK
  <2>5. \A u \in Workers \ {w} : pc'[u] = pc[u] /\ todo'[u] = todo[u]
    BY <2>3 DEF OthersKeep
  <2>6. /\ LocksInv'
        /\ settings' \in [SettingIds -> Routing!Versions \cup {None}]
        /\ \A n \in SettingIds : settings[n] # None =>
              settings'[n] # None /\ settings'[n].campaign = settings[n].campaign
    BY <2>1, <2>4, <2>5, RowsCommitted
  <2>7. StepsOK'
    <3>1. WorkerOK(w)'
      BY <2>3, <2>4 DEF WorkerOK
    <3> QED
      BY <2>3, <2>4, <2>6, <3>1, OthersOK
  <2>8. TypeOK'
    <3>1. announced' \in [Campaigns -> Routing!Decisions]
      <4>1. wEvents[w] \in [Campaigns -> Routing!Decisions \cup {Absent}]
        BY DEF TypeOK
      <4> QED
        BY <2>1, <4>1 DEF TypeOK, Routing!RoutingTypeOK
    <3>2. Routing!RoutingTypeOK'
      BY <2>1, <2>6, <3>1 DEF TypeOK, Routing!RoutingTypeOK
    <3>3. superseded' \subseteq Campaigns
      BY <2>1 DEF TypeOK, KeptClosed
    <3>4. /\ wSettings' \in [Workers -> [SettingIds -> Routing!Versions \cup {Absent}]]
          /\ wEvents' \in [Workers -> [Campaigns -> Routing!Decisions \cup {Absent}]]
      BY <2>2 DEF TypeOK, End, NothingWritten, NoEvents
    <3>5. /\ pc' \in [Workers -> Steps] /\ req' \in [Workers -> Routing!CampaignChanges \cup {Absent}]
          /\ todo' \in [Workers -> Selections \cup {<<>>}]
          /\ plan' \in [Workers -> Plans \cup {Absent}]
          /\ target' \in [Workers -> SettingIds \cup {None}]
      BY <2>2 DEF TypeOK, End, Steps
    <3> QED
      BY <3>2, <3>3, <3>4, <3>5 DEF TypeOK
  <2> QED
    BY <2>6, <2>7, <2>8
<1> QED
  BY <1>1, <1>2

\* A campaign may be edited at any time: its versions are not looked at.
LEMMA EditStep ==
  ASSUME SessionsInv, NEW c \in Campaigns, NEW row \in Rows, Edit(c, row)
  PROVE  SessionsInv'
<1> USE DEF SessionsInv
<1>1. /\ campaign' = [campaign EXCEPT ![c] = row] /\ settings' = settings
      /\ announced' = announced /\ UNCHANGED <<sessions, superseded>>
  BY DEF Edit, Routing!UpdateCampaign
<1>2. row \in Routing!CampaignRows
  BY RowsAssumption
<1>3. TypeOK'
  BY <1>1, <1>2 DEF TypeOK, sessions, Routing!RoutingTypeOK
<1>4. StepsOK'
  BY <1>1 DEF StepsOK, WorkerOK, sessions
<1>5. LocksInv'
  BY <1>1, QuietStep DEF sessions
<1> QED
  BY <1>3, <1>4, <1>5

LEMMA SessionsInit == Init => SessionsInv
<1> SUFFICES ASSUME Init PROVE SessionsInv
  OBVIOUS
<1> USE DEF Init
<1>1. TypeOK
  <2>1. Routing!RoutingTypeOK
    BY RowsAssumption
    DEF Routing!RoutingTypeOK, Routing!ServerPriority, Routing!Decisions
  <2> QED
    BY <2>1 DEF TypeOK, Steps, NothingWritten, NoEvents
<1>2. StepsOK
  BY DEF StepsOK, WorkerOK
<1>3. \A w \in Workers : Written(w) = {}
  BY DEF NothingWritten, Written
<1>4. \A c : Routing!OpenVersions(c) = {}
  BY DEF Routing!OpenVersions
<1>5. LocksInv
  BY <1>3, <1>4 DEF LocksInv, OneOpenVersion, Routing!OneOpenVersion, RowsApart, WrittenOK
<1> QED
  BY <1>1, <1>2, <1>5 DEF SessionsInv

LEMMA SessionsStep == SessionsInv /\ [Next]_vars => SessionsInv'
<1> SUFFICES ASSUME SessionsInv, [Next]_vars PROVE SessionsInv'
  OBVIOUS
<1>1. ASSUME NEW w \in Workers, Begin(w) \/ Step(w) \/ Victim(w) \/ Disconnect(w)
      PROVE  SessionsInv'
  <2>1. CASE Begin(w)
    BY <2>1, BeginStep
  <2>2. CASE ReadState(w)
    BY <2>2, ReadStep
  <2>3. CASE InsertEvent(w)
    BY <2>3, InsertStep
  <2>4. CASE KeepVersion(w)
    BY <2>4, KeepStep
  <2>5. CASE CloseVersion(w)
    BY <2>5, CloseStep
  <2>6. CASE OpenVersion(w)
    BY <2>6, OpenStep
  <2>7. CASE Commit(w)
    BY <2>7, CommitStep
  <2>8. CASE Victim(w) \/ Disconnect(w)
    BY <2>8, EndStep DEF Victim, Disconnect
  <2> QED
    BY <1>1, <2>1, <2>2, <2>3, <2>4, <2>5, <2>6, <2>7, <2>8 DEF Step
<1>2. ASSUME NEW c \in Campaigns, NEW row \in Rows, Edit(c, row) PROVE SessionsInv'
  BY <1>2, EditStep
<1>3. CASE UNCHANGED vars
  <2>1. /\ UNCHANGED <<campaign, settings, announced, superseded>>
        /\ UNCHANGED <<pc, req, todo, plan, target, wSettings, wEvents>>
    BY <1>3 DEF vars, db
  <2>2. TypeOK'
    BY <2>1 DEF SessionsInv, TypeOK, Routing!RoutingTypeOK
  <2>3. StepsOK'
    BY <2>1 DEF SessionsInv, StepsOK, WorkerOK
  <2>4. LocksInv'
    BY <2>1, QuietStep DEF SessionsInv
  <2> QED
    BY <2>2, <2>3, <2>4 DEF SessionsInv
<1> QED
  BY <1>1, <1>2, <1>3 DEF Next

\* However many requests overlap, over however many campaigns, the state keeps
\* its types: an event that was planned is one of the form's, a request that
\* has a version to close or keep knows one (create_routing_event).
THEOREM SessionsTyped == Spec => []TypeOK
<1>1. SessionsInv => TypeOK
  BY DEF SessionsInv
<1> QED
  BY SessionsInit, SessionsStep, <1>1, PTL DEF Spec

\* However many requests overlap, a campaign never has two open versions: the
\* row locks and the unique index of company_routing_settings are enough.
THEOREM OneVersionIsOpen == Spec => []OneOpenVersion
<1>1. SessionsInv => OneOpenVersion
  BY DEF SessionsInv, LocksInv
<1> QED
  BY SessionsInit, SessionsStep, <1>1, PTL DEF Spec

--------------------------------------------------------------------------------
(***************************************************************************)
(* What a version is opened with, and what is announced of it.             *)
(***************************************************************************)
\* As it is required of a version that is opened for c.
Fits(c, s, g) == s = campaign[c].server /\ campaign[c].geo \in {None, g}

\* The event of a written version is written too; until its end nobody edits
\* what an inserted version was opened for, or changes a version that it closes.
RowEventOK(w, n) ==
    /\ wEvents[w][wSettings[w][n].campaign] # Absent
    /\ settings[n] = None =>
          Fits(wSettings[w][n].campaign, wSettings[w][n].server, wSettings[w][n].geo)
    /\ settings[n] # None => wSettings[w][n] \in {settings[n], Routing!Closed(n)}

\* The event of w for c has left what it decided.
Shown(w, c) ==
    \E n \in Written(w) :
        /\ wSettings[w][n].campaign = c /\ wSettings[w][n].decision = wEvents[w][c]
        /\ \/ wSettings[w][n].open
           \/ \A m \in Written(w) \ {n} : wSettings[w][m].campaign # c

InEvent(w) == pc[w] \in {"close", "keep", "open"}

EventOK(w) ==
    /\ pc[w] = "idle" => wEvents[w] = NoEvents
    /\ pc[w] = "commit" => todo[w] = <<>>
    /\ \A c \in Elements(todo[w]) :
          wEvents[w][c] # Absent => InEvent(w) /\ c = Head(todo[w])
    /\ InEvent(w) =>
          /\ wEvents[w][Head(todo[w])] = plan[w].decision
          /\ Routing!Decides(plan[w].decision) =>
                Fits(Head(todo[w]), plan[w].server, plan[w].geo)
    /\ pc[w] = "open" => Routing!Decides(plan[w].decision)
    /\ pc[w] = "keep" => settings[target[w]].decision = plan[w].decision
    /\ \A n \in Written(w) : RowEventOK(w, n)
    /\ \A c \in Campaigns \ Elements(todo[w]) :
          wEvents[w][c] # Absent /\ Routing!Decides(wEvents[w][c]) => Shown(w, c)

EventsOK == \A w \in Workers : EventOK(w)

LEMMA ElementsOfNone == Elements(<<>>) = {}
BY DEF Elements

\* A request that has written nothing yet.
LEMMA ClearedEvent ==
  ASSUME NEW w \in Workers, pc'[w] \in {"idle", "read"},
         wSettings'[w] = NothingWritten, wEvents'[w] = NoEvents,
         todo'[w] \in Selections \cup {<<>>}
  PROVE  EventOK(w)'
<1>1. Written(w)' = {}
  BY DEF Written, NothingWritten
<1>2. \A c \in Campaigns : wEvents'[w][c] = Absent
  BY DEF NoEvents
<1>3. \A c \in Elements(todo'[w]) : c \in Campaigns
  <2>1. CASE todo'[w] = <<>>
    BY <2>1, ElementsOfNone
  <2>2. CASE todo'[w] \in Selections
    <3>1. todo'[w] \in Seq(Campaigns)
      BY <2>2, SelectionFacts
    <3> QED
      BY <3>1 DEF Elements
  <2> QED
    BY <2>1, <2>2
<1> QED
  BY <1>1, <1>2, <1>3 DEF EventOK, InEvent

\* Nothing of u changes, and nothing that it has looked at.
LEMMA OtherEvent ==
  ASSUME EventsOK, NEW u \in Workers, settings' = settings, campaign' = campaign,
         pc'[u] = pc[u], todo'[u] = todo[u], plan'[u] = plan[u], target'[u] = target[u],
         wSettings'[u] = wSettings[u], wEvents'[u] = wEvents[u]
  PROVE  EventOK(u)'
<1>1. EventOK(u) /\ Written(u)' = Written(u)
  BY DEF EventsOK, Written
<1>2. \A c : Shown(u, c) => Shown(u, c)'
  BY <1>1 DEF Shown
<1>3. \A n \in Written(u) : RowEventOK(u, n)'
  BY <1>1 DEF EventOK, RowEventOK, Fits, Routing!Closed
<1> QED
  BY <1>1, <1>2, <1>3 DEF EventOK, InEvent, Fits

\* What w has written for other campaigns than c stays as it is.
WritesOnly(w, c) ==
    /\ \A d \in Campaigns \ {c} : wEvents'[w][d] = wEvents[w][d]
    /\ \A n \in Written(w) : wSettings[w][n].campaign # c =>
          n \in Written(w)' /\ wSettings'[w][n] = wSettings[w][n]
    /\ \A n \in Written(w)' :
          \/ wSettings'[w][n].campaign = c
          \/ n \in Written(w) /\ wSettings'[w][n] = wSettings[w][n]

LEMMA ShownKept ==
  ASSUME NEW w \in Workers, NEW c \in Campaigns, WritesOnly(w, c),
         NEW d \in Campaigns \ {c}, Shown(w, d)
  PROVE  Shown(w, d)'
<1>1. PICK n \in Written(w) :
        /\ wSettings[w][n].campaign = d /\ wSettings[w][n].decision = wEvents[w][d]
        /\ \/ wSettings[w][n].open
           \/ \A m \in Written(w) \ {n} : wSettings[w][m].campaign # d
  BY DEF Shown
<1>2. n \in Written(w)' /\ wSettings'[w][n] = wSettings[w][n] /\ wEvents'[w][d] = wEvents[w][d]
  BY <1>1 DEF WritesOnly
<1>3. ASSUME NEW m \in Written(w)', wSettings'[w][m].campaign = d
      PROVE  m \in Written(w) /\ wSettings[w][m].campaign = d
  BY <1>3 DEF WritesOnly
<1> QED
  BY <1>1, <1>2, <1>3 DEF Shown

\* The event of w for c is done.
LEMMA FinishedEvent ==
  ASSUME TypeOK, StepsOK, EventsOK, NEW w \in Workers, NEW c \in Campaigns, Finish(w),
         pc[w] \in {"read", "event", "keep", "close", "open"},
         c = Head(todo[w]), WritesOnly(w, c),
         \A n \in Written(w)' : RowEventOK(w, n)',
         wEvents'[w][c] # Absent /\ Routing!Decides(wEvents'[w][c]) => Shown(w, c)'
  PROVE  EventOK(w)'
<1>1. /\ todo'[w] = Tail(todo[w]) /\ Elements(todo'[w]) = Elements(todo[w]) \ {c}
      /\ todo[w] \in Selections /\ Elements(todo[w]) \subseteq Campaigns
  <2>1. todo[w] \in Selections
    BY DEF StepsOK, WorkerOK
  <2>2. Elements(todo[w]) \subseteq Campaigns
    BY <2>1, SelectionFacts DEF Elements
  <2> QED
    BY <2>1, <2>2, FinishFacts
<1>2. pc'[w] = IF Len(todo[w]) > 1 THEN "read" ELSE "commit"
  BY DEF Finish, Goto, TypeOK
<1>3. pc'[w] \in {"read", "commit"}
  BY <1>2
<1>4. pc'[w] = "commit" => todo'[w] = <<>>
  <2>1. Len(todo[w]) \in Nat \ {0} /\ todo[w] \in Seq(Campaigns) /\ todo[w] # <<>>
    BY <1>1, SelectionFacts
  <2>2. ASSUME ~(Len(todo[w]) > 1) PROVE Tail(todo[w]) = <<>>
    <3>1. Len(todo[w]) = 1
      <4>1. \A k \in Nat \ {0} : k > 1 \/ k = 1
        OBVIOUS
      <4> QED
        BY <2>1, <2>2, <4>1
    <3>2. Tail(todo[w]) \in Seq(Campaigns) /\ Len(Tail(todo[w])) = 0
      BY <2>1, <3>1, HeadTailProperties
    <3> QED
      BY <3>2, EmptySeq
  <2> QED
    BY <1>1, <1>2, <2>2
<1>5. EventOK(w)
  BY DEF EventsOK
<1>6. ASSUME NEW d \in Elements(todo'[w]) PROVE wEvents'[w][d] = Absent
  BY <1>1, <1>5, <1>6 DEF EventOK, WritesOnly
<1>7. ASSUME NEW d \in Campaigns \ Elements(todo'[w]),
             wEvents'[w][d] # Absent /\ Routing!Decides(wEvents'[w][d])
      PROVE  Shown(w, d)'
  <2>1. CASE d = c
    BY <1>7, <2>1
  <2>2. CASE d # c
    <3>1. Shown(w, d)
      BY <1>1, <1>5, <1>7, <2>2 DEF EventOK, WritesOnly
    <3> QED
      BY <2>2, <3>1, ShownKept
  <2> QED
    BY <2>1, <2>2
<1> QED
  BY <1>3, <1>4, <1>6, <1>7 DEF EventOK, InEvent

\* The other requests see nothing of what w does before it commits.
LEMMA EventsKept ==
  ASSUME TypeOK, EventsOK, NEW w \in Workers, OthersKeep(w), EventOK(w)',
         settings' = settings, campaign' = campaign,
         \A u \in Workers \ {w} : wSettings'[u] = wSettings[u] /\ wEvents'[u] = wEvents[u]
  PROVE  EventsOK'
<1>1. ASSUME NEW u \in Workers \ {w} PROVE EventOK(u)'
  BY <1>1, OtherEvent DEF OthersKeep
<1> QED
  BY <1>1 DEF EventsOK

LEMMA EndEvents ==
  ASSUME SessionsInv, SessionsInv', EventsOK, NEW w \in Workers, Rollback(w)
  PROVE  EventsOK'
<1> USE DEF SessionsInv
<1>1. /\ pc'[w] = "idle" /\ wSettings'[w] = NothingWritten /\ wEvents'[w] = NoEvents
      /\ OthersKeep(w) /\ settings' = settings /\ campaign' = campaign
      /\ \A u \in Workers \ {w} : wSettings'[u] = wSettings[u] /\ wEvents'[u] = wEvents[u]
  BY DEF Rollback, End, TypeOK, OthersKeep, db
<1>2. todo'[w] \in Selections \cup {<<>>}
  BY DEF TypeOK
<1>3. EventOK(w)'
  BY <1>1, <1>2, ClearedEvent
<1> QED
  BY <1>1, <1>3, EventsKept

LEMMA BeginEvents ==
  ASSUME SessionsInv, SessionsInv', EventsOK, NEW w \in Workers, Begin(w)
  PROVE  EventsOK'
<1> USE DEF SessionsInv
<1>1. /\ pc[w] = "idle" /\ pc' = [pc EXCEPT ![w] = "read"]
      /\ UNCHANGED <<db, plan, target, wSettings, wEvents>>
  BY DEF Begin
<1>2. PICK e \in Routing!CampaignChanges, cs \in Selections :
        req' = [req EXCEPT ![w] = e] /\ todo' = [todo EXCEPT ![w] = cs]
  BY DEF Begin
<1>3. /\ pc'[w] = "read" /\ OthersKeep(w) /\ settings' = settings /\ campaign' = campaign
      /\ wSettings' = wSettings /\ wEvents' = wEvents
  BY <1>1, <1>2 DEF TypeOK, OthersKeep, db
<1>4. wSettings'[w] = NothingWritten /\ wEvents'[w] = NoEvents
  BY <1>1, <1>3 DEF StepsOK, WorkerOK, EventsOK, EventOK
<1>5. todo'[w] \in Selections \cup {<<>>}
  BY DEF TypeOK
<1>6. EventOK(w)'
  BY <1>3, <1>4, <1>5, ClearedEvent
<1> QED
  BY <1>3, <1>6, EventsKept

LEMMA FinishKeeps ==
  ASSUME TypeOK, StepsOK, NEW w \in Workers, Finish(w),
         pc[w] \in {"read", "event", "keep", "close", "open"}
  PROVE  /\ OthersKeep(w) /\ settings' = settings /\ campaign' = campaign
         /\ todo[w] \in Selections /\ Head(todo[w]) \in Campaigns
         /\ Head(todo[w]) \in Elements(todo[w])
<1>1. settings' = settings /\ campaign' = campaign
  BY DEF Finish, Goto, db
<1>2. todo[w] \in Selections
  BY DEF StepsOK, WorkerOK
<1> QED
  BY <1>1, <1>2, SelectionFacts, FinishFacts

LEMMA ReadEvents ==
  ASSUME SessionsInv, SessionsInv', EventsOK, NEW w \in Workers, ReadState(w)
  PROVE  EventsOK'
<1> USE DEF SessionsInv
<1> DEFINE refused == \/ campaign[Head(todo[w])] = None \/ ~campaign[Head(todo[w])].is_active
                      \/ req[w].kind = "set_campaign_route" /\ ~Routing!GeoFits(Head(todo[w]), req[w].route)
           same == Routing!NoChange(Head(todo[w]), req[w])
<1>1. pc[w] = "read" /\ EventOK(w)
  BY DEF ReadState, EventsOK
<1>2. CASE refused
  BY <1>2, EndEvents DEF ReadState
<1>3. CASE ~refused /\ same
  <2>1. Finish(w) /\ UNCHANGED <<wSettings, wEvents>>
    BY <1>3 DEF ReadState
  <2>2. PICK c \in Campaigns : c = Head(todo[w]) /\ c \in Elements(todo[w])
    BY <1>1, <2>1, FinishKeeps
  <2>3. settings' = settings /\ campaign' = campaign /\ OthersKeep(w)
    BY <1>1, <2>1, FinishKeeps
  <2>4. wEvents[w][c] = Absent
    BY <1>1, <2>2 DEF EventOK, InEvent
  <2>5. WritesOnly(w, c) /\ Written(w)' = Written(w)
    BY <2>1 DEF WritesOnly, Written
  <2>6. \A n \in Written(w) : RowEventOK(w, n)'
    BY <1>1, <2>1, <2>3 DEF EventOK, RowEventOK, Fits, Routing!Closed
  <2>7. EventOK(w)'
    BY <1>1, <2>1, <2>2, <2>4, <2>5, <2>6, FinishedEvent
  <2> QED
    BY <2>1, <2>3, <2>7, EventsKept
<1>4. CASE ~refused /\ ~same
  <2>1. /\ pc' = [pc EXCEPT ![w] = "event"]
        /\ UNCHANGED <<db, req, todo, target, wSettings, wEvents>>
    BY <1>4 DEF ReadState, Goto
  <2>2. plan' = [plan EXCEPT ![w] = [decision |-> Routing!NewDecision(Head(todo[w]), req[w]),
                                     geo |-> Routing!EventGeo(Head(todo[w]), req[w]),
                                     server |-> campaign[Head(todo[w])].server]]
    BY <1>4 DEF ReadState
  <2> HIDE DEF refused, same
  <2>3. /\ pc'[w] = "event" /\ OthersKeep(w) /\ settings' = settings /\ campaign' = campaign
        /\ wSettings' = wSettings /\ wEvents' = wEvents /\ todo' = todo
    BY <2>1, <2>2 DEF TypeOK, OthersKeep, db
  <2>4. Written(w)' = Written(w) /\ \A c : Shown(w, c)' <=> Shown(w, c)
    BY <2>3 DEF Written, Shown
  <2>5. \A n \in Written(w) : RowEventOK(w, n)'
    BY <1>1, <2>3 DEF EventOK, RowEventOK, Fits, Routing!Closed
  <2>6. EventOK(w)'
    BY <1>1, <2>3, <2>4, <2>5 DEF EventOK, InEvent
  <2> QED
    BY <2>3, <2>6, EventsKept
<1> QED
  BY <1>2, <1>3, <1>4

\* The event is the first thing that is written for its campaign.
LEMMA InsertEvents ==
  ASSUME SessionsInv, SessionsInv', EventsOK, NEW w \in Workers, InsertEvent(w)
  PROVE  EventsOK'
<1> USE DEF SessionsInv
<1>1. pc[w] = "event" /\ EventOK(w) /\ todo[w] \in Selections /\ plan[w] \in Plans
  BY DEF InsertEvent, EventsOK, StepsOK, WorkerOK
<1>2. PICK c \in Campaigns : c = Head(todo[w]) /\ c \in Elements(todo[w])
  BY <1>1, SelectionFacts
<1>3. CASE ~Accepted(w, c)
  BY <1>2, <1>3, EndEvents DEF InsertEvent
<1>4. CASE Accepted(w, c)
  <2>1. wEvents' = [wEvents EXCEPT ![w][c] = plan[w].decision] /\ wSettings' = wSettings
    BY <1>2, <1>4 DEF InsertEvent
  <2>2. /\ wEvents'[w][c] = plan[w].decision /\ plan[w].decision # Absent
        /\ \A d \in Campaigns \ {c} : wEvents'[w][d] = wEvents[w][d]
        /\ \A u \in Workers \ {w} : wEvents'[u] = wEvents[u]
    <3>1. plan[w].decision # Absent
      BY <1>1, AbsentAssumption DEF Plans
    <3> QED
      BY <2>1, <3>1 DEF TypeOK
  <2>3. settings' = settings /\ campaign' = campaign
    <3>1. UNCHANGED db
      BY <1>2, <1>4 DEF InsertEvent, Finish, Goto
    <3> QED
      BY <3>1 DEF db
  <2>4. Written(w)' = Written(w) /\ WritesOnly(w, c)
    BY <2>1, <2>2 DEF Written, WritesOnly
  <2>5. ASSUME NEW n \in Written(w) PROVE wSettings[w][n].campaign \in Campaigns \ {c} /\ RowEventOK(w, n)'
    <3>1. RowEventOK(w, n) /\ wSettings[w][n].campaign \in Campaigns
      BY <1>1 DEF EventOK, TypeOK, Written, Routing!Versions
    <3>2. wSettings[w][n].campaign # c
      BY <1>1, <1>2, <3>1 DEF EventOK, RowEventOK, InEvent
    <3> QED
      BY <2>1, <2>2, <2>3, <3>1, <3>2 DEF RowEventOK, Fits, Routing!Closed
  <2>6. Routing!Decides(plan[w].decision) => Fits(c, plan[w].server, plan[w].geo)
    BY <1>4 DEF Accepted, Fits, Routing!ValidValues
  <2>7. ASSUME pc'[w] \in {"close", "keep", "open"}, todo' = todo, plan' = plan, OthersKeep(w),
               pc'[w] = "open" => Routing!Decides(plan[w].decision),
               pc'[w] = "keep" => settings'[target'[w]].decision = plan[w].decision
        PROVE  EventsOK'
    <3>1. \A d \in Campaigns \ Elements(todo[w]) : Shown(w, d) => Shown(w, d)'
      BY <1>2, <2>4, ShownKept
    <3>2. \A d \in Elements(todo[w]) : d \in Campaigns
      BY <1>1, SelectionFacts DEF Elements
    <3>3. EventOK(w)'
      BY <1>1, <1>2, <2>2, <2>3, <2>4, <2>5, <2>6, <2>7, <3>1, <3>2 DEF EventOK, InEvent, Fits
    <3> QED
      BY <2>1, <2>2, <2>3, <2>7, <3>3, EventsKept
  <2>8. CASE Routing!OpenVersions(c) # {}
    <3> DEFINE next == IF settings[Routing!ActiveSetting(c)] = NewVersion(w) THEN "keep" ELSE "close"
    <3>1. /\ target' = [target EXCEPT ![w] = Routing!ActiveSetting(c)]
          /\ pc' = [pc EXCEPT ![w] = next] /\ UNCHANGED <<db, req, todo, plan>>
      BY <1>2, <1>4, <2>8 DEF InsertEvent, Goto
    <3>2. next = "keep" => settings[Routing!ActiveSetting(c)].decision = plan[w].decision
      BY DEF NewVersion, Routing!Version
    <3>3. next \in {"close", "keep"}
      OBVIOUS
    <3> HIDE DEF next
    <3>4. /\ pc'[w] = next /\ target'[w] = Routing!ActiveSetting(c) /\ OthersKeep(w)
          /\ todo' = todo /\ plan' = plan
      BY <3>1 DEF TypeOK, OthersKeep
    <3> QED
      BY <2>3, <2>7, <3>2, <3>3, <3>4
  <2>9. CASE Routing!OpenVersions(c) = {} /\ Routing!Decides(plan[w].decision)
    <3>1. pc' = [pc EXCEPT ![w] = "open"] /\ UNCHANGED <<db, req, todo, plan, target>>
      BY <1>2, <1>4, <2>9 DEF InsertEvent, Goto
    <3>2. pc'[w] = "open" /\ OthersKeep(w) /\ todo' = todo /\ plan' = plan
      BY <3>1 DEF TypeOK, OthersKeep
    <3> QED
      BY <2>7, <2>9, <3>2
  <2>10. CASE Routing!OpenVersions(c) = {} /\ ~Routing!Decides(plan[w].decision)
    <3>1. Finish(w)
      BY <1>2, <1>4, <2>10 DEF InsertEvent
    <3>2. EventOK(w)'
      BY <1>1, <1>2, <2>2, <2>4, <2>5, <2>10, <3>1, FinishedEvent
    <3> QED
      BY <1>1, <2>1, <2>2, <2>3, <3>1, <3>2, FinishKeeps, EventsKept
  <2> QED
    BY <2>8, <2>9, <2>10
<1> QED
  BY <1>3, <1>4

\* The event of w writes the version n of its campaign c.
WritesRow(w, c, n, row) ==
    /\ c = Head(todo[w]) /\ InEvent(w) /\ row.campaign = c
    /\ wSettings' = [wSettings EXCEPT ![w][n] = row] /\ wEvents' = wEvents
    /\ settings' = settings /\ campaign' = campaign
    /\ n \in Written(w) => wSettings[w][n].campaign = c
    /\ settings[n] = None => Fits(c, row.server, row.geo)
    /\ settings[n] # None => row \in {settings[n], Routing!Closed(n)}

LEMMA RowWriteEvents ==
  ASSUME SessionsInv, EventsOK, NEW w \in Workers, NEW c \in Campaigns, NEW n \in SettingIds,
         NEW row \in Routing!Versions, WritesRow(w, c, n, row)
  PROVE  /\ WritesOnly(w, c)
         /\ Written(w)' = Written(w) \cup {n} /\ wSettings'[w][n] = row
         /\ \A m \in Written(w) \ {n} : wSettings'[w][m] = wSettings[w][m]
         /\ \A m \in Written(w)' : RowEventOK(w, m)'
         /\ \A u \in Workers \ {w} : wSettings'[u] = wSettings[u] /\ wEvents'[u] = wEvents[u]
<1> USE DEF SessionsInv, WritesRow
<1>1. row # Absent
  BY AbsentAssumption
<1>2. /\ wSettings'[w] = [wSettings[w] EXCEPT ![n] = row]
      /\ \A u \in Workers \ {w} : wSettings'[u] = wSettings[u]
  BY DEF TypeOK
<1>3. /\ Written(w)' = Written(w) \cup {n} /\ wSettings'[w][n] = row
      /\ \A m \in Written(w) \ {n} : wSettings'[w][m] = wSettings[w][m]
  BY <1>1, <1>2 DEF TypeOK, Written
<1>4. WritesOnly(w, c)
  BY <1>3 DEF WritesOnly
<1>5. EventOK(w) /\ plan[w] \in Plans /\ wEvents[w][c] = plan[w].decision /\ wEvents[w][c] # Absent
  BY AbsentAssumption DEF EventsOK, EventOK, InEvent, StepsOK, WorkerOK, Plans
<1>6. RowEventOK(w, n)'
  BY <1>3, <1>5 DEF RowEventOK, Fits, Routing!Closed
<1>7. ASSUME NEW m \in Written(w) \ {n} PROVE RowEventOK(w, m)'
  BY <1>3, <1>5 DEF EventOK, RowEventOK, Fits, Routing!Closed
<1> QED
  BY <1>2, <1>3, <1>4, <1>6, <1>7

\* A version that is kept may be closed, and is then all its event has written.
LEMMA KeepEvents ==
  ASSUME SessionsInv, SessionsInv', EventsOK, NEW w \in Workers, KeepVersion(w)
  PROVE  EventsOK'
<1> USE DEF SessionsInv
<1>1. pc[w] = "keep" /\ Finish(w) /\ wEvents' = wEvents
  BY DEF KeepVersion
<1>2. PICK c \in Campaigns : c = Head(todo[w]) /\ c \in Elements(todo[w])
  BY <1>1, FinishKeeps
<1>3. PICK n \in SettingIds : n = target[w] /\ settings[n] # None /\ settings[n].campaign = c
  BY <1>1, <1>2 DEF StepsOK, WorkerOK
<1>4. PICK row \in Routing!Versions : row = settings[n]
  BY <1>3 DEF TypeOK, Routing!RoutingTypeOK
<1>5. /\ wSettings' = [wSettings EXCEPT ![w][n] = row] /\ InEvent(w)
      /\ settings' = settings /\ campaign' = campaign /\ OthersKeep(w)
  BY <1>1, <1>3, <1>4, FinishKeeps DEF KeepVersion, InEvent
<1>6. ASSUME NEW m \in Written(w) PROVE wSettings[w][m].campaign # c
  BY <1>1, <1>2, <1>6 DEF LocksInv, WrittenOK, WrittenRowOK
<1>7. /\ WritesOnly(w, c)
      /\ Written(w)' = Written(w) \cup {n} /\ wSettings'[w][n] = row
      /\ \A m \in Written(w) \ {n} : wSettings'[w][m] = wSettings[w][m]
      /\ \A m \in Written(w)' : RowEventOK(w, m)'
      /\ \A u \in Workers \ {w} : wSettings'[u] = wSettings[u] /\ wEvents'[u] = wEvents[u]
  <2>1. n \notin Written(w)
    BY <1>3, <1>6 DEF LocksInv, WrittenOK, WrittenRowOK
  <2>2. WritesRow(w, c, n, row)
    BY <1>1, <1>2, <1>3, <1>4, <1>5, <2>1 DEF WritesRow
  <2> QED
    BY <2>2, RowWriteEvents
<1>8. Shown(w, c)'
  <2>1. row.decision = wEvents[w][c] /\ row.campaign = c
    BY <1>1, <1>2, <1>3, <1>4, <1>5 DEF EventsOK, EventOK
  <2>2. \A m \in Written(w)' \ {n} : wSettings'[w][m].campaign # c
    BY <1>6, <1>7
  <2> QED
    BY <1>1, <1>7, <2>1, <2>2 DEF Shown
<1>9. EventOK(w)'
  BY <1>1, <1>2, <1>7, <1>8, FinishedEvent
<1> QED
  BY <1>5, <1>7, <1>9, EventsKept

LEMMA CloseEvents ==
  ASSUME SessionsInv, SessionsInv', EventsOK, NEW w \in Workers, CloseVersion(w)
  PROVE  EventsOK'
<1> USE DEF SessionsInv
<1>1. pc[w] = "close" /\ wEvents' = wEvents /\ EventOK(w) /\ todo[w] \in Selections
  BY DEF CloseVersion, EventsOK, StepsOK, WorkerOK
<1>2. PICK c \in Campaigns : c = Head(todo[w]) /\ c \in Elements(todo[w])
  BY <1>1, SelectionFacts
<1>3. PICK n \in SettingIds : n = target[w] /\ settings[n] # None /\ settings[n].campaign = c
  BY <1>1, <1>2 DEF StepsOK, WorkerOK
<1>4. PICK row \in Routing!Versions : row = Routing!Closed(n) /\ row.campaign = c
  BY <1>3, ClosedType DEF TypeOK
<1>5. UNCHANGED db
  BY DEF CloseVersion, Finish, Goto
<1>6. /\ wSettings' = [wSettings EXCEPT ![w][n] = row] /\ InEvent(w)
      /\ settings' = settings /\ campaign' = campaign
  BY <1>1, <1>3, <1>4, <1>5 DEF CloseVersion, InEvent, db
<1>7. ASSUME NEW m \in Written(w) PROVE wSettings[w][m].campaign # c
  BY <1>1, <1>2, <1>7 DEF LocksInv, WrittenOK, WrittenRowOK
<1>8. /\ WritesOnly(w, c)
      /\ \A m \in Written(w)' : RowEventOK(w, m)'
      /\ \A u \in Workers \ {w} : wSettings'[u] = wSettings[u] /\ wEvents'[u] = wEvents[u]
  <2>1. n \notin Written(w)
    BY <1>3, <1>7 DEF LocksInv, WrittenOK, WrittenRowOK
  <2>2. WritesRow(w, c, n, row)
    BY <1>1, <1>2, <1>3, <1>4, <1>6, <2>1 DEF WritesRow
  <2> QED
    BY <2>2, RowWriteEvents
<1>9. CASE Routing!Decides(plan[w].decision)
  <2>1. pc' = [pc EXCEPT ![w] = "open"] /\ UNCHANGED <<db, req, todo, plan, target>>
    BY <1>9 DEF CloseVersion, Goto
  <2>2. pc'[w] = "open" /\ OthersKeep(w) /\ todo' = todo /\ plan' = plan
    BY <2>1 DEF TypeOK, OthersKeep
  <2>3. \A d \in Campaigns \ Elements(todo[w]) : Shown(w, d) => Shown(w, d)'
    BY <1>2, <1>8, ShownKept
  <2>4. EventOK(w)'
    BY <1>1, <1>6, <1>8, <1>9, <2>2, <2>3 DEF EventOK, InEvent, Fits
  <2> QED
    BY <1>6, <1>8, <2>2, <2>4, EventsKept
<1>10. CASE ~Routing!Decides(plan[w].decision)
  <2>1. Finish(w)
    BY <1>10 DEF CloseVersion
  <2>2. ~Routing!Decides(wEvents'[w][c])
    BY <1>1, <1>2, <1>6, <1>10 DEF EventOK
  <2>3. EventOK(w)'
    BY <1>1, <1>2, <1>8, <2>1, <2>2, FinishedEvent
  <2> QED
    BY <1>1, <1>6, <1>8, <2>1, <2>3, FinishKeeps, EventsKept
<1> QED
  BY <1>9, <1>10

LEMMA OpenEvents ==
  ASSUME SessionsInv, SessionsInv', EventsOK, NEW w \in Workers, OpenVersion(w)
  PROVE  EventsOK'
<1> USE DEF SessionsInv
<1>1. pc[w] = "open" /\ EventOK(w) /\ InEvent(w)
  BY DEF OpenVersion, EventsOK, InEvent
<1>2. CASE Routing!OpenVersions(Head(todo[w])) \ Written(w) # {} \/ UnusedIds = {}
  BY <1>2, EndEvents DEF OpenVersion
<1>3. CASE ~(Routing!OpenVersions(Head(todo[w])) \ Written(w) # {} \/ UnusedIds = {})
  <2>1. PICK n \in UnusedIds : wSettings' = [wSettings EXCEPT ![w][n] = NewVersion(w)]
    BY <1>3 DEF OpenVersion
  <2>2. Finish(w) /\ wEvents' = wEvents
    BY <1>3 DEF OpenVersion
  <2>3. PICK c \in Campaigns : c = Head(todo[w]) /\ c \in Elements(todo[w])
    BY <1>1, <2>2, FinishKeeps
  <2>4. n \in SettingIds /\ settings[n] = None /\ n \notin Written(w)
    BY UnusedIsFree
  <2>5. PICK row \in Routing!Versions : row = NewVersion(w)
    BY <1>1, NewVersionType
  <2>6. /\ row.campaign = c /\ row.open /\ row.decision = plan[w].decision
        /\ row.server = plan[w].server /\ row.geo = plan[w].geo
    BY <2>3, <2>5 DEF NewVersion, Routing!Version
  <2>7. Fits(c, row.server, row.geo) /\ row.decision = wEvents[w][c]
    BY <1>1, <2>3, <2>6 DEF EventOK
  <2>8. settings' = settings /\ campaign' = campaign /\ OthersKeep(w)
    BY <1>1, <2>2, FinishKeeps
  <2>9. /\ WritesOnly(w, c)
        /\ Written(w)' = Written(w) \cup {n} /\ wSettings'[w][n] = row
        /\ \A m \in Written(w)' : RowEventOK(w, m)'
        /\ \A u \in Workers \ {w} : wSettings'[u] = wSettings[u] /\ wEvents'[u] = wEvents[u]
    <3>1. WritesRow(w, c, n, row)
      BY <1>1, <2>1, <2>2, <2>3, <2>4, <2>5, <2>6, <2>7, <2>8 DEF WritesRow
    <3> QED
      BY <2>4, <3>1, RowWriteEvents
  <2>10. Shown(w, c)'
    BY <2>2, <2>6, <2>7, <2>9 DEF Shown
  <2>11. EventOK(w)'
    BY <1>1, <2>2, <2>3, <2>9, <2>10, FinishedEvent
  <2> QED
    BY <2>8, <2>9, <2>11, EventsKept
<1> QED
  BY <1>2, <1>3

\* The rows that other requests have looked at keep their campaign and decision.
LEMMA CommitEvents ==
  ASSUME SessionsInv, SessionsInv', EventsOK, NEW w \in Workers, Commit(w)
  PROVE  EventsOK'
<1> USE DEF SessionsInv
<1>1. CASE wEvents[w] = NoEvents
  BY <1>1, EndEvents DEF Commit
<1>2. CASE wEvents[w] # NoEvents
  <2>1. /\ settings' = [n \in SettingIds |-> IF n \in Written(w) THEN wSettings[w][n] ELSE settings[n]]
        /\ campaign' = campaign /\ End(w)
    BY <1>2 DEF Commit
  <2>2. /\ pc'[w] = "idle" /\ wSettings'[w] = NothingWritten /\ wEvents'[w] = NoEvents
        /\ todo'[w] \in Selections \cup {<<>>}
    BY <2>1 DEF End, TypeOK
  <2>3. EventOK(w)'
    BY <2>2, ClearedEvent
  <2>4. ASSUME NEW u \in Workers \ {w} PROVE EventOK(u)'
    <3>1. /\ pc'[u] = pc[u] /\ todo'[u] = todo[u] /\ plan'[u] = plan[u] /\ target'[u] = target[u]
          /\ wSettings'[u] = wSettings[u] /\ wEvents'[u] = wEvents[u]
      BY <2>1 DEF End, TypeOK
    <3>2. EventOK(u) /\ Written(u)' = Written(u)
      BY <3>1 DEF EventsOK, Written
    <3>3. \A c : Shown(u, c) => Shown(u, c)'
      BY <3>1, <3>2 DEF Shown
    <3>4. ASSUME NEW n \in Written(u) PROVE RowEventOK(u, n)'
      <4>1. settings'[n] = settings[n]
        BY <2>1 DEF LocksInv, RowsApart, Written
      <4> QED
        BY <2>1, <3>1, <3>2, <4>1 DEF EventOK, RowEventOK, Fits, Routing!Closed
    <3>5. ASSUME pc[u] = "keep" PROVE settings'[target[u]].decision = settings[target[u]].decision
      <4>1. PICK n \in SettingIds : n = target[u] /\ settings[n] # None
        BY <3>5 DEF StepsOK, WorkerOK
      <4>2. CASE n \notin Written(w)
        BY <2>1, <4>1, <4>2
      <4>3. CASE n \in Written(w)
        <5>1. wSettings[w][n] \in {settings[n], Routing!Closed(n)}
          BY <4>1, <4>3 DEF EventsOK, EventOK, RowEventOK
        <5>2. wSettings[w][n].decision = settings[n].decision
          BY <4>1, <5>1, ClosedType DEF TypeOK
        <5> QED
          BY <2>1, <4>1, <4>3, <5>2
      <4> QED
        BY <4>2, <4>3
    <3> QED
      BY <2>1, <3>1, <3>2, <3>3, <3>4, <3>5 DEF EventOK, InEvent, Fits
  <2> QED
    BY <2>3, <2>4 DEF EventsOK
<1> QED
  BY <1>1, <1>2

\* The server and the GEO of a campaign wait for the events that name it.
LEMMA EditEvents ==
  ASSUME SessionsInv, SessionsInv', EventsOK, NEW c \in Campaigns, NEW row \in Rows, Edit(c, row)
  PROVE  EventsOK'
<1> USE DEF SessionsInv
<1>1. /\ campaign' = [campaign EXCEPT ![c] = row] /\ settings' = settings
      /\ UNCHANGED <<pc, todo, plan, target, wSettings, wEvents>>
      /\ KeyShared(c) => row.geo = campaign[c].geo /\ row.server = campaign[c].server
  BY DEF Edit, Routing!UpdateCampaign, sessions
<1>2. ASSUME NEW w \in Workers, NEW d \in Campaigns, wEvents[w][d] # Absent, NEW s, NEW g,
             Fits(d, s, g)
      PROVE  Fits(d, s, g)'
  <2>1. CASE d # c
    BY <1>1, <1>2, <2>1 DEF Fits, TypeOK, Routing!RoutingTypeOK
  <2>2. CASE d = c
    <3>1. KeyShared(c)
      BY <1>2, <2>2 DEF KeyShared
    <3>2. campaign'[c] = row
      BY <1>1 DEF TypeOK, Routing!RoutingTypeOK
    <3> QED
      BY <1>1, <1>2, <2>2, <3>1, <3>2 DEF Fits
  <2> QED
    BY <2>1, <2>2
<1>3. ASSUME NEW w \in Workers PROVE EventOK(w)'
  <2>1. EventOK(w) /\ Written(w)' = Written(w)
    BY <1>1 DEF EventsOK, Written
  <2>2. \A d : Shown(w, d) => Shown(w, d)'
    BY <1>1, <2>1 DEF Shown
  <2>3. ASSUME NEW n \in Written(w) PROVE RowEventOK(w, n)'
    <3>1. RowEventOK(w, n) /\ wSettings[w][n].campaign \in Campaigns
      BY <2>1 DEF EventOK, TypeOK, Written, Routing!Versions
    <3> DEFINE d == wSettings[w][n].campaign
               s == wSettings[w][n].server
               g == wSettings[w][n].geo
    <3>2. ASSUME settings[n] = None
          PROVE  s = campaign'[d].server /\ campaign'[d].geo \in {None, g}
      <4>1. Fits(d, s, g) /\ wEvents[w][d] # Absent /\ d \in Campaigns
        BY <3>1, <3>2 DEF RowEventOK
      <4> HIDE DEF d, s, g
      <4>2. \A x, y : Fits(d, x, y) => x = campaign'[d].server /\ campaign'[d].geo \in {None, y}
        <5>1. PICK k \in Campaigns : k = d
          BY <4>1
        <5>2. \A x, y : Fits(k, x, y) => Fits(k, x, y)'
          BY <1>2, <4>1, <5>1
        <5> QED
          BY <5>1, <5>2 DEF Fits
      <4> QED
        BY <4>1, <4>2
    <3> QED
      BY <1>1, <3>1, <3>2 DEF RowEventOK, Fits, Routing!Closed
  <2>4. ASSUME InEvent(w), Routing!Decides(plan[w].decision)
        PROVE  /\ plan[w].server = campaign'[Head(todo[w])].server
               /\ campaign'[Head(todo[w])].geo \in {None, plan[w].geo}
    <3>1. PICK k \in Campaigns : k = Head(todo[w])
      BY <2>4, SelectionFacts DEF StepsOK, WorkerOK, InEvent
    <3>2. plan[w].decision # Absent
      BY <2>4, AbsentAssumption DEF StepsOK, WorkerOK, InEvent, Plans
    <3>3. wEvents[w][k] # Absent /\ Fits(k, plan[w].server, plan[w].geo)
      BY <2>1, <2>4, <3>1, <3>2 DEF EventOK
    <3>4. \A x, y : Fits(k, x, y) => Fits(k, x, y)'
      BY <1>2, <3>3
    <3> QED
      BY <3>1, <3>3, <3>4 DEF Fits
  <2> QED
    BY <1>1, <2>1, <2>2, <2>3, <2>4 DEF EventOK, InEvent, Fits
<1> QED
  BY <1>3 DEF EventsOK

LEMMA EventsInit == Init => EventsOK
<1> SUFFICES ASSUME Init, NEW w \in Workers PROVE EventOK(w)
  BY DEF EventsOK
<1>1. /\ pc[w] = "idle" /\ wEvents[w] = NoEvents /\ todo[w] = <<>> /\ Written(w) = {}
  BY DEF Init, NothingWritten, Written
<1>2. Elements(todo[w]) = {} /\ \A c \in Campaigns : wEvents[w][c] = Absent
  BY <1>1, ElementsOfNone DEF NoEvents
<1> QED
  BY <1>1, <1>2 DEF EventOK, InEvent

LEMMA EventsStep == SessionsInv /\ SessionsInv' /\ EventsOK /\ [Next]_vars => EventsOK'
<1> SUFFICES ASSUME SessionsInv, SessionsInv', EventsOK, [Next]_vars PROVE EventsOK'
  OBVIOUS
<1>1. ASSUME NEW w \in Workers, Begin(w) \/ Step(w) \/ Victim(w) \/ Disconnect(w)
      PROVE  EventsOK'
  BY <1>1, BeginEvents, ReadEvents, InsertEvents, KeepEvents, CloseEvents, OpenEvents,
     CommitEvents, EndEvents DEF Step, Victim, Disconnect
<1>2. ASSUME NEW c \in Campaigns, NEW row \in Rows, Edit(c, row) PROVE EventsOK'
  BY <1>2, EditEvents
<1>3. CASE UNCHANGED vars
  <2>1. settings' = settings /\ campaign' = campaign
        /\ UNCHANGED <<pc, req, todo, plan, target, wSettings, wEvents>>
    BY <1>3 DEF vars, db
  <2>2. ASSUME NEW u \in Workers PROVE EventOK(u)'
    BY <2>1, OtherEvent
  <2> QED
    BY <2>2 DEF EventsOK
<1> QED
  BY <1>1, <1>2, <1>3 DEF Next

--------------------------------------------------------------------------------
InForceIsOpen ==
    \A c \in Campaigns : \A n \in Routing!OpenVersions(c) :
        Routing!InForce(c) = settings[n].decision

LEMMA InForceIs == SessionsInv => InForceIsOpen
BY OpenIsActive DEF SessionsInv, TypeOK, LocksInv, InForceIsOpen

LEMMA InForceStaysOpen == SessionsInv' => InForceIsOpen'
BY InForceIs, PTL

\* Only a commit changes the versions and what is announced.
LEMMA OnlyCommits ==
  ASSUME [Next]_vars, ~ \E w \in Workers : Commit(w) /\ wEvents[w] # NoEvents
  PROVE  settings' = settings /\ announced' = announced /\ superseded' = superseded
<1>1. ASSUME NEW w \in Workers, Begin(w) \/ Step(w) \/ Victim(w) \/ Disconnect(w)
      PROVE  UNCHANGED db
  <2>1. CASE Rollback(w)
    BY <2>1 DEF Rollback
  <2>2. CASE ReadState(w)
    BY <2>1, <2>2 DEF ReadState, Finish, Goto
  <2>3. CASE InsertEvent(w)
    BY <2>1, <2>3 DEF InsertEvent, Finish, Goto
  <2>4. CASE KeepVersion(w)
    BY <2>4 DEF KeepVersion, Finish, Goto
  <2>5. CASE CloseVersion(w)
    BY <2>5 DEF CloseVersion, Finish, Goto
  <2>6. CASE OpenVersion(w)
    BY <2>1, <2>6 DEF OpenVersion, Finish, Goto
  <2>7. CASE Commit(w)
    BY <2>1, <2>7 DEF Commit
  <2>8. CASE Begin(w)
    BY <2>8 DEF Begin
  <2> QED
    BY <1>1, <2>1, <2>2, <2>3, <2>4, <2>5, <2>6, <2>7, <2>8 DEF Step, Victim, Disconnect
<1>2. ASSUME NEW c \in Campaigns, NEW row \in Rows, Edit(c, row)
      PROVE  settings' = settings /\ announced' = announced /\ superseded' = superseded
  BY <1>2 DEF Edit, Routing!UpdateCampaign
<1> QED
  BY <1>1, <1>2 DEF Next, vars, db

LEMMA CommittedAsAnnounced ==
  ASSUME SessionsInv, SessionsInv', EventsOK, OpenedAsAnnounced,
         NEW w \in Workers, Commit(w), wEvents[w] # NoEvents
  PROVE  OpenedAsAnnounced'
<1> USE DEF SessionsInv
<1>1. /\ settings' = [n \in SettingIds |-> IF n \in Written(w) THEN wSettings[w][n] ELSE settings[n]]
      /\ announced' = [c \in Campaigns |->
                          IF wEvents[w][c] = Absent THEN announced[c] ELSE wEvents[w][c]]
      /\ superseded' = {c \in superseded : wEvents[w][c] = Absent} \cup KeptClosed(w)
      /\ pc[w] = "commit" /\ todo[w] = <<>> /\ EventOK(w)
  BY DEF Commit, EventsOK, EventOK
<1>2. \A c \in Campaigns : \A n \in Routing!OpenVersions(c) :
         Routing!InForce(c) = settings[n].decision
  BY InForceIs DEF InForceIsOpen
<1>3. \A c \in Campaigns : \A n \in Routing!OpenVersions(c)' :
         Routing!InForce(c)' = settings'[n].decision
  BY InForceStaysOpen DEF InForceIsOpen
<1>4. \A n \in Written(w) :
        /\ n \in SettingIds /\ settings'[n] = wSettings[w][n] /\ settings'[n] # None
        /\ wEvents[w][wSettings[w][n].campaign] # Absent
        /\ settings[n] # None => wSettings[w][n].campaign = settings[n].campaign
        /\ settings[n] = None => wSettings[w][n].open
  <2>1. ASSUME NEW n \in Written(w)
        PROVE  /\ n \in SettingIds /\ wSettings[w][n] \in Routing!Versions
               /\ WrittenRowOK(w, n) /\ RowEventOK(w, n)
    BY <1>1 DEF TypeOK, Written, LocksInv, WrittenOK, EventOK
  <2> QED
    BY <1>1, <2>1, NoneAssumption DEF WrittenRowOK, RowEventOK, Opens
<1>5. ASSUME NEW c \in Campaigns, c \notin superseded', Routing!Decides(announced'[c])
      PROVE  Routing!InForce(c)' = announced'[c]
  <2>1. CASE wEvents[w][c] = Absent
    <3>1. c \notin superseded /\ announced'[c] = announced[c]
      BY <1>1, <1>5, <2>1
    <3>2. Routing!InForce(c) = announced[c]
      BY <1>5, <3>1 DEF OpenedAsAnnounced
    <3>3. Routing!OpenVersions(c) # {}
      BY <1>5, <3>1, <3>2 DEF Routing!InForce, Routing!ServerPriority, Routing!Decides
    <3>4. PICK n : n \in Routing!OpenVersions(c)
      BY <3>3
    <3>5. n \in SettingIds /\ settings[n] # None /\ settings[n].campaign = c
      BY <3>4 DEF Routing!OpenVersions
    <3>6. settings'[n] = settings[n]
      BY <1>1, <1>4, <2>1, <3>5
    <3>7. n \in Routing!OpenVersions(c)'
      BY <3>4, <3>6 DEF Routing!OpenVersions
    <3> QED
      BY <1>2, <1>3, <3>1, <3>2, <3>4, <3>6, <3>7
  <2>2. CASE wEvents[w][c] # Absent
    <3>1. announced'[c] = wEvents[w][c]
      BY <1>1, <2>2
    <3>2. Shown(w, c)
      BY <1>1, <1>5, <2>2, <3>1, ElementsOfNone DEF EventOK
    <3>3. PICK n \in Written(w) :
            /\ wSettings[w][n].campaign = c /\ wSettings[w][n].decision = wEvents[w][c]
            /\ \/ wSettings[w][n].open
               \/ \A m \in Written(w) \ {n} : wSettings[w][m].campaign # c
      BY <3>2 DEF Shown
    <3>4. wSettings[w][n].open
      BY <1>1, <1>5, <3>3 DEF KeptClosed
    <3>5. n \in Routing!OpenVersions(c)'
      BY <1>4, <3>3, <3>4 DEF Routing!OpenVersions
    <3> QED
      BY <1>3, <1>4, <3>1, <3>3, <3>5
  <2> QED
    BY <2>1, <2>2
<1> QED
  BY <1>5 DEF OpenedAsAnnounced

LEMMA AnnouncedStep ==
  SessionsInv /\ SessionsInv' /\ EventsOK /\ OpenedAsAnnounced /\ [Next]_vars => OpenedAsAnnounced'
<1> SUFFICES ASSUME SessionsInv, SessionsInv', EventsOK, OpenedAsAnnounced, [Next]_vars
             PROVE  OpenedAsAnnounced'
  OBVIOUS
<1>1. CASE \E w \in Workers : Commit(w) /\ wEvents[w] # NoEvents
  BY <1>1, CommittedAsAnnounced
<1>2. CASE ~ \E w \in Workers : Commit(w) /\ wEvents[w] # NoEvents
  <2>1. settings' = settings /\ announced' = announced /\ superseded' = superseded
    BY <1>2, OnlyCommits
  <2>2. \A c : Routing!InForce(c)' = Routing!InForce(c)
    BY <2>1 DEF Routing!InForce, Routing!ActiveSetting, Routing!OpenVersions
  <2> QED
    BY <2>1, <2>2 DEF OpenedAsAnnounced
<1> QED
  BY <1>1, <1>2

LEMMA SessionsInvariant == Spec => [](SessionsInv /\ EventsOK)
BY SessionsInit, SessionsStep, EventsInit, EventsStep, PTL DEF Spec

\* However many requests overlap, the newest event of a campaign that asks for a
\* version has it in force, unless it found the version there and another event
\* closed it before this one had its row (create_routing_event).
THEOREM AnnouncedIsInForce == Spec => []OpenedAsAnnounced
<1>1. Init => OpenedAsAnnounced
  BY DEF Init, OpenedAsAnnounced, Routing!ServerPriority, Routing!Decides
<1> QED
  BY <1>1, AnnouncedStep, SessionsInvariant, PTL DEF Spec

\* However many requests overlap with edits of their campaigns, a version is
\* opened with the server and the GEO that its campaign has at that moment, and
\* a version that is closed never changes again.
THEOREM OpenedForItsCampaign == Spec => OpenedForCampaign
<1>1. ASSUME SessionsInv, EventsOK, [Next]_vars, NEW n \in SettingIds
      PROVE  /\ settings[n] = None /\ settings'[n] # None =>
                  /\ settings'[n].server = campaign'[settings'[n].campaign].server
                  /\ campaign'[settings'[n].campaign].geo \in {None, settings'[n].geo}
             /\ settings[n] # None /\ ~settings[n].open => settings'[n] = settings[n]
  <2>1. CASE \E w \in Workers : Commit(w) /\ wEvents[w] # NoEvents
    <3>1. PICK w \in Workers : Commit(w) /\ wEvents[w] # NoEvents
      BY <2>1
    <3>2. /\ settings'[n] = IF n \in Written(w) THEN wSettings[w][n] ELSE settings[n]
          /\ campaign' = campaign
      BY <3>1 DEF Commit
    <3>3. n \in Written(w) => RowEventOK(w, n)
      BY <1>1 DEF EventsOK, EventOK
    <3>4. settings[n] # None /\ ~settings[n].open => Routing!Closed(n) = settings[n]
      BY <1>1, ClosedType DEF SessionsInv, TypeOK
    <3> QED
      BY <3>2, <3>3, <3>4 DEF RowEventOK, Fits
  <2>2. CASE ~ \E w \in Workers : Commit(w) /\ wEvents[w] # NoEvents
    BY <1>1, <2>2, OnlyCommits
  <2> QED
    BY <2>1, <2>2
<1>2. SessionsInv /\ EventsOK /\ [Next]_vars =>
        [\A n \in SettingIds :
            LET new == settings'[n] IN
            /\ settings[n] = None /\ new # None =>
                  /\ new.server = campaign'[new.campaign].server
                  /\ campaign'[new.campaign].geo \in {None, new.geo}
            /\ settings[n] # None /\ ~settings[n].open => new = settings[n]]_(Routing!routingVars)
  BY <1>1
<1> QED
  BY <1>2, SessionsInvariant, PTL DEF Spec, OpenedForCampaign, Routing!OpenedForCampaign
================================================================================
