---------------------------- MODULE CampaignSessions ----------------------------
(***************************************************************************)
(* The routing events of CampaignRouting as concurrent transactions under  *)
(* READ COMMITTED: each selected campaign is read, its event is written,   *)
(* the version in force is looked up again, closed, and another is opened; *)
(* one that already decides what the event wants is kept.                  *)
(***************************************************************************)
EXTENDS Naturals, Sequences, FiniteSets, Relation

CONSTANTS Workers, Campaigns, Geos, Servers, Routes, SettingIds, None, RouteGeo, Absent,
          Rows,      \* what the campaigns may be
          Kinds      \* the kinds of change that are considered

VARIABLES campaign, settings, announced,   \* as in CampaignRouting
          pc,        \* the statement each worker executes next
          req,       \* the change it was asked for, Absent when idle
          todo,      \* the selected campaigns it has not finished
          plan,      \* the decision and GEO it worked out for the first of them
          target,    \* the version it is going to close or keep, or None
          wSettings, \* its uncommitted versions: SettingIds -> version or Absent
          wEvents,   \* its uncommitted events: Campaigns -> decision or Absent
          superseded \* campaigns whose newest event kept a version that was
                     \* closed before the event had its row

Routing == INSTANCE CampaignRouting

db == <<campaign, settings, announced, superseded>>
vars == <<db, pc, req, todo, plan, target, wSettings, wEvents>>

Plans == [decision: Routing!Decisions, geo: Geos \cup {None}, server: Servers]

\* Every selection of campaigns, in every order of the form's fields.
Selections ==
    {cs \in UNION {[1 .. k -> Campaigns] : k \in 1 .. Cardinality(Campaigns)} :
        \A i, j \in DOMAIN cs : cs[i] = cs[j] => i = j}

Steps == {"idle", "read", "event", "close", "keep", "open", "commit"}

Written(w) == {n \in SettingIds : wSettings[w][n] # Absent}

ASSUME RowsAssumption == Rows \subseteq Routing!CampaignRows
ASSUME CampaignsAssumption == IsFiniteSet(Campaigns)
ASSUME IdsAssumption == SettingIds \subseteq Nat
ASSUME RouteGeoAssumption == RouteGeo \in [Routes -> Geos]
ASSUME NoneAssumption ==
    None \notin Geos \cup Routes \cup Routing!CampaignRows \cup Routing!Versions
ASSUME AbsentAssumption ==
    Absent \notin Routing!Decisions \cup Routing!Versions \cup Routing!CampaignChanges \cup Plans

--------------------------------------------------------------------------------
(***************************************************************************)
(* Locks.  A written version is locked until the transaction ends; an      *)
(* event holds FOR KEY SHARE on its campaign; the unique index on open     *)
(* versions makes an INSERT wait for whoever is opening or closing one.    *)
(***************************************************************************)
RowHolders(w, n) == {v \in Workers \ {w} : n \in Written(v)}

IndexHolders(w, c) ==
    {v \in Workers \ {w} : \E n \in Written(v) :
        /\ wSettings[v][n].campaign = c
        /\ wSettings[v][n].open \/ n \in Routing!OpenVersions(c)}

WaitsFor(w) ==
    CASE pc[w] \in {"close", "keep"} -> RowHolders(w, target[w])
      [] pc[w] = "open" -> IndexHolders(w, Head(todo[w]))
      [] OTHER -> {}

Granted(w) == WaitsFor(w) = {}

InDeadlock(w) ==
    LET waits == [a, b \in Workers |-> b \in WaitsFor(a)]
    IN  TransitiveClosure(waits, Workers)[w, w]

KeyShared(c) == \E w \in Workers : wEvents[w][c] # Absent

--------------------------------------------------------------------------------
NothingWritten == [n \in SettingIds |-> Absent]
NoEvents == [c \in Campaigns |-> Absent]

\* The campaigns exist, without a setting of their own.
Init ==
    /\ campaign \in [Campaigns -> {row \in Rows : row.is_active}]
    /\ settings = [n \in SettingIds |-> None]
    /\ announced = [c \in Campaigns |-> Routing!ServerPriority]
    /\ pc = [w \in Workers |-> "idle"]
    /\ req = [w \in Workers |-> Absent]
    /\ todo = [w \in Workers |-> <<>>]
    /\ plan = [w \in Workers |-> Absent]
    /\ target = [w \in Workers |-> None]
    /\ wSettings = [w \in Workers |-> NothingWritten]
    /\ wEvents = [w \in Workers |-> NoEvents]
    /\ superseded = {}

sessions == <<pc, req, todo, plan, target, wSettings, wEvents>>

UnusedIds ==
    {n \in SettingIds : \A m \in SettingIds :
        settings[m] # None \/ (\E w \in Workers : m \in Written(w)) => m < n}

\* An UPDATE of the GEO or the server needs the row's key lock.
Edit(c, row) ==
    /\ (row.geo # campaign[c].geo \/ row.server # campaign[c].server)
          => ~KeyShared(c)
    /\ Routing!UpdateCampaign(c, row)
    /\ UNCHANGED <<sessions, superseded>>

\* POST /provider-changes/create
Begin(w) ==
    /\ pc[w] = "idle"
    /\ \E e \in {change \in Routing!CampaignChanges : change.kind \in Kinds}, cs \in Selections :
          /\ req' = [req EXCEPT ![w] = e]
          /\ todo' = [todo EXCEPT ![w] = cs]
    /\ pc' = [pc EXCEPT ![w] = "read"]
    /\ UNCHANGED <<db, plan, target, wSettings, wEvents>>

\* Fault: a request that ends leaves its transaction open.
EndInTransaction(w) ==
    /\ pc' = [pc EXCEPT ![w] = "idle"]
    /\ req' = [req EXCEPT ![w] = Absent]
    /\ todo' = [todo EXCEPT ![w] = <<>>]
    /\ plan' = [plan EXCEPT ![w] = Absent]
    /\ target' = [target EXCEPT ![w] = None]
    /\ UNCHANGED <<wSettings, wEvents>>

End(w) ==
    /\ pc' = [pc EXCEPT ![w] = "idle"]
    /\ req' = [req EXCEPT ![w] = Absent]
    /\ todo' = [todo EXCEPT ![w] = <<>>]
    /\ plan' = [plan EXCEPT ![w] = Absent]
    /\ target' = [target EXCEPT ![w] = None]
    /\ wSettings' = [wSettings EXCEPT ![w] = NothingWritten]
    /\ wEvents' = [wEvents EXCEPT ![w] = NoEvents]

\* A refusal, an error of the database or a lost connection.
Rollback(w) == End(w) /\ UNCHANGED db

Goto(w, step) == pc' = [pc EXCEPT ![w] = step] /\ UNCHANGED <<db, req>>

\* The first campaign is done; the request commits after the last one.
Finish(w) ==
    /\ todo' = [todo EXCEPT ![w] = Tail(@)]
    /\ plan' = [plan EXCEPT ![w] = Absent]
    /\ target' = [target EXCEPT ![w] = None]
    /\ Goto(w, IF Len(todo[w]) > 1 THEN "read" ELSE "commit")

--------------------------------------------------------------------------------
(***************************************************************************)
(* create_routing_event for the first selected campaign                    *)
(***************************************************************************)
\* The campaign and its setting are read, and the event is worked out.
ReadState(w) ==
    LET c == Head(todo[w])
        e == req[w] IN
    /\ pc[w] = "read"
    /\ IF \/ campaign[c] = None \/ ~campaign[c].is_active
          \/ e.kind = "set_campaign_route" /\ ~Routing!GeoFits(c, e.route)
       THEN Rollback(w)
       ELSE IF Routing!NoChange(c, e)
       THEN Finish(w) /\ UNCHANGED <<wSettings, wEvents>>
       ELSE /\ plan' = [plan EXCEPT ![w] = [decision |-> Routing!NewDecision(c, e),
                                            geo |-> Routing!EventGeo(c, e),
                                            server |-> campaign[c].server]]
            /\ Goto(w, "event")
            /\ UNCHANGED <<todo, target, wSettings, wEvents>>

\* Fault: the values are not compared with the campaign once it is held.
AcceptedAsRead(w, c) == TRUE

\* _validate_company_routing_values, with the campaign as it is now.
Accepted(w, c) ==
    Routing!Decides(plan[w].decision) =>
        /\ plan[w].server = campaign[c].server
        /\ Routing!ValidValues(c, plan[w].decision, plan[w].geo)

NewVersion(w) ==
    Routing!Version(Head(todo[w]), plan[w].geo, plan[w].server, plan[w].decision)

\* The event is inserted; the setting is read again, with what was committed
\* since, and the new values are validated.
InsertEvent(w) ==
    LET c == Head(todo[w])
        open == Routing!OpenVersions(c) IN
    /\ pc[w] = "event"
    /\ IF ~Accepted(w, c) THEN Rollback(w)
       ELSE /\ wEvents' = [wEvents EXCEPT ![w][c] = plan[w].decision]
            /\ UNCHANGED wSettings
            /\ IF open # {}
               THEN /\ target' = [target EXCEPT ![w] = Routing!ActiveSetting(c)]
                    /\ Goto(w, IF settings[Routing!ActiveSetting(c)] = NewVersion(w) THEN "keep" ELSE "close")
                    /\ UNCHANGED <<todo, plan>>
               ELSE IF Routing!Decides(plan[w].decision)
               THEN Goto(w, "open") /\ UNCHANGED <<todo, plan, target>>
               ELSE Finish(w)

\* Only the comment is written, even if the version was closed in the meantime.
KeepVersion(w) ==
    /\ pc[w] = "keep" /\ Granted(w)
    /\ wSettings' = [wSettings EXCEPT ![w][target[w]] = settings[target[w]]]
    /\ UNCHANGED wEvents
    /\ Finish(w)

\* UPDATE ... WHERE id = ?, even if the version was closed in the meantime.
CloseVersion(w) ==
    /\ pc[w] = "close" /\ Granted(w)
    /\ wSettings' = [wSettings EXCEPT ![w][target[w]] = Routing!Closed(target[w])]
    /\ UNCHANGED wEvents
    /\ IF Routing!Decides(plan[w].decision)
       THEN Goto(w, "open") /\ UNCHANGED <<todo, plan, target>>
       ELSE Finish(w)

\* Fault: no unique index on the open versions.
OpenVersionUnchecked(w) ==
    /\ pc[w] = "open"
    /\ \E n \in UnusedIds : wSettings' = [wSettings EXCEPT ![w][n] = NewVersion(w)]
    /\ UNCHANGED wEvents
    /\ Finish(w)

\* Fault: ON CONFLICT DO NOTHING.
OpenVersionOrNothing(w) ==
    /\ pc[w] = "open" /\ Granted(w)
    /\ IF Routing!OpenVersions(Head(todo[w])) \ Written(w) # {} \/ UnusedIds = {}
       THEN UNCHANGED wSettings
       ELSE \E n \in UnusedIds : wSettings' = [wSettings EXCEPT ![w][n] = NewVersion(w)]
    /\ UNCHANGED wEvents
    /\ Finish(w)

\* Bound: a request that finds no id left is refused.
OpenVersion(w) ==
    /\ pc[w] = "open" /\ Granted(w)
    /\ IF Routing!OpenVersions(Head(todo[w])) \ Written(w) # {} \/ UnusedIds = {}
       THEN Rollback(w)
       ELSE /\ \E n \in UnusedIds : wSettings' = [wSettings EXCEPT ![w][n] = NewVersion(w)]
            /\ UNCHANGED wEvents
            /\ Finish(w)

\* The campaigns whose event kept a version that it found closed.
KeptClosed(w) ==
    {c \in Campaigns : \E n \in Written(w) :
        /\ wSettings[w][n].campaign = c /\ wSettings[w][n].decision = wEvents[w][c]
        /\ ~wSettings[w][n].open
        /\ \A m \in Written(w) \ {n} : wSettings[w][m].campaign # c}

Commit(w) ==
    /\ pc[w] = "commit"
    /\ IF wEvents[w] = NoEvents THEN Rollback(w)
       ELSE /\ settings' = [n \in SettingIds |->
                              IF n \in Written(w) THEN wSettings[w][n] ELSE settings[n]]
            /\ announced' = [c \in Campaigns |->
                              IF wEvents[w][c] = Absent THEN announced[c] ELSE wEvents[w][c]]
            /\ superseded' = {c \in superseded : wEvents[w][c] = Absent} \cup KeptClosed(w)
            /\ UNCHANGED campaign
            /\ End(w)

--------------------------------------------------------------------------------
Step(w) ==
    \/ ReadState(w) \/ InsertEvent(w)
    \/ KeepVersion(w) \/ CloseVersion(w) \/ OpenVersion(w)
    \/ Commit(w)

\* PostgreSQL cancels a transaction of every cycle of waits.
Victim(w) == InDeadlock(w) /\ Rollback(w)

Disconnect(w) == pc[w] # "idle" /\ Rollback(w)

Next ==
    \/ \E w \in Workers : Begin(w) \/ Step(w) \/ Victim(w) \/ Disconnect(w)
    \/ \E c \in Campaigns, row \in Rows : Edit(c, row)

Spec == Init /\ [][Next]_vars

\* A thread that has begun a request keeps running; PostgreSQL detects deadlocks.
Fairness == \A w \in Workers : SF_vars(Step(w)) /\ WF_vars(Victim(w))

FairSpec == Spec /\ Fairness

--------------------------------------------------------------------------------
(***************************************************************************)
(* Properties                                                              *)
(***************************************************************************)
TypeOK ==
    /\ Routing!RoutingTypeOK
    /\ pc \in [Workers -> Steps]
    /\ req \in [Workers -> Routing!CampaignChanges \cup {Absent}]
    /\ todo \in [Workers -> Selections \cup {<<>>}]
    /\ plan \in [Workers -> Plans \cup {Absent}]
    /\ target \in [Workers -> SettingIds \cup {None}]
    /\ wSettings \in [Workers -> [SettingIds -> Routing!Versions \cup {Absent}]]
    /\ wEvents \in [Workers -> [Campaigns -> Routing!Decisions \cup {Absent}]]
    /\ superseded \subseteq Campaigns

\* However requests overlap, a campaign has at most one open version.
OneOpenVersion == Routing!OneOpenVersion

\* However requests overlap, a decision announced last and still asking for a
\* version is the one in force, unless the event found it in force already and
\* wrote its comment to a version that another event closed meanwhile.
OpenedAsAnnounced ==
    \A c \in Campaigns \ superseded :
        Routing!Decides(announced[c]) => Routing!InForce(c) = announced[c]

\* A version is opened with the server of its campaign, and its GEO, as they
\* are when it is committed: nobody edits them in the meantime.
OpenedForCampaign == Routing!OpenedForCampaign

\* Every request ends, the waits of two requests for one another included.
RequestsEnd == \A w \in Workers : pc[w] # "idle" ~> pc[w] = "idle"

\* What an event does not ask for stays as it was; not true here.
OnlyAsked == Routing!OnlyAsked

\* The routing in force is what the newest event announced; not true here.
JournalTrue == Routing!JournalTrue
================================================================================
