------------------------------ MODULE RouteImports -----------------------------
(***************************************************************************)
(* Routes as the import, the rollback of an import and the edit form       *)
(* change them, statement by statement.  An import commits row by row; a   *)
(* rollback deletes the routes of a file in one transaction; an edit form  *)
(* carries the updated_at of the row it displays.                          *)
(*                                                                         *)
(* A name stands for a GEO and a name, which are unique together; of the   *)
(* other columns the provider is followed.                                 *)
(***************************************************************************)
EXTENDS Naturals, Sequences

CONSTANTS RouteWorkers,      \* requests that can be in progress together
          RouteNames,
          KnownProviders,    \* those of the dictionary
          OtherProviders,    \* those that are only named by files
          Files,             \* bound: the files that are imported
          LastRoute          \* bound: ids of routes

VARIABLES route,         \* id -> row, NoRoute or Removed
          recorded,      \* ids that have rows in route_history
          referenced,    \* ids that other tables refer to
          request        \* RouteWorkers -> the request in progress

routeVars == <<route, recorded, referenced, request>>

RouteIds == 1 .. LastRoute

RouteRows == [name: RouteNames, provider: KnownProviders]
FileRows == [name: RouteNames, provider: KnownProviders \cup OtherProviders]

ASSUME RouteAssumption ==
    /\ LastRoute \in Nat
    /\ \A file \in Files : file \in Seq(FileRows)
    /\ {"none", "removed"} \cap RouteNames = {}

NoRoute == [name |-> "none"]
Removed == [name |-> "removed"]

IsRoute(i) == route[i] \in RouteRows

\* The unique index allows one.
Named(n) == {i \in RouteIds : route[i].name = n}

NoRequest == [step |-> "idle"]

AtStep(w, step) == request[w].step = step

\* Locks: what a rollback has deleted and not committed.
Deleting(i) ==
    \E w \in RouteWorkers : request[w].step \in {"find", "clear", "delete"} /\ i \in request[w].deleted

\* The names of a file among those of changed routes.
Touched(q, names) == [q EXCEPT !.touched = @ \cup (names \cap {q.file[k].name : k \in DOMAIN q.file})]

\* What a request has to know of a route that another one changes.
Notice(q, i) ==
    CASE q.step \in {"row", "apply", "update", "done"} -> Touched(q, {route[i].name, route'[i].name})
      [] q.step \in {"form", "save"} /\ q.id = i -> [q EXCEPT !.fresh = FALSE]
      [] OTHER -> q

\* A new row of history is one a rollback has not deleted.
Record(q, i) == IF q.step \in {"clear", "delete"} THEN [q EXCEPT !.cleared = @ \ {i}] ELSE q

\* Request w goes on as q, having changed route i.
Change(w, q, i) ==
    request' = [v \in RouteWorkers |-> IF v = w THEN q ELSE Notice(request[v], i)]

GoOn(w, q) == request' = [request EXCEPT ![w] = q]

RouteInit ==
    /\ route \in {[i \in RouteIds |-> IF i = 1 THEN r ELSE NoRoute] : r \in RouteRows \cup {NoRoute}}
    /\ recorded = {i \in RouteIds : IsRoute(i)}
    /\ referenced = {}
    /\ request = [w \in RouteWorkers |-> NoRequest]

(***************************************************************************)
(* create_route, for a form or a row of a file                             *)
(***************************************************************************)
NewRoute(i, n, p) ==
    /\ route[i] = NoRoute /\ \A j \in 1 .. i - 1 : route[j] # NoRoute
    /\ Named(n) = {}
    /\ route' = [route EXCEPT ![i] = [name |-> n, provider |-> p]]
    /\ recorded' = recorded \cup {i}
    /\ UNCHANGED referenced

CreateRoute ==
    \E i \in RouteIds, n \in RouteNames, p \in KnownProviders :
        /\ NewRoute(i, n, p)
        /\ request' = [v \in RouteWorkers |-> Notice(request[v], i)]

\* A link, an event or a priority that names the route waits for its deletion.
Refer(i) ==
    /\ IsRoute(i) /\ ~Deleting(i)
    /\ referenced' = referenced \cup {i}
    /\ UNCHANGED <<route, recorded, request>>

(***************************************************************************)
(* POST /admin/import/apply for routes: apply_import, _apply_route         *)
(***************************************************************************)
StartImport(w) ==
    /\ AtStep(w, "idle")
    /\ \E file \in Files :
         GoOn(w, [step |-> "row", file |-> file, at |-> 1, seen |-> {}, exists |-> FALSE,
                  wrote |-> {}, touched |-> {}])
    /\ UNCHANGED <<route, recorded, referenced>>

Row(w) == request[w].file[request[w].at]

NextRow(w) == [request[w] EXCEPT !.step = "row", !.at = @ + 1, !.exists = FALSE]

\* Fault: routes that exist are left as they are (duplicate_action="skip").
ReadRowNew(w) ==
    LET q == request[w] IN
    /\ AtStep(w, "row") /\ q.at <= Len(q.file)
    /\ GoOn(w, IF Row(w).name \in q.seen \/ Named(Row(w).name) # {} THEN NextRow(w)
               ELSE [q EXCEPT !.step = "apply", !.seen = @ \cup {Row(w).name}])
    /\ UNCHANGED <<route, recorded, referenced>>

\* Every row commits.
NoteWritten(w) == [NextRow(w) EXCEPT !.wrote = @ \cup {Row(w).name}]

\* The first row of a route counts, valid or not.
ReadRow(w) ==
    LET q == request[w] IN
    /\ AtStep(w, "row") /\ q.at <= Len(q.file)
    /\ GoOn(w, IF Row(w).name \in q.seen THEN NextRow(w)
               ELSE [q EXCEPT !.step = "apply", !.exists = Named(Row(w).name) # {},
                              !.seen = @ \cup {Row(w).name}])
    /\ UNCHANGED <<route, recorded, referenced>>

\* A BusinessRuleError skips the row.
SkipRow(w) ==
    /\ AtStep(w, "apply")
    /\ \/ Row(w).provider \notin KnownProviders
       \/ request[w].exists /\ Named(Row(w).name) = {}
    /\ GoOn(w, NextRow(w))
    /\ UNCHANGED <<route, recorded, referenced>>

FetchRoute(w) ==
    /\ AtStep(w, "apply") /\ Row(w).provider \in KnownProviders
    /\ request[w].exists /\ Named(Row(w).name) # {}
    /\ GoOn(w, [request[w] EXCEPT !.step = "update"])
    /\ UNCHANGED <<route, recorded, referenced>>

\* The unique index waits for a deletion of the name.
InsertRow(w) ==
    /\ AtStep(w, "apply") /\ ~request[w].exists
    /\ Row(w).provider \in KnownProviders
    /\ \E i \in RouteIds :
         /\ NewRoute(i, Row(w).name, Row(w).provider)
         /\ Change(w, NoteWritten(w), i)

\* The name has been taken since: the import ends with an error, and the rows
\* before stay.
InsertFails(w) ==
    /\ AtStep(w, "apply") /\ ~request[w].exists
    /\ Row(w).provider \in KnownProviders
    /\ \E i \in Named(Row(w).name) : ~Deleting(i)
    /\ GoOn(w, [request[w] EXCEPT !.step = "failed", !.seen = {}, !.touched = {}])
    /\ UNCHANGED <<route, recorded, referenced>>

\* UPDATE ... WHERE country_id AND name, of one route or of none.
UpdateRow(w) ==
    /\ AtStep(w, "update")
    /\ \/ /\ Named(Row(w).name) = {}
          /\ GoOn(w, NextRow(w))
          /\ UNCHANGED route
       \/ \E i \in Named(Row(w).name) :
            /\ ~Deleting(i)
            /\ route' = [route EXCEPT ![i].provider = Row(w).provider]
            /\ Change(w, NoteWritten(w), i)
    /\ UNCHANGED <<recorded, referenced>>

EndImport(w) ==
    /\ AtStep(w, "row") /\ request[w].at > Len(request[w].file)
    /\ GoOn(w, [request[w] EXCEPT !.step = "done", !.seen = {}, !.wrote = {}])
    /\ UNCHANGED <<route, recorded, referenced>>

(***************************************************************************)
(* POST /admin/import/apply, rollback of routes: apply_route_rollback      *)
(***************************************************************************)
StartRollback(w) ==
    /\ AtStep(w, "idle")
    /\ \E names \in SUBSET RouteNames \ {{}} :
         GoOn(w, [step |-> "preview", todo |-> names, ready |-> {}, target |-> 0,
                  cleared |-> {}, deleted |-> {}])
    /\ UNCHANGED <<route, recorded, referenced>>

\* preview_route_rollback: a route that something refers to is not ready.
PreviewRoute(w) ==
    /\ AtStep(w, "preview")
    /\ \E n \in request[w].todo :
         GoOn(w, [request[w] EXCEPT !.todo = @ \ {n},
                                    !.ready = IF Named(n) \ referenced # {} THEN @ \cup {n} ELSE @])
    /\ UNCHANGED <<route, recorded, referenced>>

EndPreview(w) ==
    /\ AtStep(w, "preview") /\ request[w].todo = {}
    /\ GoOn(w, [request[w] EXCEPT !.step = "find", !.todo = request[w].ready, !.ready = {}])
    /\ UNCHANGED <<route, recorded, referenced>>

FindRoute(w) ==
    LET found == [n \in RouteNames |-> Named(n) \ request[w].deleted] IN
    /\ AtStep(w, "find")
    /\ \E n \in request[w].todo :
         \/ found[n] = {} /\ GoOn(w, [request[w] EXCEPT !.todo = @ \ {n}])
         \/ \E i \in found[n] :
              GoOn(w, [request[w] EXCEPT !.step = "clear", !.todo = @ \ {n}, !.target = i])
    /\ UNCHANGED <<route, recorded, referenced>>

\* DELETE FROM route_history, which waits for another rollback of the route.
ClearHistory(w) ==
    LET i == request[w].target IN
    /\ AtStep(w, "clear")
    /\ \A v \in RouteWorkers \ {w} :
         request[v].step \in {"find", "clear", "delete"} => i \notin request[v].cleared
    /\ GoOn(w, [request[w] EXCEPT !.step = "delete", !.cleared = @ \cup {i}])
    /\ UNCHANGED <<route, recorded, referenced>>

\* The foreign keys keep a route that something refers to, its history included.
Deletable(w, i) == i \notin referenced /\ i \in request[w].cleared

\* Fault: a route that cannot be deleted is left out.
DeleteRouteSkipping(w) ==
    LET i == request[w].target IN
    /\ AtStep(w, "delete")
    /\ GoOn(w, [request[w] EXCEPT !.step = "find",
                                  !.deleted = IF IsRoute(i) /\ Deletable(w, i) THEN @ \cup {i} ELSE @])
    /\ UNCHANGED <<route, recorded, referenced>>

\* DELETE FROM routes, of a route that may be gone; an error ends the whole
\* rollback.
DeleteRoute(w) ==
    LET i == request[w].target IN
    /\ AtStep(w, "delete")
    /\ GoOn(w, CASE ~IsRoute(i) -> [request[w] EXCEPT !.step = "find", !.target = 0]
                 [] IsRoute(i) /\ Deletable(w, i) ->
                      [request[w] EXCEPT !.step = "find", !.target = 0, !.deleted = @ \cup {i}]
                 [] OTHER -> NoRequest)
    /\ UNCHANGED <<route, recorded, referenced>>

CommitRollback(w) ==
    LET gone == request[w].deleted
        Told(q) == CASE q.step \in {"row", "apply", "update", "done"} ->
                          Touched(q, {route[i].name : i \in gone})
                     [] q.step \in {"form", "save"} /\ q.id \in gone -> [q EXCEPT !.fresh = FALSE]
                     [] OTHER -> q
    IN
    /\ AtStep(w, "find") /\ request[w].todo = {}
    /\ route' = [i \in RouteIds |-> IF i \in gone THEN Removed ELSE route[i]]
    /\ recorded' = recorded \ request[w].cleared
    /\ request' = [v \in RouteWorkers |-> IF v = w THEN NoRequest ELSE Told(request[v])]
    /\ UNCHANGED referenced

(***************************************************************************)
(* POST /routes/<id>/update                                                *)
(***************************************************************************)
OpenEdit(w) ==
    /\ AtStep(w, "idle")
    /\ \E i \in RouteIds :
         /\ IsRoute(i)
         /\ GoOn(w, [step |-> "form", id |-> i, shown |-> route[i], fresh |-> TRUE])
    /\ UNCHANGED <<route, recorded, referenced>>

ReadEdited(w) ==
    /\ AtStep(w, "form")
    /\ GoOn(w, IF request[w].fresh THEN [request[w] EXCEPT !.step = "save"] ELSE NoRequest)
    /\ UNCHANGED <<route, recorded, referenced>>

\* Fault: UPDATE ... WHERE id only.
SaveEditById(w) ==
    LET i == request[w].id IN
    /\ AtStep(w, "save") /\ IsRoute(i) /\ ~Deleting(i)
    /\ \E r \in RouteRows :
         /\ Named(r.name) \subseteq {i}
         /\ route' = [route EXCEPT ![i] = r]
         /\ recorded' = recorded \cup {i}
         /\ request' = [v \in RouteWorkers |-> IF v = w THEN NoRequest
                                               ELSE Record(Notice(request[v], i), i)]
    /\ UNCHANGED referenced

\* UPDATE ... WHERE id AND updated_at, which changes columns that are followed or
\* others and is recorded; a name of another route is refused.
SaveEdit(w) ==
    LET i == request[w].id IN
    /\ AtStep(w, "save") /\ request[w].fresh /\ ~Deleting(i)
    /\ \E r \in RouteRows :
         /\ Named(r.name) \subseteq {i}
         /\ route' = [route EXCEPT ![i] = r]
         /\ recorded' = recorded \cup {i}
         /\ request' = [v \in RouteWorkers |-> IF v = w THEN NoRequest
                                               ELSE Record(Notice(request[v], i), i)]
    /\ UNCHANGED referenced

\* An edit that changes no column gives the row a new updated_at only.
SaveUnchanged(w) ==
    LET i == request[w].id IN
    /\ AtStep(w, "save") /\ request[w].fresh /\ ~Deleting(i)
    /\ UNCHANGED <<route, recorded, referenced>>
    /\ Change(w, NoRequest, i)

\* A conflict, a page that is closed, a lost connection: the transaction in
\* progress is rolled back.
Leave(w) ==
    /\ ~AtStep(w, "idle")
    /\ GoOn(w, NoRequest)
    /\ UNCHANGED <<route, recorded, referenced>>

RouteNext ==
    \/ CreateRoute
    \/ \E i \in RouteIds : Refer(i)
    \/ \E w \in RouteWorkers :
         \/ StartImport(w) \/ ReadRow(w) \/ SkipRow(w) \/ FetchRoute(w) \/ InsertRow(w)
         \/ InsertFails(w) \/ UpdateRow(w) \/ EndImport(w)
         \/ StartRollback(w) \/ PreviewRoute(w) \/ EndPreview(w) \/ FindRoute(w)
         \/ ClearHistory(w) \/ DeleteRoute(w) \/ CommitRollback(w)
         \/ OpenEdit(w) \/ ReadEdited(w) \/ SaveEdit(w) \/ SaveUnchanged(w)
         \/ Leave(w)

RouteSpec == RouteInit /\ [][RouteNext]_routeVars

(***************************************************************************)
(* Properties                                                              *)
(***************************************************************************)
RouteTypeOK ==
    /\ route \in [RouteIds -> RouteRows \cup {NoRoute, Removed}]
    /\ recorded \subseteq RouteIds /\ referenced \subseteq RouteIds
    /\ \A w \in RouteWorkers :
         request[w].step \in {"idle", "row", "apply", "update", "done", "failed", "preview", "find",
                              "clear", "delete", "form", "save"}

\* A route has a history as long as it is there, and none is left of one that
\* was removed, although a rollback deletes the history first and may fail on
\* the route, and an edit may write history in between.
RoutesRecorded == \A i \in RouteIds : i \in recorded <=> IsRoute(i)

\* A rollback never removes a route that something refers to, even if the
\* reference was made after the preview.
RollbackSpares == [][\A i \in RouteIds : IsRoute(i) /\ ~IsRoute(i)' => i \notin referenced]_routeVars

\* When an import ends, each route that nobody else has changed since it began
\* has the provider of its first row in the file; later rows and other imports
\* of the same file make no difference.
ImportTakesHold ==
    \A w \in RouteWorkers : AtStep(w, "done") =>
        LET file == request[w].file IN
            \A k \in DOMAIN file :
              /\ \A j \in 1 .. k - 1 : file[j].name # file[k].name
              /\ file[k].provider \in KnownProviders
              /\ file[k].name \notin request[w].touched
              => \E i \in RouteIds : route[i] = file[k]

\* An edit replaces the row its form displayed, whatever was imported meanwhile.
EditsSeen ==
    [][\A w \in RouteWorkers :
         AtStep(w, "save") /\ route'[request[w].id] # route[request[w].id]
         /\ request'[w].step = "idle" => route[request[w].id] = request[w].shown]_routeVars

\* A database failure aborts the whole import and leaves none of its rows, as a
\* comment of apply_import says; not true, every row has its own commit.
FailureAborts == \A w \in RouteWorkers : AtStep(w, "failed") => request[w].wrote = {}
================================================================================
