---------------------------- MODULE ServerPriorities ----------------------------
(***************************************************************************)
(* The route each server uses for each GEO, and the journal of the routing *)
(* events of scope server_priority that set it.                            *)
(***************************************************************************)
CONSTANTS Geos, Servers, Routes, None,
          RouteGeo     \* the GEO of each route

\* overflow is None when the event has no overflow route.
Priorities == [current: Routes, previous: Routes \cup {None}, overflow: Routes \cup {None}]

\* The applied row of routing_event_servers that is newest for a priority.
JournalRows == [old: Routes \cup {None}, new: Routes]

VARIABLES priority,   \* Geos -> Servers -> row or None
          journal     \* Geos -> Servers -> row or None

vars == <<priority, journal>>

CurrentRoute(g, s) == IF priority[g][s] = None THEN None ELSE priority[g][s].current

\* The event would not change this server ("skipped_noop").
IsNoop(g, s, r, o) ==
    priority[g][s] # None /\ priority[g][s].current = r /\ priority[g][s].overflow = o

Init ==
    /\ priority = [g \in Geos |-> [s \in Servers |-> None]]
    /\ journal = [g \in Geos |-> [s \in Servers |-> None]]

\* Fault: the previous route is kept.
AppliedKeepingPrevious(g, s, r, o) ==
    [current |-> r, overflow |-> o,
     previous |-> IF priority[g][s] = None THEN None ELSE priority[g][s].previous]

Applied(g, s, r, o) == [current |-> r, overflow |-> o, previous |-> CurrentRoute(g, s)]

Fits(g, r, o) == RouteGeo[r] = g /\ (o # None => RouteGeo[o] = g)

\* A routing event sets the route r, with overflow o, on the servers ss.
SetPriority(g, ss, r, o) ==
    LET changing == {s \in ss : ~IsNoop(g, s, r, o)} IN
    /\ Fits(g, r, o)
    /\ changing # {}
    /\ priority' = [priority EXCEPT ![g] = [s \in Servers |->
                      IF s \in changing THEN Applied(g, s, r, o) ELSE @[s]]]
    /\ journal' = [journal EXCEPT ![g] = [s \in Servers |->
                      IF s \in changing THEN [old |-> CurrentRoute(g, s), new |-> r] ELSE @[s]]]

Next ==
    \E g \in Geos, ss \in SUBSET Servers, r \in Routes, o \in Routes \cup {None} :
        SetPriority(g, ss, r, o)

Spec == Init /\ [][Next]_vars

(***************************************************************************)
(* Properties                                                              *)
(***************************************************************************)
TypeOK ==
    /\ priority \in [Geos -> [Servers -> Priorities \cup {None}]]
    /\ journal \in [Geos -> [Servers -> JournalRows \cup {None}]]

\* The journal's newest row for a server explains its current route, and its
\* previous one is the route that event replaced.
PriorityFollowsJournal ==
    \A g \in Geos, s \in Servers :
        IF priority[g][s] = None THEN journal[g][s] = None
        ELSE journal[g][s] = [old |-> priority[g][s].previous, new |-> priority[g][s].current]
================================================================================
