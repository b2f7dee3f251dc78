------------------------------- MODULE EventNotes ------------------------------
(***************************************************************************)
(* The comments of a campaign's routing events.  A version of the setting  *)
(* is opened with the comment of its event and gets that of an event that  *)
(* finds its decision in force already; the comment of an event may be     *)
(* edited afterwards, and the version then follows if the event is the     *)
(* newest of the campaign.  Events are ordered by event_at, which the form *)
(* gives and which may lie before that of older events.                    *)
(*                                                                         *)
(* One campaign, statement by statement; what events make of its routing   *)
(* is in CampaignSessions.  Events of the scopes that have no version are  *)
(* edited without looking at any.                                          *)
(***************************************************************************)
EXTENDS Naturals

CONSTANTS NoteWorkers,     \* requests that can be in progress together
          Schemes,         \* what a version may decide: route and autorotation
          NoScheme,        \* server priority, which needs no version
          Comments,
          Moments,         \* values of event_at
          LastEvent        \* bound: ids of events

ASSUME NoteAssumption == LastEvent \in Nat /\ Moments \subseteq Nat /\ NoScheme \notin Schemes

VARIABLES event,      \* id -> row, unused or reserved by a transaction not committed
          version,    \* id of the event that opened it -> state and comment;
                      \*   by: the event that opened or kept it
                      \*   late: an edit that was checked before that event
                      \*         was committed has written the comment
          act         \* NoteWorkers -> the request in progress

noteVars == <<event, version, act>>

Events == 1 .. LastEvent

EventRows == [at: Moments, scheme: Schemes \cup {NoScheme}, comment: Comments]

Unused == [at |-> "unused"]
Reserved == [at |-> "reserved"]
NoVersion == [state |-> "none"]
Commented(i, c) == [state |-> "open", by |-> i, comment |-> c, late |-> FALSE]
NoAct == [step |-> "idle"]

ActAt(w, step) == act[w].step = step

Stored == {i \in Events : event[i] \in EventRows}

Later(j, i) == event[j].at > event[i].at \/ (event[j].at = event[i].at /\ j > i)

Newest(i) == \A j \in Stored : ~Later(j, i)

\* The version in force; 0 when the campaign follows the server priority.
ActiveVersion ==
    IF \E i \in Events : version[i].state = "open"
    THEN CHOOSE i \in Events : version[i].state = "open"
    ELSE 0

SchemeInForce == IF ActiveVersion = 0 THEN NoScheme ELSE event[ActiveVersion].scheme

NotesInit ==
    /\ event = [i \in Events |-> Unused]
    /\ version = [i \in Events |-> NoVersion]
    /\ act = [w \in NoteWorkers |-> NoAct]

Proceeds(w, q) == act' = [act EXCEPT ![w] = q]

\* A refusal, an error or a lost connection.
GiveUp(w) == Proceeds(w, NoAct) /\ UNCHANGED <<event, version>>

(***************************************************************************)
(* create_routing_event for the campaign                                   *)
(***************************************************************************)
\* The state in force is read, and an event that changes nothing is skipped.
StartEvent(w) ==
    /\ ActAt(w, "idle")
    /\ \E row \in EventRows :
          /\ row.scheme # SchemeInForce
          /\ Proceeds(w, [step |-> "insert", row |-> row])
    /\ UNCHANGED <<event, version>>

\* The event takes its id; the version in force is read again.
InsertNote(w) ==
    /\ ActAt(w, "insert")
    /\ \E i \in Events :
          /\ event[i] = Unused /\ \A j \in Events : j < i => event[j] # Unused
          /\ event' = [event EXCEPT ![i] = Reserved]
          /\ Proceeds(w, [step |-> IF ActiveVersion = 0 THEN "open"
                                   ELSE IF SchemeInForce = act[w].row.scheme THEN "keep"
                                   ELSE "close",
                          id |-> i, row |-> act[w].row, target |-> ActiveVersion])
    /\ UNCHANGED version

\* The row is closed by this request and not committed yet.
BeingClosed(n) == \E w \in NoteWorkers : ActAt(w, "open") /\ n # 0 /\ act[w].target = n

\* The event wants what is in force: the version gets its comment, even if it
\* was closed in the meantime.
KeepTarget(w) ==
    LET q == act[w] IN
    /\ ActAt(w, "keep") /\ ~BeingClosed(q.target)
    /\ version' = [version EXCEPT ![q.target] =
                     [Commented(q.id, q.row.comment) EXCEPT !.state = version[q.target].state]]
    /\ event' = [event EXCEPT ![q.id] = q.row]
    /\ Proceeds(w, NoAct)

\* UPDATE ... WHERE id = ?, even if the version was closed in the meantime.
CloseTarget(w) ==
    /\ ActAt(w, "close") /\ ~BeingClosed(act[w].target)
    /\ Proceeds(w, [act[w] EXCEPT !.step = "open"])
    /\ UNCHANGED <<event, version>>

\* The new version is inserted and everything is committed; the unique index
\* refuses a second open version.
CommitEvent(w) ==
    LET q == act[w]
        closed == [version EXCEPT ![q.target].state = "closed"]
        left == IF q.target = 0 THEN version ELSE closed IN
    /\ ActAt(w, "open")
    /\ IF q.row.scheme = NoScheme
       THEN version' = left
       ELSE /\ ActiveVersion \in {0, q.target}
            /\ version' = [left EXCEPT ![q.id] = Commented(q.id, q.row.comment)]
    /\ event' = [event EXCEPT ![q.id] = q.row]
    /\ Proceeds(w, NoAct)

(***************************************************************************)
(* update_routing_event                                                    *)
(***************************************************************************)
\* The page of an event, with updated_at_original.
ShowEvent(w) ==
    /\ ActAt(w, "idle")
    /\ \E i \in Stored : Proceeds(w, [step |-> "form", id |-> i, fresh |-> TRUE])
    /\ UNCHANGED <<event, version>>

\* The row is read: the form must be fresh and bring another comment.
SubmitNote(w) ==
    /\ ActAt(w, "form") /\ act[w].fresh
    /\ \E c \in Comments \ {event[act[w].id].comment} :
          Proceeds(w, [step |-> "update", id |-> act[w].id, fresh |-> TRUE, comment |-> c])
    /\ UNCHANGED <<event, version>>

Holding(w, i) == act[w].step \in {"active", "later", "commit"} /\ act[w].id = i

\* UPDATE routing_events, which compares the token again once it has the row.
UpdateNote(w) ==
    /\ ActAt(w, "update") /\ act[w].fresh
    /\ \A v \in NoteWorkers : ~Holding(v, act[w].id)
    /\ Proceeds(w, [act[w] EXCEPT !.step = "active"])
    /\ UNCHANGED <<event, version>>

Synced(w, n) ==
    Proceeds(w, [step |-> "commit", id |-> act[w].id, comment |-> act[w].comment, target |-> n,
                 by |-> IF n = 0 THEN 0 ELSE version[n].by])

\* _sync_company_routing_comment_from_event reads the version in force.
ReadActive(w) ==
    /\ ActAt(w, "active")
    /\ IF ActiveVersion = 0
       THEN Synced(w, 0)
       ELSE Proceeds(w, [step |-> "later", id |-> act[w].id, comment |-> act[w].comment,
                         target |-> ActiveVersion])
    /\ UNCHANGED <<event, version>>

\* Fault: the event is taken for the newest one.
ReadLaterNot(w) ==
    LET q == act[w] IN
    /\ ActAt(w, "later")
    /\ Synced(w, IF event[q.target].scheme = event[q.id].scheme THEN q.target ELSE 0)
    /\ UNCHANGED <<event, version>>

\* A version follows the newest event, and only if it decides the same.
ReadLater(w) ==
    LET q == act[w] IN
    /\ ActAt(w, "later")
    /\ Synced(w, IF Newest(q.id) /\ event[q.target].scheme = event[q.id].scheme
                 THEN q.target ELSE 0)
    /\ UNCHANGED <<event, version>>

\* The version is written by its id, open or not.
CommitNote(w) ==
    LET q == act[w]
        Told(a) == IF a.step \in {"form", "update"} /\ a.id = q.id THEN [a EXCEPT !.fresh = FALSE] ELSE a
    IN
    /\ ActAt(w, "commit") /\ ~BeingClosed(q.target)
    /\ event' = [event EXCEPT ![q.id].comment = q.comment]
    /\ version' = IF q.target = 0 THEN version
                  ELSE [version EXCEPT ![q.target].comment = q.comment,
                                       ![q.target].late = version[q.target].by # q.by]
    /\ act' = [v \in NoteWorkers |-> IF v = w THEN NoAct ELSE Told(act[v])]

LeaveNote(w) == ~ActAt(w, "idle") /\ GiveUp(w)

NotesNext ==
    \E w \in NoteWorkers :
        \/ StartEvent(w) \/ InsertNote(w) \/ KeepTarget(w) \/ CloseTarget(w) \/ CommitEvent(w)
        \/ ShowEvent(w) \/ SubmitNote(w) \/ UpdateNote(w)
        \/ ReadActive(w) \/ ReadLater(w) \/ CommitNote(w) \/ LeaveNote(w)

NotesSpec == NotesInit /\ [][NotesNext]_noteVars

(***************************************************************************)
(* Properties                                                              *)
(***************************************************************************)
NotesTypeOK ==
    /\ event \in [Events -> EventRows \cup {Unused, Reserved}]
    /\ version \in [Events -> [state: {"open", "closed"}, by: Events, comment: Comments, late: BOOLEAN]
                             \cup {NoVersion}]
    /\ \A w \in NoteWorkers :
          act[w].step \in {"idle", "insert", "keep", "close", "open",
                          "form", "update", "active", "later", "commit"}

\* A version in force shows the comment of the event that opened or kept it,
\* if that is the newest of the campaign, whichever comments have been edited,
\* except when an edit of an older one was being saved while it was kept.
CommentsFollow ==
    \A i \in Events :
        LET v == version[i] IN
        v.state = "open" /\ Newest(v.by) /\ ~v.late => v.comment = event[v.by].comment

\* A version in force has the comment of an event of its campaign that decides
\* the same; not true, since the newest event need not be the last to arrive.
CommentsOfEvents ==
    \A i \in Events : version[i].state = "open" =>
        \E j \in Stored : event[j].scheme = event[i].scheme /\ event[j].comment = version[i].comment
================================================================================
