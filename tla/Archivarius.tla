------------------------------ MODULE Archivarius ------------------------------
(***************************************************************************)
(* The export for Archivarius: pages of rows and of the change log behind  *)
(* a cursor, and the script that pushes them to a relay and keeps the      *)
(* cursor in a file.  A client that polls the API reads the same pages and *)
(* keeps the same cursor itself.                                           *)
(*                                                                         *)
(* An entry of the change log has its id from the moment it is inserted,   *)
(* and other transactions see it from the commit of its transaction.  Of   *)
(* the four sections of a snapshot, which are read alike, one is followed. *)
(***************************************************************************)
EXTENDS Naturals, FiniteSets, FiniteSetsExt

CONSTANTS Writers,      \* transactions that change routes, numbers, tariffs, events
          Pushers,      \* runs of the push script that can be in progress together
          PageLimit,    \* MAX_LIMIT
          LastId,       \* bound: ids of the change log
          LastRow       \* bound: ids of the section's rows

ASSUME FeedAssumption == PageLimit \in Nat \ {0} /\ LastId \in Nat /\ LastRow \in Nat

VARIABLES entry,         \* change_log: id -> state of the entry
          inserted,      \* Writers -> ids of the entries not yet committed
          rows,          \* ids of the rows the section selects
          run,           \* Pushers -> the run in progress
          cursorFile,    \* events_cursor of the state file
          told,          \* ids of the entries the relay has accepted
          overtaken      \* ids that were not committed when a page beyond them was read

feedVars == <<entry, inserted, rows, run, cursorFile, told, overtaken>>

Ids == 1 .. LastId
Rows == 1 .. LastRow

\* An entry of another entity type is void to this feed.
EntryStates == {"unused", "open", "committed", "void"}

Committed == {i \in Ids : entry[i] = "committed"}
Open == {i \in Ids : entry[i] = "open"}

RunSteps == {"idle", "section", "post_snapshot", "read", "post", "save"}

\* always: the rows the section has selected ever since the run began.
NoRun == [step |-> "idle", at |-> 0, items |-> {}, always |-> {},
          cursor |-> 0, page |-> {}, next |-> 0]

RunAt(p, step) == run[p].step = step

EndRun(p) == run' = [run EXCEPT ![p] = NoRun]

(***************************************************************************)
(* A page: WHERE id > after ORDER BY id LIMIT limit + 1                    *)
(***************************************************************************)
First(ids, n) == {i \in ids : Cardinality({j \in ids : j < i}) < n}

Fetched(ids, after) == First({i \in ids : i > after}, PageLimit + 1)

\* The items of a page, the cursor of its envelope and has_more.
Items(ids, after) == First(Fetched(ids, after), PageLimit)

\* Fault: the cursor is taken before the page is cut to its limit.
NextCursorUncut(ids, after) ==
    IF Fetched(ids, after) = {} THEN after ELSE Max(Fetched(ids, after))

NextCursor(ids, after) == IF Items(ids, after) = {} THEN after ELSE Max(Items(ids, after))

HasMore(ids, after) == Cardinality(Fetched(ids, after)) > PageLimit

FeedInit ==
    /\ entry = [i \in Ids |-> "unused"]
    /\ inserted = [w \in Writers |-> {}]
    /\ rows \in SUBSET Rows
    /\ run = [p \in Pushers |-> NoRun]
    /\ cursorFile = 0
    /\ told = {} /\ overtaken = {}

(***************************************************************************)
(* The application's transactions                                          *)
(***************************************************************************)
ChangeLog(w) ==
    /\ \E i \in Ids :
         /\ entry[i] = "unused" /\ \A j \in 1 .. i - 1 : entry[j] # "unused"
         /\ entry' = [entry EXCEPT ![i] = "open"]
         /\ inserted' = [inserted EXCEPT ![w] = @ \cup {i}]
    /\ UNCHANGED <<rows, run, cursorFile, told, overtaken>>

Finish(w, outcome) ==
    /\ inserted[w] # {}
    /\ entry' = [i \in Ids |-> IF i \in inserted[w] THEN outcome ELSE entry[i]]
    /\ inserted' = [inserted EXCEPT ![w] = {}]
    /\ UNCHANGED <<rows, run, cursorFile, told, overtaken>>

\* A row is created or removed, or a tariff comes into or goes out of force.
ChangeRow(r) ==
    /\ rows' = IF r \in rows THEN rows \ {r} ELSE rows \cup {r}
    /\ run' = [p \in Pushers |-> [run[p] EXCEPT !.always = @ \ {r}]]
    /\ UNCHANGED <<entry, inserted, cursorFile, told, overtaken>>

(***************************************************************************)
(* archivarius_push.py --once [--snapshot]                                 *)
(***************************************************************************)
StartRun(p) ==
    /\ RunAt(p, "idle")
    /\ \E step \in {"section", "read"} :
         run' = [run EXCEPT ![p] = [NoRun EXCEPT !.step = step, !.cursor = cursorFile,
                                                 !.always = IF step = "section" THEN rows ELSE {}]]
    /\ UNCHANGED <<entry, inserted, rows, cursorFile, told, overtaken>>

ReadSection(p) ==
    LET at == run[p].at
        step == IF HasMore(rows, at) THEN "section" ELSE "post_snapshot"
    IN
    /\ RunAt(p, "section")
    /\ run' = [run EXCEPT ![p].step = step, ![p].at = NextCursor(rows, at),
                          ![p].items = @ \cup Items(rows, at)]
    /\ UNCHANGED <<entry, inserted, rows, cursorFile, told, overtaken>>

PostSnapshot(p) ==
    /\ RunAt(p, "post_snapshot")
    /\ \/ run' = [run EXCEPT ![p].step = "read", ![p].items = {}, ![p].at = 0, ![p].always = {}]
       \/ EndRun(p)
    /\ UNCHANGED <<entry, inserted, rows, cursorFile, told, overtaken>>

ReadEvents(p) ==
    LET next == NextCursor(Committed, run[p].cursor) IN
    /\ RunAt(p, "read")
    /\ run' = [run EXCEPT ![p].step = "post", ![p].page = Items(Committed, run[p].cursor),
                          ![p].next = next]
    /\ overtaken' = overtaken \cup {i \in Open : i <= next}
    /\ UNCHANGED <<entry, inserted, rows, cursorFile, told>>

\* Fault: a post that fails is retried with the next page only.
PostEventsUnchecked(p) ==
    /\ RunAt(p, "post")
    /\ told' \in {told, told \cup run[p].page}
    /\ run' = [run EXCEPT ![p].step = "save"]
    /\ UNCHANGED <<entry, inserted, rows, cursorFile, overtaken>>

\* The relay accepts the page; or an error ends the run, whether or not the
\* relay has accepted it.
PostEvents(p) ==
    /\ RunAt(p, "post")
    /\ \/ told' = told \cup run[p].page /\ run' = [run EXCEPT ![p].step = "save"]
       \/ told' \in {told, told \cup run[p].page} /\ EndRun(p)
    /\ UNCHANGED <<entry, inserted, rows, cursorFile, overtaken>>

\* The temporary file replaces the state file in one step.
SaveCursor(p) ==
    /\ RunAt(p, "save")
    /\ cursorFile' = run[p].next
    /\ EndRun(p)
    /\ UNCHANGED <<entry, inserted, rows, told, overtaken>>

BreakRun(p) ==
    /\ ~RunAt(p, "idle")
    /\ EndRun(p)
    /\ UNCHANGED <<entry, inserted, rows, cursorFile, told, overtaken>>

FeedNext ==
    \/ \E w \in Writers : ChangeLog(w) \/ Finish(w, "committed") \/ Finish(w, "void")
    \/ \E r \in Rows : ChangeRow(r)
    \/ \E p \in Pushers : StartRun(p) \/ ReadSection(p) \/ PostSnapshot(p) \/ ReadEvents(p)
                          \/ PostEvents(p) \/ SaveCursor(p) \/ BreakRun(p)

FeedSpec == FeedInit /\ [][FeedNext]_feedVars

(***************************************************************************)
(* Properties                                                              *)
(***************************************************************************)
FeedTypeOK ==
    /\ entry \in [Ids -> EntryStates]
    /\ inserted \in [Writers -> SUBSET Ids]
    /\ rows \subseteq Rows
    /\ run \in [Pushers -> [step: RunSteps, at: Nat, items: SUBSET Rows, always: SUBSET Rows,
                            cursor: Nat, page: SUBSET Ids, next: Nat]]
    /\ cursorFile \in Nat
    /\ told \subseteq Ids /\ overtaken \subseteq Ids

\* What is committed up to the saved cursor has reached the relay, however runs
\* fail and overlap, except entries that were overtaken: inserted before and
\* committed after an entry that was sent.
NothingSkipped == \A i \in Committed : i <= cursorFile => i \in told \cup overtaken

\* A snapshot is read page by page while rows come and go, and has every row
\* that was there all the time.
SnapshotWhole == \A p \in Pushers : RunAt(p, "post_snapshot") => run[p].always \subseteq run[p].items

\* Polling without gaps, as the documentation promises.
NoGaps == \A i \in Committed : i <= cursorFile => i \in told
================================================================================
