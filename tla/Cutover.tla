-------------------------------- MODULE Cutover --------------------------------
(***************************************************************************)
(* The scripts that bring the database into production: the import of an   *)
(* old SQLite database, the SQL migration that is run again by every       *)
(* deployment, and the cleanup of test data before the first release.      *)
(*                                                                         *)
(* The scripts are one transaction each, but setval is not undone by a     *)
(* rollback: what a script did to an existing sequence stays.  The old     *)
(* database is offline, and the cleanup locks the application out.         *)
(*                                                                         *)
(* Five tables stand for all: two that reference another one of them, the  *)
(* ones that are referenced, and the change log, which is cleaned in part. *)
(***************************************************************************)
EXTENDS Naturals, Sequences, FiniteSets, FiniteSetsExt

CONSTANTS LegacyIds,   \* ids that rows of the old database may have
          LastRowId    \* bound: ids the sequences may reach

ASSUME CutoverAssumption == LastRowId \in Nat /\ LegacyIds \subseteq 1 .. LastRowId

VARIABLES source,   \* the old database: table -> id -> row
          stored,   \* the committed database, likewise
          counter,  \* the last id that the sequence of a table has given
          script    \* the script that runs

cutVars == <<source, stored, counter, script>>

Tables == {"phone_numbers", "route_phone_numbers", "server_route_priorities",
           "change_log", "provider_change_logs"}

\* The order of MIGRATION_ORDER, and that of CLEANUP_TABLES.
MigrationOrder == <<"phone_numbers", "route_phone_numbers", "server_route_priorities",
                    "change_log", "provider_change_logs">>

CleanupOrder == <<"server_route_priorities", "provider_change_logs",
                  "route_phone_numbers", "phone_numbers">>

\* The column "ref" of the first table holds ids of the second, or 0 for NULL.
ForeignKeys == {<<"route_phone_numbers", "phone_numbers">>,
                <<"server_route_priorities", "provider_change_logs">>}

\* "free" stands for reserved and unused too, "problem" for blocked, disabled.
OldRows(t) ==
    CASE t = "phone_numbers" -> [active: BOOLEAN, status: {"used", "free", "problem", "other"}]
      [] t = "route_phone_numbers" -> [ref: LegacyIds, active: BOOLEAN]
      [] t = "server_route_priorities" -> [ref: LegacyIds \cup {0}]
      [] t = "change_log" -> [operational: BOOLEAN]
      [] t = "provider_change_logs" -> [ref: {0}]

TakenIds(db, t) == DOMAIN db[t]

Orphans(db, k) == {db[k[1]][i].ref : i \in TakenIds(db, k[1])} \ (TakenIds(db, k[2]) \cup {0})

KeysHold(db) == \A k \in ForeignKeys : Orphans(db, k) = {}

Emptied(db, ts) == [t \in Tables |-> IF t \in ts THEN <<>> ELSE db[t]]

Highest(db, t) == Max(TakenIds(db, t) \cup {0})

NoScript == [step |-> "none"]

At(step) == script.step = step

OldTables(t) == UNION {[ids -> OldRows(t)] : ids \in SUBSET LegacyIds}

CutoverInit ==
    /\ \E numbers \in OldTables("phone_numbers"), links \in OldTables("route_phone_numbers"),
          priorities \in OldTables("server_route_priorities"),
          changes \in OldTables("change_log"), logs \in OldTables("provider_change_logs") :
          source = [t \in Tables |-> CASE t = "phone_numbers" -> numbers
                                       [] t = "route_phone_numbers" -> links
                                       [] t = "server_route_priorities" -> priorities
                                       [] t = "change_log" -> changes
                                       [] t = "provider_change_logs" -> logs]
    /\ KeysHold(source)
    /\ stored = [t \in Tables |-> <<>>]
    /\ counter = [t \in Tables |-> 0]
    /\ script = NoScript

(***************************************************************************)
(* Numbers and links that disagree                                         *)
(***************************************************************************)
\* What the import makes of a number.
Converted(n) ==
    [active |-> n.active,
     status |-> CASE n.status = "used" -> "used"
                  [] n.status = "free" \/ (n.status = "problem" /\ ~n.active) -> "unused"
                  [] OTHER -> "unknown"]

HasLink(db, n) == \E l \in TakenIds(db, "route_phone_numbers") :
                    db["route_phone_numbers"][l] = [ref |-> n, active |-> TRUE]

MapNumbers(db, Op(_, _)) ==
    [db EXCEPT !["phone_numbers"] = [n \in TakenIds(db, "phone_numbers") |-> Op(n, @[n])]]

\* A linked number that is active is in use.
Promoted(db) ==
    LET InUse(n, row) == IF row.active /\ row.status # "used" /\ HasLink(db, n)
                         THEN [row EXCEPT !.status = "used"] ELSE row
    IN  MapNumbers(db, InUse)

CloseWhere(db, Test(_)) ==
    [db EXCEPT !["route_phone_numbers"] =
        [l \in TakenIds(db, "route_phone_numbers") |->
            IF Test(db["phone_numbers"][@[l].ref]) THEN [@[l] EXCEPT !.active = FALSE] ELSE @[l]]]

\* Fault: a link to an inactive number is left open.
ReconciledHalf(db) == Promoted(db)

\* run_apply, once every table is there.
Reconciled(db) == LET Inactive(row) == ~row.active IN CloseWhere(Promoted(db), Inactive)

\* 0069p2_purchased_phone_state_v2.sql.
Repaired(db) ==
    LET Settled(n, row) == IF row.active THEN row ELSE [row EXCEPT !.status = "unused"]
        OutOfUse(row) == ~row.active \/ row.status # "used"
    IN  CloseWhere(MapNumbers(Promoted(db), Settled), OutOfUse)

(***************************************************************************)
(* migrate_sqlite_to_postgres                                              *)
(***************************************************************************)
\* The tables must be empty, unless --drop-existing and --create-schema make new
\* ones with new sequences.
StartMigration ==
    /\ At("none")
    /\ \E drop \in BOOLEAN :
          /\ drop \/ \A t \in Tables : TakenIds(stored, t) = {}
          /\ script' = [step |-> "import", todo |-> MigrationOrder, drop |-> drop,
                        db |-> Emptied(stored, Tables)]
    /\ UNCHANGED <<source, stored, counter>>

\* Rows keep their ids; a row without what it references ends the script.
ImportTable ==
    LET t == Head(script.todo)
        loaded == IF t = "phone_numbers" THEN [i \in TakenIds(source, t) |-> Converted(source[t][i])]
                  ELSE source[t]
        db == [script.db EXCEPT ![t] = loaded]
    IN
    /\ At("import") /\ script.todo # <<>>
    /\ KeysHold(db)
    /\ script' = [script EXCEPT !.db = db, !.todo = Tail(@)]
    /\ UNCHANGED <<source, stored, counter>>

Reconcile ==
    /\ At("import") /\ script.todo = <<>>
    /\ script' = [script EXCEPT !.step = "sequences", !.db = Reconciled(@)]
    /\ UNCHANGED <<source, stored, counter>>

\* Fault: the sequences go on from the number of rows.
ResetCounterByCount(db) == [t \in Tables |-> Cardinality(TakenIds(db, t))]

\* sequence_reset_sql: from the largest id.
ResetCounter(db) == [t \in Tables |-> Highest(db, t)]

\* setval of every table; new sequences belong to the transaction that creates
\* them, and nobody sees them before its commit.
ResetSequences ==
    /\ At("sequences")
    /\ IF script.drop
       THEN /\ script' = [step |-> "validate", db |-> script.db, drop |-> TRUE,
                          counter |-> ResetCounter(script.db)]
            /\ UNCHANGED counter
       ELSE /\ script' = [step |-> "validate", db |-> script.db, drop |-> FALSE]
            /\ counter' = ResetCounter(script.db)
    /\ UNCHANGED <<source, stored>>

\* validate_counts and the commit.
CommitMigration ==
    /\ At("validate")
    /\ \A t \in Tables :
          /\ Cardinality(TakenIds(script.db, t)) = Cardinality(TakenIds(source, t))
          /\ Highest(script.db, t) = Highest(source, t)
    /\ stored' = script.db
    /\ counter' = IF script.drop THEN script.counter ELSE counter
    /\ script' = NoScript
    /\ UNCHANGED source

(***************************************************************************)
(* prepare_release_database                                                *)
(***************************************************************************)
StartCleanup ==
    /\ At("none")
    /\ script' = [step |-> "delete", todo |-> CleanupOrder, db |-> stored]
    /\ UNCHANGED <<source, stored, counter>>

\* The tables one after the other, children first.
DeleteTable ==
    LET db == Emptied(script.db, {Head(script.todo)}) IN
    /\ At("delete") /\ script.todo # <<>>
    /\ KeysHold(db)
    /\ script' = [script EXCEPT !.db = db, !.todo = Tail(@)]
    /\ UNCHANGED <<source, stored, counter>>

\* Of the change log, the entries about operational data.
DeleteLogEntries ==
    LET kept == {i \in TakenIds(script.db, "change_log") : ~script.db["change_log"][i].operational} IN
    /\ At("delete") /\ script.todo = <<>>
    /\ script' = [step |-> "identities",
                  db |-> [script.db EXCEPT !["change_log"] = [i \in kept |-> @[i]]]]
    /\ UNCHANGED <<source, stored, counter>>

\* _reset_identities: from 1, and after what is left of the change log.
ResetIdentities ==
    /\ At("identities")
    /\ counter' = [t \in Tables |-> IF t = "change_log" THEN Highest(script.db, t) ELSE 0]
    /\ script' = [script EXCEPT !.step = "verify"]
    /\ UNCHANGED <<source, stored>>

\* The tables are counted once more.
CommitCleanup ==
    /\ At("verify")
    /\ \A t \in Tables \ {"change_log"} : TakenIds(script.db, t) = {}
    /\ stored' = script.db
    /\ script' = NoScript
    /\ UNCHANGED <<source, counter>>

\* A row that cannot be converted, a verification that fails, a lost
\* connection: the transaction of either script is rolled back.
FailScript ==
    /\ ~At("none")
    /\ script' = NoScript
    /\ UNCHANGED <<source, stored, counter>>

(***************************************************************************)
(* The application and its deployment                                      *)
(***************************************************************************)
\* What create_phone_number and the change log add.
NewRows(t) ==
    CASE t = "phone_numbers" -> {[active |-> TRUE, status |-> "unused"]}
      [] t = "change_log" -> [operational: BOOLEAN]
      [] OTHER -> {}

\* The id comes from the sequence; if the table has it, the insert is refused.
AddRow(t) ==
    LET id == counter[t] + 1 IN
    /\ At("none") /\ id <= LastRowId
    /\ \E row \in NewRows(t) :
          stored' = IF id \in TakenIds(stored, t) THEN stored
                    ELSE [stored EXCEPT ![t] =
                            [i \in TakenIds(stored, t) \cup {id} |-> IF i = id THEN row ELSE @[i]]]
    /\ counter' = [counter EXCEPT ![t] = id]
    /\ UNCHANGED <<source, script>>

\* apply_postgres_schema runs before the application starts.
Redeploy ==
    /\ At("none")
    /\ stored' = Repaired(stored)
    /\ UNCHANGED <<source, counter, script>>

CutoverNext ==
    \/ StartMigration \/ ImportTable \/ Reconcile \/ ResetSequences \/ CommitMigration
    \/ StartCleanup \/ DeleteTable \/ DeleteLogEntries \/ ResetIdentities \/ CommitCleanup
    \/ FailScript \/ Redeploy
    \/ \E t \in Tables : AddRow(t)

CutoverSpec == CutoverInit /\ [][CutoverNext]_cutVars

(***************************************************************************)
(* Properties                                                              *)
(***************************************************************************)
CutoverTypeOK ==
    /\ \A t \in Tables : TakenIds(stored, t) \subseteq 1 .. LastRowId
    /\ counter \in [Tables -> 0 .. LastRowId]
    /\ script.step \in {"none", "import", "sequences", "validate", "delete", "identities", "verify"}

\* Whatever the old database said, a number that is linked after the import is
\* active and in use, as the application assumes of every number it finds.
ImportedLinksHold ==
    \A l \in TakenIds(stored, "route_phone_numbers") :
        LET row == stored["route_phone_numbers"][l]
            number == stored["phone_numbers"][row.ref] IN
        row.active => number.active /\ number.status = "used"

\* A script that commits leaves every sequence past the ids that are taken,
\* although it brought rows with ids of their own or deleted only some.
CommitsLeaveIdsFree ==
    [][~At("none") /\ stored' # stored =>
         \A t \in Tables : TakenIds(stored, t)' \subseteq 1 .. counter'[t]]_cutVars

\* An id that the application is about to take is free; not true, since a
\* cleanup that is rolled back leaves its setval behind.
NextIdFree == At("none") => \A t \in Tables : TakenIds(stored, t) \subseteq 1 .. counter[t]

\* No old database makes the import insert a row before what it references;
\* not true, since priorities come before the provider changes that caused them.
OrderFits ==
    At("import") /\ script.todo # <<>> =>
        LET t == Head(script.todo) IN
        \A k \in ForeignKeys : k[1] = t =>
            Orphans([script.db EXCEPT ![t] = source[t]], k) = {}
================================================================================
