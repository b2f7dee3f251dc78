----------------------------- MODULE TariffSessions -----------------------------
(***************************************************************************)
(* The requests of TariffBook as concurrent transactions: one SQL          *)
(* statement at a time under READ COMMITTED, with PostgreSQL's row locks   *)
(* and the waits of its unique index.                                      *)
(***************************************************************************)
EXTENDS Naturals, Sequences, FiniteSets

CONSTANTS Users,     \* whose requests overlap; one worker serves each of them
          TariffIds, Currencies, Keys, RateIds, Prices, RateValues,   \* as in TariffBook
          Nil,       \* TariffBook's Absent
          Ops        \* the kinds of request that are considered

VARIABLES tariff, rates, logged, forms,   \* as in TariffBook
          stmt,      \* the statement each worker executes next
          asked,     \* the request it serves, Nil when idle; of an import, the row
                     \* of the file it has reached
          stamp,     \* when its transaction began, for a new rate
          rateRead,  \* the rate it read
          queue,     \* the tariffs it still has to write, with the price it read
          wTariff    \* its uncommitted tariff rows: TariffIds -> row or Nil

Book == INSTANCE TariffBook WITH Absent <- Nil

tables == <<tariff, rates, logged, forms>>
tariffVars == <<tables, stmt, asked, stamp, rateRead, queue, wTariff>>

\* The orders in which a SELECT may return the rows of ids.
Orders(ids) ==
    {list \in [1 .. Cardinality(ids) -> ids] :
        \A i, j \in 1 .. Cardinality(ids) : i # j => list[i] # list[j]}

Requests ==
    [op: {"create"}, key: Keys, currency: Currencies, price: Prices, current: BOOLEAN]
    \cup [op: {"edit"}, tariff: TariffIds, currency: Currencies, price: Prices,
          current: BOOLEAN, commented: BOOLEAN]
    \cup [op: {"upsert"}, currency: Currencies, rate: RateValues]
    \cup [op: {"import"}, key: Keys, currency: Currencies, price: Prices, rate: RateValues]

FirstStep == [create |-> "rate", edit |-> "rate", upsert |-> "select", import |-> "exists"]

Statements ==
    {"idle", "rate", "duplicate", "insert", "offRead", "offWrite", "editRead",
     "editWrite", "editIndex", "select", "recalculate", "exists", "close", "commit"}

Jobs == [tariff: TariffIds, price: Nat]

\* Both kinds of id are compared, and a recalculation takes its tariffs in order.
ASSUME TariffIdsAssumption == TariffIds \subseteq Nat /\ IsFiniteSet(TariffIds)
ASSUME MoneyAssumption ==
    RateIds \subseteq Nat \ {0} /\ Prices \subseteq Nat \ {0} /\ RateValues \subseteq Nat \ {0}
ASSUME OpsAssumption == Ops \subseteq DOMAIN FirstStep
ASSUME NilAssumption ==
    Nil \notin Requests \cup RateIds \cup Book!Rates \cup Book!Tariffs \cup Book!TermRows
                       \cup Book!OpenForms

\* The tariffs whose rows a transaction has written: it holds their locks.
Held(w) == {t \in TariffIds : wTariff[w][t] # Nil}

--------------------------------------------------------------------------------
(***************************************************************************)
(* Locks.  A written row is locked until the transaction ends.  The unique *)
(* index on keys in force holds an entry for every committed row in force, *)
(* and for an uncommitted one once the statement has passed its check.     *)
(***************************************************************************)
RowLockers(w, ts) == {v \in Users \ {w} : Held(v) \cap ts # {}}

KeyLockers(w, k) ==
    {v \in Users \ {w} : \E t \in Held(v) :
        /\ wTariff[v][t].key = k
        /\ \/ wTariff[v][t].is_current /\ stmt[v] # "editIndex"
           \/ tariff[t] # Nil /\ tariff[t].is_current}

\* The transactions that the next statement of w has to wait for.
BlockedBy(w) ==
    CASE stmt[w] = "insert" -> KeyLockers(w, asked[w].key)
      [] stmt[w] = "editWrite" -> RowLockers(w, {asked[w].tariff})
      [] stmt[w] = "editIndex" -> KeyLockers(w, tariff[asked[w].tariff].key)
      [] stmt[w] \in {"recalculate", "offWrite"} /\ queue[w] # <<>>
             -> RowLockers(w, {Head(queue[w]).tariff})
      [] stmt[w] = "close" -> RowLockers(w, Book!CurrentOf(asked[w].key))
      [] OTHER -> {}

Unblocked(w) == BlockedBy(w) = {}

\* Transactions each of which waits for another of them.
Deadlocked(ws) == ws # {} /\ \A w \in ws : BlockedBy(w) \cap ws # {}

--------------------------------------------------------------------------------
NoRows == [t \in TariffIds |-> Nil]

TariffInit ==
    /\ Book!Init
    /\ stmt = [w \in Users |-> "idle"]
    /\ asked = [w \in Users |-> Nil]
    /\ stamp = [w \in Users |-> Nil]
    /\ rateRead = [w \in Users |-> Nil]
    /\ queue = [w \in Users |-> <<>>]
    /\ wTariff = [w \in Users |-> NoRows]

\* Bound: a creation, or a row of w that may insert, begins only if an id is left.
Inserters == {w \in Users : /\ stmt[w] # "idle"
                            /\ asked[w].op \in {"create", "import"}
                            /\ Book!FindByIdentity(asked[w].key) = {}}
IdLeft(w) ==
    Cardinality(Inserters \ {w}) < Cardinality({t \in TariffIds : tariff[t] = Nil} \ Held(w))
IdForRow(w, k) == Book!FindByIdentity(k) # {} \/ IdLeft(w)

Posted(w) ==
    {q \in Requests :
        /\ q.op \in Ops
        /\ q.op = "create" => IdLeft(w)
        /\ q.op = "import" => IdForRow(w, q.key)
        /\ q.op = "edit" => tariff[q.tariff] # Nil}

\* created_at of the rate a transaction writes is the time it began (now()).
NextStamp ==
    LET taken == {n \in RateIds : rates[n] # Nil} \cup {stamp[w] : w \in Users}
        later == {n \in RateIds : \A m \in taken \ {Nil} : m < n}
    IN  {n \in later : \A m \in later : n <= m}

\* A request arrives; an edit begins with the display of its form.
BeginRequest(w) ==
    /\ stmt[w] = "idle"
    /\ \E q \in Posted(w) :
          /\ asked' = [asked EXCEPT ![w] = q]
          /\ stmt' = [stmt EXCEPT ![w] = FirstStep[q.op]]
          /\ IF q.op = "edit" THEN Book!OpenForm(w, q.tariff)
                              ELSE UNCHANGED tables
          /\ IF q.op = "upsert" THEN \E n \in NextStamp : stamp' = [stamp EXCEPT ![w] = n]
                                ELSE UNCHANGED stamp
    /\ UNCHANGED <<rateRead, queue, wTariff>>

Forget(w) ==
    /\ asked' = [asked EXCEPT ![w] = Nil]
    /\ stamp' = [stamp EXCEPT ![w] = Nil]
    /\ rateRead' = [rateRead EXCEPT ![w] = Nil]
    /\ wTariff' = [wTariff EXCEPT ![w] = NoRows]

\* An error, a conflict, a save without changes, a lost connection, or the
\* end PostgreSQL makes of a deadlock.
RollBack(w) ==
    /\ stmt' = [stmt EXCEPT ![w] = "idle"]
    /\ forms' = [forms EXCEPT ![w] = Nil]
    /\ queue' = [queue EXCEPT ![w] = <<>>]
    /\ Forget(w)
    /\ UNCHANGED <<tariff, rates, logged>>

BreakOff(w) == stmt[w] # "idle" /\ RollBack(w)

\* The importer closes a tariff without a row of history.
HasHistory(w, t) == t \in Held(w) /\ (asked[w].op = "import" => tariff[t] = Nil)

\* create with "out of force" goes on with a second transaction.
SwitchesOff(w) == asked[w].op = "create" /\ ~asked[w].current /\ queue[w] # <<>>
                    /\ wTariff[w][Head(queue[w]).tariff].is_current

\* Fault: the recalculation's history rows are not written.
CommitTariffsUnlogged(w) ==
    /\ stmt[w] = "commit"
    /\ tariff' = [t \in TariffIds |-> IF t \in Held(w) THEN wTariff[w][t] ELSE tariff[t]]
    /\ logged' = [t \in TariffIds |-> IF HasHistory(w, t) /\ asked[w].op # "upsert"
                                      THEN Book!Terms(wTariff[w][t]) ELSE logged[t]]
    /\ rates' = IF asked[w].op # "upsert" THEN rates
                ELSE [rates EXCEPT ![stamp[w]] = [currency |-> asked[w].currency,
                                                  rate_to_eur |-> asked[w].rate]]
    /\ forms' = [Book!Outdated(Held(w)) EXCEPT ![w] = Nil]
    /\ stmt' = [stmt EXCEPT ![w] = IF SwitchesOff(w) THEN "offRead" ELSE "idle"]
    /\ IF SwitchesOff(w)
       THEN /\ wTariff' = [wTariff EXCEPT ![w] = NoRows]
            /\ UNCHANGED <<asked, stamp, rateRead, queue>>
       ELSE Forget(w) /\ queue' = [queue EXCEPT ![w] = <<>>]

\* What a commit of w makes of tariffs, history and the forms of others.
StoreRows(w) ==
    /\ tariff' = [t \in TariffIds |-> IF t \in Held(w) THEN wTariff[w][t] ELSE tariff[t]]
    /\ logged' = [t \in TariffIds |-> IF HasHistory(w, t) THEN Book!Terms(wTariff[w][t])
                                                                  ELSE logged[t]]
    /\ forms' = [Book!Outdated(Held(w)) EXCEPT ![w] = Nil]

CommitTariffs(w) ==
    /\ stmt[w] = "commit"
    /\ StoreRows(w)
    /\ rates' = IF asked[w].op # "upsert" THEN rates
                ELSE [rates EXCEPT ![stamp[w]] = [currency |-> asked[w].currency,
                                                  rate_to_eur |-> asked[w].rate]]
    /\ stmt' = [stmt EXCEPT ![w] = IF SwitchesOff(w) THEN "offRead" ELSE "idle"]
    /\ IF SwitchesOff(w)
       THEN /\ wTariff' = [wTariff EXCEPT ![w] = NoRows]
            /\ UNCHANGED <<asked, stamp, rateRead, queue>>
       ELSE Forget(w) /\ queue' = [queue EXCEPT ![w] = <<>>]

Proceed(w, step) == stmt' = [stmt EXCEPT ![w] = step] /\ UNCHANGED <<tables, asked, stamp>>
Write(w, t, row) == wTariff' = [wTariff EXCEPT ![w][t] = row]

--------------------------------------------------------------------------------
(***************************************************************************)
(* /tariffs/create, and the import of a new tariff                         *)
(***************************************************************************)
\* latest_currency_rate, read by the handler before create or update.
ReadRate(w) ==
    /\ stmt[w] = "rate"
    /\ IF Book!RatesOf(asked[w].currency) = {} THEN RollBack(w)
       ELSE /\ rateRead' = [rateRead EXCEPT ![w] = Book!LatestRate(asked[w].currency)]
            /\ Proceed(w, IF asked[w].op = "create" THEN "duplicate" ELSE "editRead")
            /\ UNCHANGED <<queue, wTariff>>

\* find_tariff_by_identity; at the end of its file the importer commits what
\* it did before.
FindDuplicate(w) ==
    /\ stmt[w] = "duplicate"
    /\ IF Book!FindByIdentity(asked[w].key) # {} /\ asked[w].op = "create" THEN RollBack(w)
       ELSE /\ Proceed(w, IF Book!FindByIdentity(asked[w].key) = {} THEN "insert" ELSE "commit")
            /\ UNCHANGED <<rateRead, queue, wTariff>>

\* Fault: an import without a rate stores zero.
NewRowUnrated(w) == Book!Row(asked[w].key, asked[w].currency, asked[w].price, 0, Nil, TRUE)

NewRow(w) ==
    IF asked[w].op = "import"
    THEN Book!Row(asked[w].key, asked[w].currency, asked[w].price, asked[w].rate, Nil, TRUE)
    ELSE Book!Row(asked[w].key, asked[w].currency, asked[w].price, rates[rateRead[w]].rate_to_eur,
                  rateRead[w], TRUE)

InsertAs(w, t) ==
    /\ tariff[t] = Nil
    /\ \A v \in Users : t \notin Held(v)
    /\ Write(w, t, NewRow(w))
    /\ queue' = IF asked[w].op = "import" \/ asked[w].current THEN queue
                ELSE [queue EXCEPT ![w] = <<[tariff |-> t, price |-> asked[w].price]>>]

\* Fault: without the unique index, find_tariff_by_identity has to do.
InsertUnchecked(w) ==
    /\ stmt[w] = "insert" /\ Unblocked(w)
    /\ \E t \in TariffIds : InsertAs(w, t)
    /\ Proceed(w, "commit")
    /\ UNCHANGED rateRead

InsertTariff(w) ==
    /\ stmt[w] = "insert" /\ Unblocked(w)
    /\ IF Book!CurrentOf(asked[w].key) # {} THEN RollBack(w)
       ELSE /\ \E t \in TariffIds : InsertAs(w, t)
            /\ Proceed(w, "commit")
            /\ UNCHANGED rateRead

\* set_tariff_active(False), in a transaction of its own.
OffRead(w) ==
    /\ stmt[w] = "offRead"
    /\ IF ~tariff[Head(queue[w]).tariff].is_current THEN RollBack(w)
       ELSE Proceed(w, "offWrite") /\ UNCHANGED <<rateRead, queue, wTariff>>

OffWrite(w) ==
    LET t == Head(queue[w]).tariff IN
    /\ stmt[w] = "offWrite" /\ Unblocked(w)
    /\ Write(w, t, [tariff[t] EXCEPT !.is_current = FALSE])
    /\ Proceed(w, "commit")
    /\ UNCHANGED <<rateRead, queue>>

(***************************************************************************)
(* /tariffs/{id}/update                                                    *)
(***************************************************************************)
EditRead(w) ==
    LET q == asked[w] IN
    /\ stmt[w] = "editRead"
    /\ IF /\ forms[w].fresh
          /\ Book!Changes(tariff[q.tariff], q.price, q.currency, q.current, q.commented)
       THEN Proceed(w, "editWrite") /\ UNCHANGED <<rateRead, queue, wTariff>>
       ELSE RollBack(w)

EditedRow(w) ==
    Book!Row(tariff[asked[w].tariff].key, asked[w].currency, asked[w].price,
             rates[rateRead[w]].rate_to_eur, rateRead[w], asked[w].current)

\* Fault: the UPDATE does not repeat the comparison of updated_at.
EditWriteBlind(w) ==
    /\ stmt[w] = "editWrite" /\ Unblocked(w)
    /\ Write(w, asked[w].tariff, EditedRow(w))
    /\ Proceed(w, IF asked[w].current /\ ~tariff[asked[w].tariff].is_current
                  THEN "editIndex" ELSE "commit")
    /\ UNCHANGED <<rateRead, queue>>

\* UPDATE ... WHERE id = ? AND updated_at = ?, after the row lock is granted.
EditWrite(w) ==
    /\ stmt[w] = "editWrite" /\ Unblocked(w)
    /\ IF ~forms[w].fresh THEN RollBack(w)
       ELSE /\ Write(w, asked[w].tariff, EditedRow(w))
            /\ Proceed(w, IF asked[w].current /\ ~tariff[asked[w].tariff].is_current
                       THEN "editIndex" ELSE "commit")
            /\ UNCHANGED <<rateRead, queue>>

\* A tariff that comes into force needs a new entry in the unique index.
EditIndex(w) ==
    /\ stmt[w] = "editIndex" /\ Unblocked(w)
    /\ IF Book!CurrentOf(tariff[asked[w].tariff].key) # {} THEN RollBack(w)
       ELSE Proceed(w, "commit") /\ UNCHANGED <<rateRead, queue, wTariff>>

(***************************************************************************)
(* /admin/currency-rates/upsert                                            *)
(***************************************************************************)
WithPrices(ids) == [i \in DOMAIN ids |-> [tariff |-> ids[i], price |-> tariff[ids[i]].price]]

\* Fault: no ORDER BY.
SelectTariffsUnordered(w) ==
    /\ stmt[w] = "select"
    /\ \E ids \in Orders(Book!RateUsers(asked[w].currency)) :
          queue' = [queue EXCEPT ![w] = WithPrices(ids)]
    /\ Proceed(w, "recalculate")
    /\ UNCHANGED <<rateRead, wTariff>>

\* The new rate is inserted and the tariffs in force are read, ORDER BY id.
SelectTariffs(w) ==
    /\ stmt[w] = "select"
    /\ \E ids \in Orders(Book!RateUsers(asked[w].currency)) :
          /\ \A i, j \in DOMAIN ids : i < j => ids[i] < ids[j]
          /\ queue' = [queue EXCEPT ![w] = WithPrices(ids)]
    /\ Proceed(w, "recalculate")
    /\ UNCHANGED <<rateRead, wTariff>>

\* UPDATE ... WHERE id = ?: the price was read by the SELECT, the rest of
\* the row is the newest committed one.
Recalculate(w) ==
    LET job == Head(queue[w]) IN
    /\ stmt[w] = "recalculate" /\ Unblocked(w)
    /\ IF queue[w] = <<>> THEN Proceed(w, "commit") /\ UNCHANGED <<queue, wTariff>>
       ELSE /\ Write(w, job.tariff,
                     Book!Recalculated(tariff[job.tariff], job.price, asked[w].rate, stamp[w]))
            /\ queue' = [queue EXCEPT ![w] = Tail(@)]
            /\ Proceed(w, "recalculate")
    /\ UNCHANGED rateRead

(***************************************************************************)
(* The import of a tariff whose key may be in force                        *)
(***************************************************************************)
ImportExists(w) ==
    /\ stmt[w] = "exists"
    /\ Proceed(w, IF Book!CurrentOf(asked[w].key) # {} THEN "close" ELSE "duplicate")
    /\ UNCHANGED <<rateRead, queue, wTariff>>

ImportClose(w) ==
    /\ stmt[w] = "close" /\ Unblocked(w)
    /\ wTariff' = [wTariff EXCEPT ![w] = [t \in TariffIds |->
                     IF t \in Book!CurrentOf(asked[w].key)
                     THEN [tariff[t] EXCEPT !.is_current = FALSE] ELSE wTariff[w][t]]]
    /\ Proceed(w, "duplicate")
    /\ UNCHANGED <<rateRead, queue>>

\* The next row of the file, of a key that was not met since the last commit: a
\* later row of such a key is skipped.  After a commit a file goes on like a new one.
NextRow(w) ==
    /\ \E q \in Requests :
          /\ q.op = "import" /\ IdForRow(w, q.key)
          /\ \A t \in Held(w) : wTariff[w][t].key # q.key
          /\ asked' = [asked EXCEPT ![w] = q]
    /\ stmt' = [stmt EXCEPT ![w] = "exists"]
    /\ UNCHANGED <<rates, stamp, rateRead, queue>>

\* A refused row neither commits nor rolls back: the tariffs closed so far stay
\* locked while the next row is applied.
RefuseRow(w) ==
    /\ stmt[w] = "duplicate" /\ asked[w].op = "import"
    /\ Book!FindByIdentity(asked[w].key) # {}
    /\ NextRow(w)
    /\ UNCHANGED <<tariff, logged, forms, wTariff>>

\* create_tariff commits its row, and with it the tariffs closed before.
CommitRow(w) ==
    /\ stmt[w] = "commit" /\ asked[w].op = "import"
    /\ \E t \in Held(w) : tariff[t] = Nil
    /\ StoreRows(w)
    /\ wTariff' = [wTariff EXCEPT ![w] = NoRows]
    /\ NextRow(w)

\* A row that names a new country, provider, prefix or currency commits it
\* before it closes a tariff, and with it the tariffs closed by earlier rows.
CommitValue(w) ==
    /\ stmt[w] \in {"close", "duplicate"} /\ asked[w].op = "import"
    /\ Held(w) # {}
    /\ \A t \in Held(w) : wTariff[w][t].key # asked[w].key
    /\ StoreRows(w)
    /\ wTariff' = [wTariff EXCEPT ![w] = NoRows]
    /\ UNCHANGED <<rates, stmt, asked, stamp, rateRead, queue>>

--------------------------------------------------------------------------------
TariffStep(w) ==
    \/ ReadRate(w) \/ FindDuplicate(w) \/ InsertTariff(w) \/ OffRead(w) \/ OffWrite(w)
    \/ EditRead(w) \/ EditWrite(w) \/ EditIndex(w)
    \/ SelectTariffs(w) \/ Recalculate(w)
    \/ ImportExists(w) \/ ImportClose(w) \/ RefuseRow(w) \/ CommitRow(w) \/ CommitValue(w)
    \/ CommitTariffs(w)

TariffNext == \E w \in Users : BeginRequest(w) \/ TariffStep(w) \/ BreakOff(w)

TariffSpec == TariffInit /\ [][TariffNext]_tariffVars

--------------------------------------------------------------------------------
(***************************************************************************)
(* Properties                                                              *)
(***************************************************************************)
TariffTypeOK ==
    /\ Book!TypeOK
    /\ stmt \in [Users -> Statements]
    /\ asked \in [Users -> Requests \cup {Nil}]
    /\ stamp \in [Users -> RateIds \cup {Nil}]
    /\ rateRead \in [Users -> RateIds \cup {Nil}]
    /\ queue \in [Users -> Seq(Jobs)]
    /\ wTariff \in [Users -> [TariffIds -> Book!Tariffs \cup {Nil}]]

\* However requests overlap, one tariff of a key is in force at most: the
\* duplicate check can pass twice, the unique index cannot.
CurrentUnique == Book!CurrentUnique

\* However requests overlap, the latest history row of a tariff records the
\* terms it has, although part of them was computed from an earlier read.
HistoryFollows == Book!HistoryFollows

\* A saved edit never overwrites a row that was changed after its form was
\* opened: the UPDATE repeats the comparison made when the row was read.
EditsNotLost == Book!EditsNotLost

\* An import that waits for the row or the key of one tariff and keeps another
\* that an earlier, refused row of its file has closed.
Carries(i) ==
    /\ asked[i].op = "import" /\ stmt[i] \in {"close", "insert"}
    /\ \E t \in Held(i) : tariff[t] # Nil /\ tariff[t].key # asked[i].key

\* Requests wait for one another in two cases only: an import among them waits
\* while it keeps the locks of tariffs that earlier, refused rows have closed;
\* or an edit that puts a tariff in force waits on the unique index for a
\* recalculation, this for a row of another recalculation, that one for the
\* row of the edit.  Two recalculations alone lock in the order of the ids, and
\* every other request writes one tariff.
DeadlocksExplained ==
    \A ws \in SUBSET Users : Deadlocked(ws) =>
        \/ \E i \in ws : Carries(i)
        \/ \E e, q, r \in ws :
              /\ stmt[e] = "editIndex"
              /\ q # r /\ stmt[q] = "recalculate" /\ stmt[r] = "recalculate"

\* What TariffBook guarantees and overlapping requests do not.
EurPriceExact == Book!EurPriceExact
CurrentUsesLatest == Book!CurrentUsesLatest
================================================================================
