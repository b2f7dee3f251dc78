-------------------------- MODULE TariffSessionsProofs -------------------------
(***************************************************************************)
(* Overlapping requests about tariffs, for any sets of users, tariffs,     *)
(* currencies, keys, rates and prices.                                     *)
(***************************************************************************)
EXTENDS TariffSessions, FiniteSetTheorems, SequenceTheorems, WellFoundedInduction, TLAPS

EditSteps == {"editRead", "editWrite", "editIndex"}
OffSteps == {"offRead", "offWrite"}
WritingSteps == {"recalculate", "editIndex", "duplicate", "commit"}
\* Where an import has done nothing yet for the row of the file that it has reached.
RowSteps == {"exists", "close", "insert"}

\* The tariffs that a list of jobs names.
Queued(w) == {queue[w][i].tariff : i \in 1 .. Len(queue[w])}

\* The entries that a transaction has in the unique index.
InIndex(w, t) == t \in Held(w) /\ wTariff[w][t].is_current /\ stmt[w] # "editIndex"

\* Every currency that has a rate has a latest one.
LatestExists ==
    \A c \in Currencies : Book!RatesOf(c) # {} =>
        \E n \in Book!RatesOf(c) : \A m \in Book!RatesOf(c) : m <= n

\* The time of a rate that is not committed is not that of another rate.
StampsNew ==
    \A w \in Users : stamp[w] # Nil =>
        rates[stamp[w]] = Nil /\ \A v \in Users \ {w} : stamp[v] # stamp[w]

\* A worker without a request has no transaction and no form.
Resting(w) ==
    /\ asked[w] = Nil /\ stamp[w] = Nil /\ rateRead[w] = Nil /\ queue[w] = <<>>
    /\ Held(w) = {} /\ forms[w] = Nil

\* The statement of a worker belongs to its request.
StepFits(w) ==
    /\ asked[w] \in Requests
    /\ stmt[w] = "rate" => asked[w].op \in {"create", "edit"}
    /\ stmt[w] \in {"duplicate", "insert"} => asked[w].op \in {"create", "import"}
    /\ stmt[w] \in OffSteps => asked[w].op = "create"
    /\ stmt[w] \in EditSteps => asked[w].op = "edit"
    /\ stmt[w] \in {"select", "recalculate"} => asked[w].op = "upsert"
    /\ stmt[w] \in {"exists", "close"} => asked[w].op = "import"
    /\ stamp[w] \in IF asked[w].op = "upsert" THEN RateIds ELSE {Nil}

\* The rate that a row to be written takes over was read.
RateKnown(w) ==
    stmt[w] \in EditSteps \/ (stmt[w] \in {"duplicate", "insert"} /\ asked[w].op = "create") =>
        rateRead[w] \in RateIds /\ rates[rateRead[w]] # Nil

\* The form of an edit is that of its tariff; while the row carries the
\* updated_at of the form it is the row that the form shows, and an edit that
\* has written its tariff knows that it does.
FormTrue(w) ==
    /\ forms[w] # Nil <=> asked[w].op = "edit"
    /\ forms[w] # Nil =>
          /\ forms[w].tariff = asked[w].tariff /\ tariff[asked[w].tariff] # Nil
          /\ forms[w].fresh => forms[w].shown = Book!Display(tariff[asked[w].tariff])
          /\ stmt[w] \in {"editIndex", "commit"} => forms[w].fresh

\* The uncommitted rows of each kind of request.
RowsKeep(w) ==
    \A t \in Held(w) :
        /\ stmt[w] \in WritingSteps \/ asked[w].op = "import"
        /\ tariff[t] # Nil => wTariff[w][t].key = tariff[t].key
        /\ tariff[t] = Nil => stmt[w] = "commit"
        /\ asked[w].op = "edit" => t = asked[w].tariff
        /\ asked[w].op = "upsert" => /\ tariff[t] # Nil
                                     /\ wTariff[w][t].is_current = tariff[t].is_current
        /\ asked[w].op = "import" /\ tariff[t] # Nil =>
              /\ ~wTariff[w][t].is_current
              /\ Book!Terms(wTariff[w][t]) = Book!Terms(tariff[t])
              /\ stmt[w] \in RowSteps => tariff[t].key # asked[w].key
        /\ asked[w].op = "create" => stmt[w] = "commit"

RowsFew(w) ==
    /\ asked[w].op = "create" => \A s, t \in Held(w) : s = t
    /\ asked[w].op = "import" =>
          \A s, t \in Held(w) : tariff[s] = Nil /\ tariff[t] = Nil => s = t
    /\ asked[w].op = "edit" /\ stmt[w] \in {"editIndex", "commit"} => asked[w].tariff \in Held(w)
    /\ stmt[w] = "editIndex" => ~tariff[asked[w].tariff].is_current

\* create with "out of force": the tariff it has inserted.
OffKnown(w) ==
    /\ asked[w].op = "create" /\ stmt[w] = "commit" /\ ~asked[w].current =>
          queue[w] # <<>> /\ Head(queue[w]).tariff \in Held(w)
    /\ stmt[w] \in OffSteps => queue[w] # <<>> /\ tariff[Head(queue[w]).tariff] # Nil

\* A recalculation takes tariffs that were in force together, by their ids.
Ordered(w) ==
    asked[w].op = "upsert" =>
        /\ \A t \in Queued(w) : tariff[t] # Nil
        /\ \A i, j \in 1 .. Len(queue[w]) :
              i < j => queue[w][i].tariff < queue[w][j].tariff
        /\ \A s \in Held(w), t \in Queued(w) : s < t
        /\ \A s, t \in Held(w) \cup Queued(w) : tariff[s].key = tariff[t].key => s = t

\* An entry in the unique index excludes every other tariff of the key.
EntryAlone(w) ==
    \A t \in TariffIds : InIndex(w, t) =>
        \A s \in Book!CurrentOf(wTariff[w][t].key) : s = t

WorkerOK(w) ==
    IF stmt[w] = "idle" THEN Resting(w)
    ELSE /\ StepFits(w) /\ RateKnown(w) /\ FormTrue(w) /\ RowsKeep(w) /\ RowsFew(w)
         /\ OffKnown(w) /\ Ordered(w) /\ EntryAlone(w)

\* Two transactions never write the same row nor the same key of the index.
Apart(v, w) ==
    /\ Held(v) \cap Held(w) = {}
    /\ \A s, t \in TariffIds :
          InIndex(v, s) /\ InIndex(w, t) => wTariff[v][s].key # wTariff[w][t].key

RowsApart == \A v, w \in Users : v # w => Apart(v, w)

WorkersInv == TariffTypeOK /\ (\A w \in Users : WorkerOK(w)) /\ RowsApart

SessionsInv == WorkersInv /\ StampsNew /\ LatestExists /\ CurrentUnique /\ HistoryFollows

--------------------------------------------------------------------------------
(* Rows and requests.                                                      *)

LEMMA PricesOfRow ==
  ASSUME NEW p \in Nat, NEW r \in Nat
  PROVE  Book!Column(p) \in Nat /\ Book!EurPrice(p, r) \in Nat
<1>1. \A x \in Nat : (x + 10 \div 2) \div 10 \in Nat
  OBVIOUS
<1>2. p * r \in Nat
  OBVIOUS
<1> QED
  BY <1>1, <1>2 DEF Book!Column, Book!EurPrice, Book!Fine

LEMMA RowType ==
  ASSUME NEW k \in Keys, NEW c \in Currencies, NEW p \in Prices, NEW r \in RateValues,
         NEW n \in RateIds \cup {Nil}, NEW on \in BOOLEAN
  PROVE  /\ Book!Row(k, c, p, r, n, on) \in Book!Tariffs
         /\ Book!Row(k, c, p, r, n, on).key = k /\ Book!Row(k, c, p, r, n, on).is_current = on
<1>1. Book!Column(p) \in Nat /\ Book!EurPrice(p, r) \in Nat
  BY PricesOfRow, MoneyAssumption
<1> QED
  BY <1>1 DEF Book!Row, Book!Tariffs

LEMMA RecalculatedType ==
  ASSUME NEW row \in Book!Tariffs, NEW p \in Nat, NEW r \in RateValues, NEW n \in RateIds
  PROVE  /\ Book!Recalculated(row, p, r, n) \in Book!Tariffs
         /\ Book!Recalculated(row, p, r, n).key = row.key
         /\ Book!Recalculated(row, p, r, n).is_current = row.is_current
<1>1. p * Book!Fine \in Nat /\ r \in Nat
  BY MoneyAssumption DEF Book!Fine
<1>2. Book!EurPrice(p * Book!Fine, r) \in Nat
  BY <1>1, PricesOfRow
<1> HIDE DEF Book!EurPrice
<1> QED
  BY <1>2 DEF Book!Recalculated, Book!Tariffs

LEMMA SwitchedOff ==
  ASSUME NEW row \in Book!Tariffs
  PROVE  /\ [row EXCEPT !.is_current = FALSE] \in Book!Tariffs
         /\ [row EXCEPT !.is_current = FALSE].key = row.key
         /\ [row EXCEPT !.is_current = FALSE].is_current = FALSE
         /\ Book!Terms([row EXCEPT !.is_current = FALSE]) = Book!Terms(row)
BY DEF Book!Tariffs, Book!Terms

LEMMA TermsType ==
  ASSUME NEW row \in Book!Tariffs
  PROVE  Book!Terms(row) \in Book!TermRows /\ Book!Display(row) \in Book!Displays
BY DEF Book!Tariffs, Book!Terms, Book!TermRows, Book!Display, Book!Displays

\* What a request carries.
LEMMA RequestFields ==
  ASSUME NEW q \in Requests
  PROVE  /\ q.op \in {"create", "edit", "upsert", "import"}
         /\ q.currency \in Currencies
         /\ q.op \in {"create", "import"} => q.key \in Keys
         /\ q.op # "upsert" => q.price \in Prices
         /\ q.op \in {"create", "edit"} => q.current \in BOOLEAN
         /\ q.op = "edit" => q.tariff \in TariffIds
         /\ q.op \in {"upsert", "import"} => q.rate \in RateValues
BY DEF Requests

LEMMA NotNil ==
  /\ \A row \in Book!Tariffs : row # Nil
  /\ \A rate \in Book!Rates : rate # Nil
  /\ \A f \in Book!OpenForms : f # Nil
  /\ \A n \in RateIds : n # Nil
  /\ \A q \in Requests : q # Nil
BY NilAssumption

\* The rows of the tables and of transactions.
LEMMA RowsTyped ==
  ASSUME TariffTypeOK
  PROVE  /\ \A t \in TariffIds : tariff[t] # Nil =>
              tariff[t] \in Book!Tariffs /\ tariff[t].key \in Keys /\ tariff[t].is_current \in BOOLEAN
                /\ tariff[t].price \in Nat
         /\ \A w \in Users, t \in TariffIds : t \in Held(w) =>
              wTariff[w][t] \in Book!Tariffs /\ wTariff[w][t].key \in Keys
                /\ wTariff[w][t].is_current \in BOOLEAN
         /\ \A n \in RateIds : rates[n] # Nil => rates[n] \in Book!Rates /\ rates[n].rate_to_eur \in RateValues
         /\ \A u \in Users : forms[u] # Nil => forms[u] \in Book!OpenForms
BY DEF TariffTypeOK, Book!TypeOK, Book!Tariffs, Book!Rates, Held

LEMMA QueuedType ==
  ASSUME TariffTypeOK, NEW w \in Users
  PROVE  /\ queue[w] \in Seq(Jobs) /\ Queued(w) \subseteq TariffIds
         /\ queue[w] # <<>> => /\ Head(queue[w]).tariff \in TariffIds /\ Head(queue[w]).price \in Nat
                              /\ Head(queue[w]) = queue[w][1] /\ 1 \in 1 .. Len(queue[w])
<1>1. queue[w] \in Seq(Jobs)
  BY DEF TariffTypeOK
<1>2. \A i \in 1 .. Len(queue[w]) : queue[w][i] \in Jobs
  BY <1>1
<1>3. queue[w] # <<>> => Head(queue[w]) = queue[w][1] /\ 1 \in 1 .. Len(queue[w])
  BY <1>1
<1> QED
  BY <1>1, <1>2, <1>3 DEF Queued, Jobs

\* Outdating forms keeps their type, their tariff and what they show.
LEMMA OutdatedForms ==
  ASSUME TariffTypeOK, NEW ts
  PROVE  /\ Book!Outdated(ts) \in [Users -> Book!OpenForms \cup {Nil}]
         /\ \A u \in Users : (Book!Outdated(ts)[u] = Nil) <=> (forms[u] = Nil)
         /\ \A u \in Users : forms[u] # Nil =>
              /\ forms[u].tariff \in TariffIds
              /\ Book!Outdated(ts)[u].tariff = forms[u].tariff
              /\ Book!Outdated(ts)[u].shown = forms[u].shown
              /\ Book!Outdated(ts)[u].fresh => forms[u].fresh /\ forms[u].tariff \notin ts
              /\ forms[u].fresh /\ forms[u].tariff \notin ts => Book!Outdated(ts)[u].fresh
<1> DEFINE old(u) == [forms[u] EXCEPT !.fresh = FALSE]
<1>1. \A u \in Users : Book!Outdated(ts)[u] =
         IF forms[u] # Nil /\ forms[u].tariff \in ts THEN old(u) ELSE forms[u]
  BY DEF Book!Outdated
<1>2. \A u \in Users : forms[u] # Nil =>
        /\ forms[u] \in Book!OpenForms /\ old(u) \in Book!OpenForms /\ old(u) # Nil
        /\ forms[u].tariff \in TariffIds
        /\ old(u).tariff = forms[u].tariff /\ old(u).shown = forms[u].shown /\ ~old(u).fresh
  BY NotNil, RowsTyped DEF Book!OpenForms
<1> HIDE DEF old
<1>3. Book!Outdated(ts) \in [Users -> Book!OpenForms \cup {Nil}]
  <2>1. \A u \in Users : Book!Outdated(ts)[u] \in Book!OpenForms \cup {Nil}
    BY <1>1, <1>2
  <2>2. Book!Outdated(ts) = [u \in Users |-> Book!Outdated(ts)[u]]
    BY DEF Book!Outdated
  <2> QED
    BY <2>1, <2>2
<1> QED
  BY <1>1, <1>2, <1>3

\* The latest rate of a currency that has rates is one of them.
LEMMA LatestRateIsRate ==
  ASSUME LatestExists, NEW c \in Currencies, Book!RatesOf(c) # {}
  PROVE  Book!LatestRate(c) \in RateIds /\ rates[Book!LatestRate(c)] # Nil
<1>1. \E n \in Book!RatesOf(c) : \A m \in Book!RatesOf(c) : m <= n
  BY DEF LatestExists
<1>2. Book!LatestRate(c) \in Book!RatesOf(c)
  BY <1>1 DEF Book!LatestRate
<1> QED
  BY <1>2 DEF Book!RatesOf

--------------------------------------------------------------------------------
(* Steps of one worker.                                                    *)

\* Nothing of the other workers changes.
Others(w) ==
    \A v \in Users \ {w} :
        /\ stmt'[v] = stmt[v] /\ asked'[v] = asked[v] /\ stamp'[v] = stamp[v]
        /\ rateRead'[v] = rateRead[v] /\ queue'[v] = queue[v] /\ wTariff'[v] = wTariff[v]

\* What the steps of others leave of the tables for a worker.
TablesKeep(v) ==
    /\ \A t \in TariffIds : tariff[t] # Nil =>
          tariff'[t] # Nil /\ tariff'[t].key = tariff[t].key
    /\ \A t \in Held(v) : tariff'[t] = tariff[t]
    /\ \A n \in RateIds : rates[n] # Nil => rates'[n] # Nil
    /\ forms'[v] = Nil <=> forms[v] = Nil
    /\ forms[v] # Nil =>
          /\ forms'[v].tariff = forms[v].tariff /\ forms'[v].shown = forms[v].shown
          /\ forms'[v].fresh => forms[v].fresh /\ tariff'[forms[v].tariff] = tariff[forms[v].tariff]
          /\ forms[v].fresh /\ forms[v].tariff \in Held(v) => forms'[v].fresh

LEMMA OtherStays ==
  ASSUME TariffTypeOK, NEW w \in Users, NEW v \in Users \ {w}, WorkerOK(v), Others(w),
         TablesKeep(v), EntryAlone(v)'
  PROVE  WorkerOK(v)'
<1>1. /\ stmt'[v] = stmt[v] /\ asked'[v] = asked[v] /\ stamp'[v] = stamp[v]
      /\ rateRead'[v] = rateRead[v] /\ queue'[v] = queue[v] /\ wTariff'[v] = wTariff[v]
  BY DEF Others
<1>2. Held(v)' = Held(v) /\ Queued(v)' = Queued(v) /\ Held(v) \subseteq TariffIds
  BY <1>1 DEF Held, Queued
<1>0. Queued(v) \subseteq TariffIds /\ (queue[v] # <<>> => Head(queue[v]).tariff \in TariffIds)
  BY QueuedType
<1>3. CASE stmt[v] = "idle"
  BY <1>1, <1>2, <1>3 DEF WorkerOK, Resting, TablesKeep
<1>4. CASE stmt[v] # "idle"
  <2>1. /\ StepFits(v) /\ RateKnown(v) /\ FormTrue(v) /\ RowsKeep(v) /\ RowsFew(v)
        /\ OffKnown(v) /\ Ordered(v)
    BY <1>4 DEF WorkerOK
  <2>2. StepFits(v)'
    BY <1>1, <2>1 DEF StepFits
  <2>3. RateKnown(v)'
    BY <1>1, <2>1 DEF RateKnown, TablesKeep
  <2>4. asked[v].op \in {"create", "edit", "upsert", "import"}
        /\ (asked[v].op = "edit" => asked[v].tariff \in TariffIds)
    BY <2>1, RequestFields DEF StepFits
  <2>5. FormTrue(v)'
    <3>1. CASE asked[v].op # "edit"
      BY <1>1, <2>1, <3>1 DEF FormTrue, TablesKeep
    <3>2. CASE asked[v].op = "edit"
      <4>1. forms[v] # Nil /\ forms'[v] # Nil /\ forms'[v].tariff = asked[v].tariff
            /\ tariff'[asked[v].tariff] # Nil
        BY <2>1, <2>4, <3>2 DEF FormTrue, TablesKeep
      <4>2. forms'[v].fresh => forms'[v].shown = Book!Display(tariff'[asked[v].tariff])
        BY <2>1, <4>1, <3>2 DEF FormTrue, TablesKeep
      <4>3. ASSUME stmt[v] \in {"editIndex", "commit"}
            PROVE  forms'[v].fresh
        <5>1. forms[v].fresh /\ forms[v].tariff \in Held(v)
          BY <2>1, <3>2, <4>1, <4>3 DEF FormTrue, RowsFew
        <5> QED
          BY <4>1, <5>1 DEF TablesKeep
      <4> QED
        BY <1>1, <3>2, <4>1, <4>2, <4>3 DEF FormTrue, Book!Display
    <3> QED
      BY <3>1, <3>2
  <2>6. RowsKeep(v)'
    BY <1>1, <1>2, <2>1 DEF RowsKeep, TablesKeep, Book!Terms
  <2>7. RowsFew(v)'
    BY <1>1, <1>2, <2>1 DEF RowsFew, TablesKeep, StepFits, EditSteps
  <2>8. OffKnown(v)'
    BY <1>0, <1>1, <1>2, <2>1 DEF OffKnown, TablesKeep
  <2>9. Ordered(v)'
    <3>1. \A t \in Held(v) \cup Queued(v) : t \in TariffIds
      BY <1>0, <1>2
    <3>2. asked[v].op = "upsert" => \A t \in Held(v) \cup Queued(v) :
             tariff[t] # Nil /\ tariff'[t] # Nil /\ tariff'[t].key = tariff[t].key
      BY <2>1, <3>1 DEF Ordered, RowsKeep, TablesKeep
    <3> QED
      BY <1>1, <1>2, <2>1, <3>2 DEF Ordered
  <2> QED
    BY <1>1, <1>4, <2>2, <2>3, <2>5, <2>6, <2>7, <2>8, <2>9 DEF WorkerOK
<1> QED
  BY <1>3, <1>4

LEMMA StampsKept ==
  ASSUME SessionsInv, NEW w \in Users, UNCHANGED rates, Others(w), stamp'[w] \in {stamp[w], Nil}
  PROVE  StampsNew'
BY DEF SessionsInv, StampsNew, Others

\* A statement changes no committed row: the invariant has to be shown of the
\* worker that executes it.
LEMMA LocalStep ==
  ASSUME SessionsInv, TariffTypeOK', NEW w \in Users, UNCHANGED <<tariff, rates, logged>>,
         Others(w), \A v \in Users \ {w} : forms'[v] = forms[v],
         StampsNew', WorkerOK(w)', \A v \in Users \ {w} : Apart(v, w)'
  PROVE  SessionsInv'
<1>1. TariffTypeOK /\ (\A v \in Users : WorkerOK(v)) /\ RowsApart
  BY DEF SessionsInv, WorkersInv
<1>2. \A v \in Users \ {w} : WorkerOK(v)'
  <2> SUFFICES ASSUME NEW v \in Users \ {w}
               PROVE  WorkerOK(v)'
    OBVIOUS
  <2>1. WorkerOK(v) /\ Held(v)' = Held(v) /\ Held(v) \subseteq TariffIds
    BY <1>1 DEF Others, Held
  <2>2. CASE stmt[v] = "idle"
    BY <2>1, <2>2 DEF WorkerOK, Resting, Others, Held
  <2>3. CASE stmt[v] # "idle"
    <3>1. TablesKeep(v)
      <4>1. forms[v] # Nil => forms'[v] # Nil /\ forms'[v].tariff = forms[v].tariff
        OBVIOUS
      <4> QED
        BY <2>1, <4>1 DEF TablesKeep
    <3>2. EntryAlone(v)'
      BY <2>1, <2>3 DEF WorkerOK, EntryAlone, InIndex, Others, Book!CurrentOf, Book!TariffsOf
    <3> QED
      BY <1>1, <2>1, <3>1, <3>2, OtherStays
  <2> QED
    BY <2>2, <2>3
<1>3. \A u, v \in Users \ {w} : u # v => Apart(u, v)'
  BY <1>1 DEF RowsApart, Apart, Others, InIndex, Held
<1>4. \A v \in Users \ {w} : Apart(w, v)'
  BY DEF Apart
<1>5. RowsApart'
  BY <1>3, <1>4 DEF RowsApart
<1>6. (LatestExists /\ CurrentUnique /\ HistoryFollows)'
  BY DEF SessionsInv, LatestExists, Book!RatesOf, CurrentUnique, Book!CurrentUnique,
     HistoryFollows, Book!HistoryFollows, Book!Terms
<1> QED
  BY <1>2, <1>5, <1>6 DEF SessionsInv, WorkersInv

\* A step that writes no row.
LEMMA ReadingStep ==
  ASSUME SessionsInv, TariffTypeOK', NEW w \in Users, UNCHANGED <<tariff, rates, logged>>,
         Others(w), \A v \in Users \ {w} : forms'[v] = forms[v],
         wTariff'[w] = wTariff[w], stmt[w] # "editIndex", StampsNew', WorkerOK(w)'
  PROVE  SessionsInv'
<1>1. \A v \in Users \ {w} : Apart(v, w)'
  BY DEF SessionsInv, WorkersInv, RowsApart, Apart, Others, InIndex, Held
<1> QED
  BY <1>1, LocalStep

\* The end of a transaction that is not committed.
LEMMA RollBackInv ==
  ASSUME SessionsInv, NEW w \in Users, RollBack(w)
  PROVE  SessionsInv'
<1>1. TariffTypeOK
  BY DEF SessionsInv, WorkersInv
<1>2. "idle" \in Statements /\ <<>> \in Seq(Jobs) /\ NoRows \in [TariffIds -> Book!Tariffs \cup {Nil}]
  BY DEF Statements, NoRows
<1>3. TariffTypeOK'
  BY <1>1, <1>2 DEF RollBack, Forget, TariffTypeOK, Book!TypeOK
<1>4. Others(w) /\ \A v \in Users \ {w} : forms'[v] = forms[v]
  BY <1>1 DEF RollBack, Forget, TariffTypeOK, Book!TypeOK, Others
<1>5. stmt'[w] = "idle" /\ Resting(w)'
  BY <1>1 DEF RollBack, Forget, TariffTypeOK, Book!TypeOK, Resting, Held, NoRows
<1>6. WorkerOK(w)' /\ \A v \in Users \ {w} : Apart(v, w)'
  BY <1>5 DEF WorkerOK, Resting, Apart, InIndex
<1>7. StampsNew'
  BY <1>4, <1>5, StampsKept DEF RollBack, Resting
<1> QED
  BY <1>3, <1>4, <1>6, <1>7, LocalStep DEF RollBack

LEMMA BeginInv ==
  ASSUME SessionsInv, NEW w \in Users, BeginRequest(w)
  PROVE  SessionsInv'
<1>1. TariffTypeOK /\ Resting(w) /\ stmt[w] = "idle"
  BY DEF SessionsInv, WorkersInv, WorkerOK, BeginRequest
<1>2. PICK q \in Posted(w) :
        /\ asked' = [asked EXCEPT ![w] = q]
        /\ stmt' = [stmt EXCEPT ![w] = FirstStep[q.op]]
        /\ IF q.op = "edit" THEN Book!OpenForm(w, q.tariff) ELSE UNCHANGED tables
        /\ IF q.op = "upsert" THEN \E n \in NextStamp : stamp' = [stamp EXCEPT ![w] = n]
                              ELSE UNCHANGED stamp
  BY DEF BeginRequest
<1>3. q \in Requests /\ q.op \in {"create", "edit", "upsert", "import"}
      /\ (q.op = "edit" => q.tariff \in TariffIds /\ tariff[q.tariff] # Nil)
  <2>1. q \in Requests /\ (q.op = "edit" => tariff[q.tariff] # Nil)
    BY DEF Posted
  <2> QED
    BY <2>1, RequestFields
<1>4. FirstStep[q.op] = CASE q.op \in {"create", "edit"} -> "rate" [] q.op = "upsert" -> "select"
                          [] q.op = "import" -> "exists"
  BY <1>3 DEF FirstStep
<1>5. FirstStep[q.op] \in Statements \ {"idle"}
  BY <1>3, <1>4 DEF Statements
<1>6. /\ UNCHANGED <<tariff, rates, logged, rateRead, queue, wTariff>>
      /\ stamp' \in [Users -> RateIds \cup {Nil}]
      /\ \A v \in Users \ {w} : stamp'[v] = stamp[v] /\ forms'[v] = forms[v]
      /\ stamp'[w] \in IF q.op = "upsert" THEN RateIds ELSE {Nil}
      /\ StampsNew'
      /\ q.op # "edit" => forms'[w] = Nil
      /\ forms' \in [Users -> Book!OpenForms \cup {Nil}]
      /\ q.op = "edit" => forms'[w] = [tariff |-> q.tariff, shown |-> Book!Display(tariff[q.tariff]),
                                       fresh |-> TRUE]
  <2>1. UNCHANGED <<tariff, rates, logged, rateRead, queue, wTariff>>
    BY <1>2 DEF BeginRequest, tables, Book!OpenForm
  <2>2. /\ stamp' \in [Users -> RateIds \cup {Nil}]
        /\ \A v \in Users \ {w} : stamp'[v] = stamp[v]
        /\ stamp'[w] \in IF q.op = "upsert" THEN RateIds ELSE {Nil}
        /\ StampsNew'
    <3>1. \A n \in NextStamp : n \in RateIds /\ rates[n] = Nil /\ \A v \in Users : stamp[v] # n
      <4> SUFFICES ASSUME NEW n \in NextStamp
                   PROVE  n \in RateIds /\ rates[n] = Nil /\ \A v \in Users : stamp[v] # n
        OBVIOUS
      <4> DEFINE taken == {m \in RateIds : rates[m] # Nil} \cup {stamp[v] : v \in Users}
      <4>1. n \in RateIds /\ \A m \in taken \ {Nil} : m < n
        BY DEF NextStamp
      <4>2. ~(n < n) /\ n # Nil
        BY <4>1, MoneyAssumption, NotNil
      <4>3. n \notin taken
        BY <4>1, <4>2
      <4> QED
        BY <4>1, <4>3
    <3>2. StampsNew /\ stamp[w] = Nil
      BY <1>1 DEF SessionsInv, Resting
    <3>3. CASE q.op = "upsert"
      <4>1. PICK n \in NextStamp : stamp' = [stamp EXCEPT ![w] = n]
        BY <1>2, <3>3
      <4>2. stamp'[w] = n /\ \A v \in Users \ {w} : stamp'[v] = stamp[v]
        BY <1>1, <4>1 DEF TariffTypeOK
      <4>3. StampsNew'
        BY <2>1, <3>1, <3>2, <4>2 DEF StampsNew
      <4> QED
        BY <1>1, <3>1, <3>3, <4>1, <4>2, <4>3 DEF TariffTypeOK
    <3>4. CASE q.op # "upsert"
      BY <1>1, <1>2, <2>1, <3>2, <3>4 DEF TariffTypeOK, StampsNew
    <3> QED
      BY <3>3, <3>4
  <2>3. CASE q.op # "edit"
    BY <1>1, <1>2, <2>1, <2>2, <2>3 DEF tables, Resting, TariffTypeOK, Book!TypeOK
  <2>4. CASE q.op = "edit"
    <3> DEFINE f == [tariff |-> q.tariff, shown |-> Book!Display(tariff[q.tariff]), fresh |-> TRUE]
    <3>1. f \in Book!OpenForms
      BY <1>1, <1>3, <2>4, RowsTyped, TermsType DEF Book!OpenForms
    <3>2. forms' = [forms EXCEPT ![w] = f]
      BY <1>2, <2>4 DEF Book!OpenForm
    <3> HIDE DEF f
    <3>3. forms' \in [Users -> Book!OpenForms \cup {Nil}] /\ forms'[w] = f
          /\ \A v \in Users \ {w} : forms'[v] = forms[v]
      BY <1>1, <3>1, <3>2 DEF TariffTypeOK, Book!TypeOK
    <3> QED
      BY <2>1, <2>2, <2>4, <3>3 DEF f
  <2> QED
    BY <2>3, <2>4
<1>7. TariffTypeOK'
  BY <1>1, <1>2, <1>3, <1>5, <1>6 DEF TariffTypeOK, Book!TypeOK
<1>8. Others(w) /\ asked'[w] = q /\ stmt'[w] = FirstStep[q.op] /\ Held(w)' = {} /\ queue'[w] = <<>>
  BY <1>1, <1>2, <1>6 DEF TariffTypeOK, Others, Resting, Held
<1>9. WorkerOK(w)'
  <2>1. StepFits(w)' /\ RateKnown(w)'
    BY <1>3, <1>4, <1>6, <1>8 DEF StepFits, RateKnown, EditSteps, OffSteps
  <2>2. FormTrue(w)'
    <3>1. CASE q.op # "edit"
      BY <1>6, <1>8, <3>1 DEF FormTrue
    <3>2. CASE q.op = "edit"
      <4>1. forms'[w] # Nil
        BY <1>3, <1>7, <1>6, <3>2, RowsTyped, TermsType, <1>1, NotNil DEF Book!OpenForms
      <4>2. stmt'[w] = "rate"
        BY <1>4, <1>8, <3>2
      <4> QED
        BY <1>3, <1>6, <1>8, <3>2, <4>1, <4>2 DEF FormTrue, Book!Display
    <3> QED
      BY <3>1, <3>2
  <2>3. RowsKeep(w)' /\ EntryAlone(w)'
    BY <1>8 DEF RowsKeep, EntryAlone, InIndex
  <2>4. RowsFew(w)' /\ OffKnown(w)'
    BY <1>3, <1>4, <1>8 DEF RowsFew, OffKnown, OffSteps
  <2>5. Ordered(w)'
    BY <1>8 DEF Ordered, Queued
  <2> QED
    BY <1>5, <1>8, <2>1, <2>2, <2>3, <2>4, <2>5 DEF WorkerOK
<1> QED
  BY <1>1, <1>6, <1>7, <1>8, <1>9, ReadingStep

\* What a statement leaves behind that goes on with the transaction.
Moved(w, step, r, jobs, rows) ==
    /\ UNCHANGED tables
    /\ stmt'[w] = step /\ asked'[w] = asked[w] /\ stamp'[w] = stamp[w]
    /\ rateRead'[w] = r /\ queue'[w] = jobs /\ wTariff'[w] = rows

LEMMA ProceedEffect ==
  ASSUME TariffTypeOK, NEW w \in Users, NEW step \in Statements, Proceed(w, step),
         NEW r \in RateIds \cup {Nil}, rateRead' = [rateRead EXCEPT ![w] = r],
         NEW jobs \in Seq(Jobs), queue' = [queue EXCEPT ![w] = jobs],
         NEW rows \in [TariffIds -> Book!Tariffs \cup {Nil}], wTariff' = [wTariff EXCEPT ![w] = rows]
  PROVE  TariffTypeOK' /\ Others(w) /\ Moved(w, step, r, jobs, rows)
<1>1. TariffTypeOK'
  BY DEF Proceed, tables, TariffTypeOK, Book!TypeOK
<1>2. Others(w)
  BY DEF Proceed, TariffTypeOK, Others
<1> QED
  BY <1>1, <1>2 DEF Proceed, TariffTypeOK, Moved

\* A component that a statement does not change.
LEMMA Unchanged ==
  ASSUME TariffTypeOK, NEW w \in Users
  PROVE  /\ rateRead[w] \in RateIds \cup {Nil} /\ rateRead = [rateRead EXCEPT ![w] = rateRead[w]]
         /\ queue[w] \in Seq(Jobs) /\ queue = [queue EXCEPT ![w] = queue[w]]
         /\ wTariff[w] \in [TariffIds -> Book!Tariffs \cup {Nil}]
         /\ wTariff = [wTariff EXCEPT ![w] = wTariff[w]]
BY DEF TariffTypeOK

LEMMA MoveEffect ==
  ASSUME TariffTypeOK, NEW w \in Users, NEW step \in Statements, Proceed(w, step),
         UNCHANGED <<rateRead, queue, wTariff>>
  PROVE  TariffTypeOK' /\ Others(w) /\ Moved(w, step, rateRead[w], queue[w], wTariff[w])
BY Unchanged, ProceedEffect

\* What an active worker has of the invariant.
LEMMA ActiveWorker ==
  ASSUME SessionsInv, NEW w \in Users, stmt[w] # "idle"
  PROVE  /\ TariffTypeOK /\ StepFits(w) /\ RateKnown(w) /\ FormTrue(w) /\ RowsKeep(w)
         /\ RowsFew(w) /\ OffKnown(w) /\ Ordered(w) /\ EntryAlone(w)
         /\ asked[w].op \in {"create", "edit", "upsert", "import"}
BY RequestFields DEF SessionsInv, WorkersInv, WorkerOK, StepFits

\* A statement that only reads, before anything is written.
LEMMA MoveInv ==
  ASSUME SessionsInv, NEW w \in Users, stmt[w] # "idle", stmt[w] # "editIndex",
         NEW step \in Statements \ {"idle"}, NEW r, NEW jobs,
         TariffTypeOK', Others(w), Moved(w, step, r, jobs, wTariff[w]),
         StepFits(w)', RateKnown(w)', FormTrue(w)', RowsKeep(w)', RowsFew(w)', OffKnown(w)',
         Ordered(w)'
  PROVE  SessionsInv'
<1>1. EntryAlone(w)'
  BY ActiveWorker DEF Moved, EntryAlone, InIndex, Held, tables, Book!CurrentOf, Book!TariffsOf
<1>2. WorkerOK(w)'
  BY <1>1 DEF WorkerOK, Moved
<1>3. StampsNew'
  BY StampsKept DEF Moved, tables
<1> QED
  BY <1>2, <1>3, ReadingStep DEF Moved, tables

LEMMA ReadRateInv ==
  ASSUME SessionsInv, NEW w \in Users, ReadRate(w)
  PROVE  SessionsInv'
<1>1. CASE Book!RatesOf(asked[w].currency) = {}
  BY <1>1, RollBackInv DEF ReadRate
<1>2. CASE Book!RatesOf(asked[w].currency) # {}
  <2> DEFINE step == IF asked[w].op = "create" THEN "duplicate" ELSE "editRead"
             r == Book!LatestRate(asked[w].currency)
  <2>1. /\ stmt[w] = "rate" /\ Proceed(w, step) /\ rateRead' = [rateRead EXCEPT ![w] = r]
        /\ UNCHANGED <<queue, wTariff>>
    BY <1>2 DEF ReadRate
  <2>2. /\ TariffTypeOK /\ StepFits(w) /\ FormTrue(w) /\ RowsKeep(w)
        /\ asked[w].op \in {"create", "edit"} /\ Held(w) = {} /\ asked[w].currency \in Currencies
    BY <2>1, ActiveWorker, RequestFields DEF StepFits, RowsKeep, WritingSteps
  <2>3. r \in RateIds /\ rates[r] # Nil
    BY <1>2, <2>2, LatestRateIsRate DEF SessionsInv
  <2>4. step \in Statements \ {"idle"}
    BY DEF Statements
  <2> HIDE DEF r
  <2>5. TariffTypeOK' /\ Others(w) /\ Moved(w, step, r, queue[w], wTariff[w])
    BY <2>1, <2>2, <2>3, <2>4, Unchanged, ProceedEffect
  <2>6. StepFits(w)' /\ RateKnown(w)'
    BY <2>2, <2>3, <2>5 DEF Moved, StepFits, RateKnown, EditSteps, OffSteps, tables
  <2>7. FormTrue(w)' /\ RowsKeep(w)'
    BY <2>2, <2>5 DEF Moved, FormTrue, RowsKeep, tables, Held, Book!Display
  <2>8. RowsFew(w)' /\ OffKnown(w)' /\ Ordered(w)'
    BY <2>2, <2>5 DEF Moved, RowsFew, OffKnown, OffSteps, Ordered, tables, Held
  <2> QED
    BY <2>1, <2>4, <2>5, <2>6, <2>7, <2>8, MoveInv
<1> QED
  BY <1>1, <1>2

LEMMA FindDuplicateInv ==
  ASSUME SessionsInv, NEW w \in Users, FindDuplicate(w)
  PROVE  SessionsInv'
<1>1. CASE Book!FindByIdentity(asked[w].key) # {} /\ asked[w].op = "create"
  BY <1>1, RollBackInv DEF FindDuplicate
<1>2. CASE ~(Book!FindByIdentity(asked[w].key) # {} /\ asked[w].op = "create")
  <2> DEFINE step == IF Book!FindByIdentity(asked[w].key) = {} THEN "insert" ELSE "commit"
  <2>1. stmt[w] = "duplicate" /\ Proceed(w, step) /\ UNCHANGED <<rateRead, queue, wTariff>>
    BY <1>2 DEF FindDuplicate
  <2>2. /\ TariffTypeOK /\ StepFits(w) /\ RateKnown(w) /\ FormTrue(w) /\ RowsKeep(w) /\ RowsFew(w)
        /\ asked[w].op \in {"create", "import"}
    BY <2>1, ActiveWorker DEF StepFits
  <2>3. step \in Statements \ {"idle"}
    BY DEF Statements
  <2>4. TariffTypeOK' /\ Others(w) /\ Moved(w, step, rateRead[w], queue[w], wTariff[w])
    BY <2>1, <2>2, <2>3, MoveEffect
  <2>5. Held(w)' = Held(w) /\ Held(w) \subseteq TariffIds
    BY <2>4 DEF Moved, Held
  <2>6. \A t \in Held(w) :
           /\ asked[w].op = "import" /\ tariff[t] # Nil
           /\ step = "insert" => tariff[t].key # asked[w].key
    <3> SUFFICES ASSUME NEW t \in Held(w)
                 PROVE  /\ asked[w].op = "import" /\ tariff[t] # Nil
                        /\ step = "insert" => tariff[t].key # asked[w].key
      OBVIOUS
    <3>1. asked[w].op = "import" /\ tariff[t] # Nil /\ t \in TariffIds
      BY <2>1, <2>2, <2>5 DEF RowsKeep
    <3>2. tariff[t].key = asked[w].key => t \in Book!FindByIdentity(asked[w].key)
      BY <3>1 DEF Book!FindByIdentity, Book!TariffsOf
    <3> QED
      BY <3>1, <3>2
  <2>7. step = "commit" => asked[w].op = "import"
    BY <1>2, <2>2
  <2>8. StepFits(w)' /\ RateKnown(w)'
    BY <2>1, <2>2, <2>4, <2>7 DEF Moved, StepFits, RateKnown, EditSteps, OffSteps, tables
  <2>9. FormTrue(w)'
    BY <2>2, <2>4, <2>7 DEF Moved, FormTrue, tables, Book!Display
  <2>10. RowsKeep(w)'
    <3>1. step \in {"insert", "commit"}
      OBVIOUS
    <3> HIDE DEF step
    <3>2. /\ tariff' = tariff /\ stmt'[w] = step /\ asked'[w] = asked[w] /\ wTariff'[w] = wTariff[w]
      BY <2>4 DEF Moved, tables
    <3>3. \A t \in Held(w) :
             /\ wTariff[w][t].key = tariff[t].key /\ ~wTariff[w][t].is_current
             /\ Book!Terms(wTariff[w][t]) = Book!Terms(tariff[t])
      BY <2>2, <2>6 DEF RowsKeep
    <3> QED
      BY <2>5, <2>6, <3>1, <3>2, <3>3 DEF RowsKeep, RowSteps, Book!Terms
  <2>11. RowsFew(w)' /\ OffKnown(w)' /\ Ordered(w)'
    BY <2>2, <2>4, <2>5, <2>7 DEF Moved, RowsFew, OffKnown, OffSteps, Ordered, tables
  <2> QED
    BY <2>1, <2>3, <2>4, <2>8, <2>9, <2>10, <2>11, MoveInv
<1> QED
  BY <1>1, <1>2

LEMMA OffReadInv ==
  ASSUME SessionsInv, NEW w \in Users, OffRead(w)
  PROVE  SessionsInv'
<1>1. CASE ~tariff[Head(queue[w]).tariff].is_current
  BY <1>1, RollBackInv DEF OffRead
<1>2. CASE tariff[Head(queue[w]).tariff].is_current
  <2>1. stmt[w] = "offRead" /\ Proceed(w, "offWrite") /\ UNCHANGED <<rateRead, queue, wTariff>>
    BY <1>2 DEF OffRead
  <2>2. /\ TariffTypeOK /\ StepFits(w) /\ FormTrue(w) /\ RowsKeep(w) /\ OffKnown(w)
        /\ asked[w].op = "create" /\ Held(w) = {}
    BY <2>1, ActiveWorker DEF StepFits, OffSteps, RowsKeep, WritingSteps
  <2>3. "offWrite" \in Statements \ {"idle"}
    BY DEF Statements
  <2>4. TariffTypeOK' /\ Others(w) /\ Moved(w, "offWrite", rateRead[w], queue[w], wTariff[w])
    BY <2>1, <2>2, <2>3, MoveEffect
  <2>5. Held(w)' = {}
    BY <2>2, <2>4 DEF Moved, Held
  <2>6. StepFits(w)' /\ RateKnown(w)' /\ FormTrue(w)'
    BY <2>2, <2>4 DEF Moved, StepFits, RateKnown, EditSteps, OffSteps, FormTrue, tables
  <2>7. RowsKeep(w)' /\ RowsFew(w)' /\ Ordered(w)'
    BY <2>2, <2>4, <2>5 DEF Moved, RowsKeep, RowsFew, Ordered, tables
  <2>8. OffKnown(w)'
    BY <2>1, <2>2, <2>4 DEF Moved, OffKnown, OffSteps, tables
  <2> QED
    BY <2>1, <2>3, <2>4, <2>6, <2>7, <2>8, MoveInv
<1> QED
  BY <1>1, <1>2

LEMMA EditReadInv ==
  ASSUME SessionsInv, NEW w \in Users, EditRead(w)
  PROVE  SessionsInv'
<1>1. CASE RollBack(w)
  BY <1>1, RollBackInv
<1>2. CASE ~RollBack(w)
  <2>1. stmt[w] = "editRead" /\ Proceed(w, "editWrite") /\ UNCHANGED <<rateRead, queue, wTariff>>
    BY <1>2 DEF EditRead
  <2>2. /\ TariffTypeOK /\ StepFits(w) /\ RateKnown(w) /\ FormTrue(w) /\ RowsKeep(w)
        /\ asked[w].op = "edit" /\ Held(w) = {}
    BY <2>1, ActiveWorker DEF StepFits, EditSteps, RowsKeep, WritingSteps
  <2>3. "editWrite" \in Statements \ {"idle"}
    BY DEF Statements
  <2>4. TariffTypeOK' /\ Others(w) /\ Moved(w, "editWrite", rateRead[w], queue[w], wTariff[w])
    BY <2>1, <2>2, <2>3, MoveEffect
  <2>5. Held(w)' = {}
    BY <2>2, <2>4 DEF Moved, Held
  <2>6. StepFits(w)' /\ RateKnown(w)' /\ FormTrue(w)'
    BY <2>1, <2>2, <2>4 DEF Moved, StepFits, RateKnown, EditSteps, OffSteps, FormTrue, tables,
       Book!Display
  <2>7. RowsKeep(w)' /\ RowsFew(w)' /\ Ordered(w)' /\ OffKnown(w)'
    BY <2>2, <2>4, <2>5 DEF Moved, RowsKeep, RowsFew, Ordered, OffKnown, OffSteps, tables
  <2> QED
    BY <2>1, <2>3, <2>4, <2>6, <2>7, MoveInv
<1> QED
  BY <1>1, <1>2

LEMMA ImportExistsInv ==
  ASSUME SessionsInv, NEW w \in Users, ImportExists(w)
  PROVE  SessionsInv'
<1> DEFINE step == IF Book!CurrentOf(asked[w].key) # {} THEN "close" ELSE "duplicate"
<1>1. stmt[w] = "exists" /\ Proceed(w, step) /\ UNCHANGED <<rateRead, queue, wTariff>>
  BY DEF ImportExists
<1>2. /\ TariffTypeOK /\ StepFits(w) /\ FormTrue(w) /\ RowsKeep(w) /\ RowsFew(w)
      /\ asked[w].op = "import"
  BY <1>1, ActiveWorker DEF StepFits
<1>3. step \in Statements \ {"idle"} /\ step \in {"close", "duplicate"}
  BY DEF Statements
<1> HIDE DEF step
<1>4. TariffTypeOK' /\ Others(w) /\ Moved(w, step, rateRead[w], queue[w], wTariff[w])
  BY <1>1, <1>2, <1>3, MoveEffect
<1>5. Held(w)' = Held(w)
  BY <1>4 DEF Moved, Held
<1>6. StepFits(w)' /\ RateKnown(w)' /\ FormTrue(w)'
  BY <1>2, <1>3, <1>4 DEF Moved, StepFits, RateKnown, EditSteps, OffSteps, FormTrue, tables
<1>7. RowsKeep(w)'
  BY <1>1, <1>2, <1>3, <1>4, <1>5 DEF Moved, RowsKeep, RowSteps, tables, Book!Terms
<1>8. RowsFew(w)' /\ Ordered(w)' /\ OffKnown(w)'
  BY <1>2, <1>3, <1>4, <1>5 DEF Moved, RowsFew, Ordered, OffKnown, OffSteps, tables
<1> QED
  BY <1>1, <1>3, <1>4, <1>6, <1>7, <1>8, MoveInv

\* The SELECT of a recalculation lists tariffs that are in force together.
LEMMA SelectInv ==
  ASSUME SessionsInv, NEW w \in Users, SelectTariffs(w)
  PROVE  SessionsInv'
<1>1. PICK ids \in Orders(Book!RateUsers(asked[w].currency)) :
        /\ \A i, j \in DOMAIN ids : i < j => ids[i] < ids[j]
        /\ queue' = [queue EXCEPT ![w] = WithPrices(ids)]
  BY DEF SelectTariffs
<1>2. /\ stmt[w] = "select" /\ Proceed(w, "recalculate") /\ UNCHANGED <<rateRead, wTariff>>
  BY DEF SelectTariffs
<1>3. /\ TariffTypeOK /\ StepFits(w) /\ FormTrue(w) /\ RowsKeep(w)
      /\ asked[w].op = "upsert" /\ Held(w) = {}
  BY <1>2, ActiveWorker DEF StepFits, RowsKeep, WritingSteps
<1> DEFINE users == Book!RateUsers(asked[w].currency)
           jobs == WithPrices(ids)
<1>4. /\ users \subseteq TariffIds
      /\ \A t \in users : tariff[t] # Nil /\ tariff[t].is_current /\ tariff[t].price \in Nat
  BY <1>3, RowsTyped DEF Book!RateUsers
<1>5. ids \in Seq(users) /\ DOMAIN ids = 1 .. Len(ids)
  <2>1. IsFiniteSet(users)
    BY <1>4, TariffIdsAssumption, FS_Subset
  <2>2. Cardinality(users) \in Nat
    BY <2>1, FS_CardinalityType
  <2>3. ids \in [1 .. Cardinality(users) -> users]
    BY DEF Orders
  <2> QED
    BY <2>2, <2>3
<1> HIDE DEF users
<1>6. /\ jobs \in Seq(Jobs) /\ Len(jobs) = Len(ids)
      /\ \A i \in 1 .. Len(jobs) : jobs[i].tariff = ids[i] /\ ids[i] \in users
  <2>1. \A i \in 1 .. Len(ids) : ids[i] \in users /\ [tariff |-> ids[i], price |-> tariff[ids[i]].price] \in Jobs
    BY <1>4, <1>5 DEF Jobs
  <2>2. jobs = [i \in 1 .. Len(ids) |-> [tariff |-> ids[i], price |-> tariff[ids[i]].price]]
    BY <1>5 DEF WithPrices
  <2>3. Len(ids) \in Nat
    BY <1>5
  <2> HIDE DEF jobs
  <2>4. jobs \in [1 .. Len(ids) -> Jobs]
    BY <2>1, <2>2
  <2>5. jobs \in Seq(Jobs) /\ Len(jobs) = Len(ids)
    BY <2>3, <2>4
  <2> QED
    BY <2>1, <2>2, <2>5
<1>7. "recalculate" \in Statements \ {"idle"}
  BY DEF Statements
<1> HIDE DEF jobs
<1>8. TariffTypeOK' /\ Others(w) /\ Moved(w, "recalculate", rateRead[w], jobs, wTariff[w])
  BY <1>1, <1>2, <1>3, <1>6, <1>7, Unchanged, ProceedEffect DEF jobs
<1>9. Held(w)' = {} /\ Queued(w)' \subseteq users
  BY <1>3, <1>6, <1>8 DEF Moved, Held, Queued
<1>10. StepFits(w)' /\ RateKnown(w)' /\ FormTrue(w)'
  BY <1>3, <1>8 DEF Moved, StepFits, RateKnown, EditSteps, OffSteps, FormTrue, tables
<1>11. RowsKeep(w)' /\ RowsFew(w)' /\ OffKnown(w)'
  BY <1>3, <1>8, <1>9 DEF Moved, RowsKeep, RowsFew, OffKnown, OffSteps, tables
<1>12. Ordered(w)'
  <2>1. \A t \in Queued(w)' : tariff'[t] # Nil
    BY <1>4, <1>8, <1>9 DEF Moved, tables
  <2>2. \A i, j \in 1 .. Len(queue'[w]) : i < j => queue'[w][i].tariff < queue'[w][j].tariff
    <3>1. \A i, j \in 1 .. Len(ids) : i < j => ids[i] < ids[j]
      BY <1>1, <1>5
    <3> QED
      BY <1>6, <1>8, <3>1 DEF Moved
  <2>3. \A s, t \in Queued(w)' : tariff'[s].key = tariff'[t].key => s = t
    BY <1>4, <1>8, <1>9 DEF Moved, tables, SessionsInv, CurrentUnique, Book!CurrentUnique
  <2> QED
    BY <1>9, <2>1, <2>2, <2>3 DEF Ordered
<1> QED
  BY <1>2, <1>7, <1>8, <1>10, <1>11, <1>12, MoveInv

--------------------------------------------------------------------------------
(* Steps that write.                                                       *)

\* The entries of a transaction in the unique index stay alone when the new
\* ones are: no tariff of the key is in force nor about to be.
LEMMA EntryInv ==
  ASSUME SessionsInv, NEW w \in Users, stmt[w] # "idle", Others(w), UNCHANGED tables,
         \A v \in Users \ {w} : Held(v) \cap Held(w)' = {},
         \A t \in TariffIds : InIndex(w, t)' =>
            \/ InIndex(w, t) /\ wTariff'[w][t].key = wTariff[w][t].key
            \/ /\ \A s \in Book!CurrentOf(wTariff'[w][t].key) : s = t
               /\ \A v \in Users \ {w}, s \in TariffIds :
                     InIndex(v, s) => wTariff[v][s].key # wTariff'[w][t].key
  PROVE  EntryAlone(w)' /\ \A v \in Users \ {w} : Apart(v, w)'
<1>1. EntryAlone(w) /\ RowsApart
  BY ActiveWorker DEF SessionsInv, WorkersInv
<1>2. EntryAlone(w)'
  BY <1>1 DEF EntryAlone, tables, Book!CurrentOf, Book!TariffsOf
<1>3. ASSUME NEW v \in Users \ {w}
      PROVE  Apart(v, w)'
  <2>1. stmt'[v] = stmt[v] /\ wTariff'[v] = wTariff[v] /\ Held(v)' = Held(v)
    BY DEF Others, Held
  <2>2. Held(v)' \cap Held(w)' = {}
    BY <2>1
  <2>3. \A s \in TariffIds : InIndex(v, s)' <=> InIndex(v, s)
    BY <2>1 DEF InIndex
  <2>4. \A s, t \in TariffIds : InIndex(v, s) /\ InIndex(w, t)' => wTariff[v][s].key # wTariff'[w][t].key
    BY <1>1 DEF RowsApart, Apart
  <2> QED
    BY <2>1, <2>2, <2>3, <2>4 DEF Apart
<1> QED
  BY <1>2, <1>3

LEMMA WriteInv ==
  ASSUME SessionsInv, NEW w \in Users, NEW step \in Statements \ {"idle"},
         NEW r, NEW jobs, NEW rows,
         TariffTypeOK', Others(w), Moved(w, step, r, jobs, rows),
         StepFits(w)', RateKnown(w)', FormTrue(w)', RowsKeep(w)', RowsFew(w)', OffKnown(w)',
         Ordered(w)', EntryAlone(w)', \A v \in Users \ {w} : Apart(v, w)'
  PROVE  SessionsInv'
<1>1. WorkerOK(w)'
  BY DEF WorkerOK, Moved
<1>2. StampsNew'
  BY StampsKept DEF Moved, tables
<1> QED
  BY <1>1, <1>2, LocalStep DEF Moved, tables

\* A tariff in force whose row nobody else holds has the key for itself.
LEMMA LockedKey ==
  ASSUME SessionsInv, NEW w \in Users, NEW t \in TariffIds, tariff[t] # Nil, tariff[t].is_current,
         \A v \in Users \ {w} : t \notin Held(v)
  PROVE  /\ \A s \in Book!CurrentOf(tariff[t].key) : s = t
         /\ \A v \in Users \ {w}, s \in TariffIds : InIndex(v, s) => wTariff[v][s].key # tariff[t].key
<1>1. t \in Book!CurrentOf(tariff[t].key)
  BY DEF Book!CurrentOf, Book!TariffsOf
<1>2. \A s \in Book!CurrentOf(tariff[t].key) : s = t
  BY DEF SessionsInv, CurrentUnique, Book!CurrentUnique, Book!CurrentOf, Book!TariffsOf
<1>3. ASSUME NEW v \in Users \ {w}, NEW s \in TariffIds, InIndex(v, s), wTariff[v][s].key = tariff[t].key
      PROVE  FALSE
  <2>1. EntryAlone(v) /\ s \in Held(v)
    BY <1>3 DEF SessionsInv, WorkersInv, WorkerOK, Resting, InIndex
  <2>2. t = s
    BY <1>1, <1>3, <2>1 DEF EntryAlone
  <2> QED
    BY <2>1, <2>2
<1> QED
  BY <1>2, <1>3

\* A transaction that writes a row, and what it has written before.
Writing(w, t, row) == [wTariff[w] EXCEPT ![t] = row]

LEMMA WriteEffect ==
  ASSUME TariffTypeOK, NEW w \in Users, NEW t \in TariffIds, NEW row \in Book!Tariffs,
         Write(w, t, row)
  PROVE  /\ wTariff' = [wTariff EXCEPT ![w] = Writing(w, t, row)]
         /\ Writing(w, t, row) \in [TariffIds -> Book!Tariffs \cup {Nil}]
         /\ Writing(w, t, row)[t] = row /\ row # Nil
         /\ \A s \in TariffIds \ {t} : Writing(w, t, row)[s] = wTariff[w][s]
         /\ Held(w)' = Held(w) \cup {t}
BY NotNil DEF TariffTypeOK, Write, Writing, Held

LEMMA WriteRowEffect ==
  ASSUME TariffTypeOK, NEW w \in Users, NEW t \in TariffIds, NEW row \in Book!Tariffs,
         Write(w, t, row), NEW step \in Statements, Proceed(w, step), UNCHANGED rateRead,
         NEW jobs \in Seq(Jobs), queue' = [queue EXCEPT ![w] = jobs]
  PROVE  /\ TariffTypeOK' /\ Others(w) /\ Moved(w, step, rateRead[w], jobs, Writing(w, t, row))
         /\ Held(w)' = Held(w) \cup {t} /\ Writing(w, t, row)[t] = row
         /\ \A s \in TariffIds \ {t} : Writing(w, t, row)[s] = wTariff[w][s]
<1>1. /\ wTariff' = [wTariff EXCEPT ![w] = Writing(w, t, row)]
      /\ Writing(w, t, row) \in [TariffIds -> Book!Tariffs \cup {Nil}]
      /\ Held(w)' = Held(w) \cup {t} /\ Writing(w, t, row)[t] = row
      /\ \A s \in TariffIds \ {t} : Writing(w, t, row)[s] = wTariff[w][s]
  BY WriteEffect
<1>2. rateRead[w] \in RateIds \cup {Nil} /\ rateRead' = [rateRead EXCEPT ![w] = rateRead[w]]
  BY Unchanged
<1> HIDE DEF Writing
<1>3. TariffTypeOK' /\ Others(w) /\ Moved(w, step, rateRead[w], jobs, Writing(w, t, row))
  BY <1>1, <1>2, ProceedEffect
<1> QED
  BY <1>1, <1>3

LEMMA OffWriteInv ==
  ASSUME SessionsInv, NEW w \in Users, OffWrite(w)
  PROVE  SessionsInv'
<1> DEFINE t == Head(queue[w]).tariff
           row == [tariff[t] EXCEPT !.is_current = FALSE]
<1>1. /\ stmt[w] = "offWrite" /\ Unblocked(w) /\ Write(w, t, row)
      /\ Proceed(w, "commit") /\ UNCHANGED <<rateRead, queue>>
  BY DEF OffWrite
<1>2. /\ TariffTypeOK /\ StepFits(w) /\ FormTrue(w) /\ RowsKeep(w) /\ OffKnown(w)
      /\ asked[w].op = "create" /\ Held(w) = {}
  BY <1>1, ActiveWorker DEF StepFits, OffSteps, RowsKeep, WritingSteps
<1>3. queue[w] # <<>> /\ t \in TariffIds /\ tariff[t] # Nil /\ tariff[t] \in Book!Tariffs
  BY <1>1, <1>2, QueuedType, RowsTyped DEF OffKnown, OffSteps
<1>4. \A v \in Users \ {w} : t \notin Held(v)
  BY <1>1, <1>3 DEF Unblocked, BlockedBy, RowLockers
<1>5. row \in Book!Tariffs /\ row.key = tariff[t].key /\ row.is_current = FALSE
  BY <1>3, SwitchedOff
<1> HIDE DEF t, row
<1>6. "commit" \in Statements \ {"idle"}
  BY DEF Statements
<1>7. /\ TariffTypeOK' /\ Others(w)
      /\ Moved(w, "commit", rateRead[w], queue[w], Writing(w, t, row))
      /\ Held(w)' = {t} /\ Writing(w, t, row)[t] = row
  BY <1>1, <1>2, <1>3, <1>5, <1>6, Unchanged, WriteRowEffect
<1>8. StepFits(w)' /\ RateKnown(w)' /\ FormTrue(w)'
  BY <1>2, <1>7 DEF Moved, StepFits, RateKnown, EditSteps, OffSteps, FormTrue, tables
<1>9. RowsKeep(w)' /\ RowsFew(w)' /\ Ordered(w)'
  BY <1>2, <1>3, <1>5, <1>7 DEF Moved, RowsKeep, RowsFew, Ordered, WritingSteps, tables
<1>10. OffKnown(w)'
  BY <1>2, <1>3, <1>7 DEF Moved, OffKnown, OffSteps, tables, t
<1>11. EntryAlone(w)' /\ \A v \in Users \ {w} : Apart(v, w)'
  <2>1. \A v \in Users \ {w} : Held(v) \cap Held(w)' = {}
    BY <1>4, <1>7
  <2>2. \A s \in TariffIds : ~InIndex(w, s)'
    BY <1>5, <1>7 DEF InIndex, Moved
  <2> QED
    BY <1>1, <1>7, <2>1, <2>2, EntryInv DEF Moved
<1> QED
  BY <1>6, <1>7, <1>8, <1>9, <1>10, <1>11, WriteInv

LEMMA InsertInv ==
  ASSUME SessionsInv, NEW w \in Users, InsertTariff(w)
  PROVE  SessionsInv'
<1>1. CASE Book!CurrentOf(asked[w].key) # {}
  BY <1>1, RollBackInv DEF InsertTariff
<1>2. CASE Book!CurrentOf(asked[w].key) = {}
  <2>1. PICK t \in TariffIds : InsertAs(w, t)
    BY <1>2 DEF InsertTariff
  <2>2. /\ stmt[w] = "insert" /\ Unblocked(w) /\ Proceed(w, "commit") /\ UNCHANGED rateRead
    BY <1>2 DEF InsertTariff
  <2>3. /\ TariffTypeOK /\ StepFits(w) /\ RateKnown(w) /\ FormTrue(w) /\ RowsKeep(w) /\ RowsFew(w)
        /\ asked[w] \in Requests /\ asked[w].op \in {"create", "import"}
        /\ \A s \in Held(w) :
              asked[w].op = "import" /\ tariff[s] # Nil /\ ~wTariff[w][s].is_current
    BY <2>2, ActiveWorker DEF StepFits, RowsKeep, WritingSteps
  <2> DEFINE q == asked[w]
             row == NewRow(w)
             jobs == IF q.op = "import" \/ q.current THEN queue[w]
                     ELSE <<[tariff |-> t, price |-> q.price]>>
  <2>4. /\ q.key \in Keys /\ q.currency \in Currencies /\ q.price \in Prices /\ q.price \in Nat
        /\ q.op = "import" => q.rate \in RateValues
        /\ q.op = "create" => q.current \in BOOLEAN
    BY <2>3, RequestFields, MoneyAssumption
  <2>5. row \in Book!Tariffs /\ row.key = q.key
    <3>1. CASE q.op = "import"
      <4>1. row = Book!Row(q.key, q.currency, q.price, q.rate, Nil, TRUE)
        BY <3>1 DEF NewRow
      <4>2. \A on \in BOOLEAN : /\ Book!Row(q.key, q.currency, q.price, q.rate, Nil, on) \in Book!Tariffs
                               /\ Book!Row(q.key, q.currency, q.price, q.rate, Nil, on).key = q.key
        <5>1. q.rate \in RateValues /\ q.key \in Keys /\ q.currency \in Currencies /\ q.price \in Prices
          BY <2>4, <3>1
        <5> HIDE DEF q
        <5>2. \A n \in RateIds \cup {Nil}, on \in BOOLEAN :
                /\ Book!Row(q.key, q.currency, q.price, q.rate, n, on) \in Book!Tariffs
                /\ Book!Row(q.key, q.currency, q.price, q.rate, n, on).key = q.key
          BY <5>1, RowType
        <5> QED
          BY <5>2
      <4> QED
        BY <4>1, <4>2
    <3>2. CASE q.op = "create"
      <4>1. row = Book!Row(q.key, q.currency, q.price, rates[rateRead[w]].rate_to_eur, rateRead[w], TRUE)
        BY <3>2 DEF NewRow
      <4>2. rateRead[w] \in RateIds /\ rates[rateRead[w]].rate_to_eur \in RateValues
        BY <2>2, <2>3, <3>2, RowsTyped DEF RateKnown
      <4> DEFINE r == rateRead[w]
                 v == rates[r].rate_to_eur
      <4>3. \A on \in BOOLEAN : /\ Book!Row(q.key, q.currency, q.price, v, r, on) \in Book!Tariffs
                               /\ Book!Row(q.key, q.currency, q.price, v, r, on).key = q.key
        BY <2>4, <4>2, RowType
      <4> QED
        BY <4>1, <4>3
    <3> QED
      BY <2>3, <3>1, <3>2
  <2>6. jobs \in Seq(Jobs) /\ queue' = [queue EXCEPT ![w] = jobs]
        /\ (q.op = "create" /\ ~q.current => jobs # <<>> /\ Head(jobs).tariff = t)
    <3>1. [tariff |-> t, price |-> q.price] \in Jobs
      BY <2>4 DEF Jobs
    <3>2. queue[w] \in Seq(Jobs) /\ queue = [queue EXCEPT ![w] = queue[w]]
      BY <2>3, Unchanged
    <3>3. queue' = [queue EXCEPT ![w] = jobs]
      BY <2>1, <3>2 DEF InsertAs
    <3> QED
      BY <3>1, <3>2, <3>3
  <2> HIDE DEF row, jobs
  <2>7. "commit" \in Statements \ {"idle"}
    BY DEF Statements
  <2>8. /\ TariffTypeOK' /\ Others(w)
        /\ Moved(w, "commit", rateRead[w], jobs, Writing(w, t, row))
        /\ Held(w)' = Held(w) \cup {t} /\ Writing(w, t, row)[t] = row
        /\ \A s \in TariffIds \ {t} : Writing(w, t, row)[s] = wTariff[w][s]
    <3>1. Write(w, t, row)
      BY <2>1 DEF InsertAs, row
    <3>2. jobs \in Seq(Jobs) /\ queue' = [queue EXCEPT ![w] = jobs] /\ row \in Book!Tariffs
      BY <2>5, <2>6
    <3>3. /\ TariffTypeOK' /\ Others(w)
          /\ Moved(w, "commit", rateRead[w], jobs, Writing(w, t, row))
      BY <2>2, <2>3, <2>7, <3>1, <3>2, WriteRowEffect
    <3>4. /\ Held(w)' = Held(w) \cup {t} /\ Writing(w, t, row)[t] = row
          /\ \A s \in TariffIds \ {t} : Writing(w, t, row)[s] = wTariff[w][s]
      BY <2>3, <3>1, <3>2, WriteEffect
    <3> QED
      BY <3>3, <3>4
  <2>9. tariff[t] = Nil /\ \A v \in Users : t \notin Held(v)
    BY <2>1 DEF InsertAs
  <2>14. /\ Held(w) \subseteq TariffIds \ {t} /\ wTariff'[w][t] = row
         /\ \A s \in Held(w) : wTariff'[w][s] = wTariff[w][s] /\ ~wTariff'[w][s].is_current
    BY <2>3, <2>8, <2>9 DEF Held, Moved
  <2>10. StepFits(w)' /\ RateKnown(w)' /\ FormTrue(w)'
    BY <2>3, <2>8 DEF Moved, StepFits, RateKnown, EditSteps, OffSteps, FormTrue, tables
  <2>11. RowsKeep(w)' /\ RowsFew(w)' /\ Ordered(w)'
    <3>1. /\ tariff' = tariff /\ stmt'[w] = "commit" /\ asked'[w] = asked[w]
      BY <2>8 DEF Moved, tables
    <3>2. RowsKeep(w)'
      BY <2>3, <2>8, <2>9, <2>14, <3>1 DEF RowsKeep, WritingSteps, RowSteps, Book!Terms
    <3>3. RowsFew(w)' /\ Ordered(w)'
      BY <2>3, <2>8, <2>9, <3>1 DEF RowsFew, Ordered
    <3> QED
      BY <3>2, <3>3
  <2>12. OffKnown(w)'
    BY <2>3, <2>6, <2>8 DEF Moved, OffKnown, OffSteps
  <2>13. EntryAlone(w)' /\ \A v \in Users \ {w} : Apart(v, w)'
    <3>1. \A v \in Users \ {w} : Held(v) \cap Held(w)' = {}
      BY <2>8, <2>9 DEF SessionsInv, WorkersInv, RowsApart, Apart
    <3>2. KeyLockers(w, q.key) = {}
      BY <2>2 DEF Unblocked, BlockedBy
    <3>3. ASSUME NEW v \in Users \ {w}, NEW s \in TariffIds, InIndex(v, s)
          PROVE  wTariff[v][s].key # q.key
      BY <3>2, <3>3 DEF KeyLockers, InIndex
    <3>4. \A s \in TariffIds : InIndex(w, s)' => wTariff'[w][s].key = q.key
      BY <2>5, <2>8, <2>14 DEF InIndex
    <3>5. UNCHANGED tables
      BY <2>8 DEF Moved
    <3>6. \A s \in TariffIds : InIndex(w, s)' =>
            /\ \A u \in Book!CurrentOf(wTariff'[w][s].key) : u = s
            /\ \A v \in Users \ {w}, u \in TariffIds :
                  InIndex(v, u) => wTariff[v][u].key # wTariff'[w][s].key
      BY <1>2, <3>3, <3>4
    <3>7. stmt[w] # "idle" /\ Others(w)
      BY <2>2, <2>8
    <3> QED
      BY <3>1, <3>5, <3>6, <3>7, EntryInv
  <2> QED
    BY <2>7, <2>8, <2>10, <2>11, <2>12, <2>13, WriteInv
<1> QED
  BY <1>1, <1>2

LEMMA EditWriteInv ==
  ASSUME SessionsInv, NEW w \in Users, EditWrite(w)
  PROVE  SessionsInv'
<1>1. CASE ~forms[w].fresh
  BY <1>1, RollBackInv DEF EditWrite
<1>2. CASE forms[w].fresh
  <2> DEFINE q == asked[w]
             t == q.tariff
             row == EditedRow(w)
             step == IF q.current /\ ~tariff[t].is_current THEN "editIndex" ELSE "commit"
  <2>1. /\ stmt[w] = "editWrite" /\ Unblocked(w) /\ Write(w, t, row) /\ Proceed(w, step)
        /\ UNCHANGED <<rateRead, queue>>
    BY <1>2 DEF EditWrite
  <2>2. /\ TariffTypeOK /\ StepFits(w) /\ RateKnown(w) /\ FormTrue(w) /\ RowsKeep(w)
        /\ q \in Requests /\ q.op = "edit" /\ Held(w) = {}
    BY <2>1, ActiveWorker DEF StepFits, EditSteps, RowsKeep, WritingSteps
  <2>3. /\ t \in TariffIds /\ q.currency \in Currencies /\ q.price \in Prices /\ q.current \in BOOLEAN
        /\ tariff[t] # Nil /\ forms[w] # Nil
    BY <2>2, RequestFields DEF FormTrue
  <2>4. tariff[t] \in Book!Tariffs /\ tariff[t].key \in Keys
        /\ rateRead[w] \in RateIds /\ rates[rateRead[w]].rate_to_eur \in RateValues
    BY <2>1, <2>2, <2>3, RowsTyped DEF RateKnown, EditSteps
  <2>5. row \in Book!Tariffs /\ row.key = tariff[t].key /\ row.is_current = q.current
    <3>1. row = Book!Row(tariff[t].key, q.currency, q.price, rates[rateRead[w]].rate_to_eur,
                         rateRead[w], q.current)
      BY DEF EditedRow
    <3> QED
      BY <2>3, <2>4, <3>1, RowType
  <2>6. \A v \in Users \ {w} : t \notin Held(v)
    BY <2>1 DEF Unblocked, BlockedBy, RowLockers
  <2>7. step \in Statements \ {"idle"} /\ step \in {"editIndex", "commit"}
        /\ (step = "editIndex" => ~tariff[t].is_current)
        /\ (step = "commit" /\ q.current => tariff[t].is_current)
    BY DEF Statements
  <2> HIDE DEF row, step
  <2>8. /\ TariffTypeOK' /\ Others(w)
        /\ Moved(w, step, rateRead[w], queue[w], Writing(w, t, row))
        /\ Held(w)' = {t} /\ Writing(w, t, row)[t] = row
    BY <2>1, <2>2, <2>3, <2>5, <2>7, Unchanged, WriteRowEffect
  <2>9. StepFits(w)' /\ RateKnown(w)'
    BY <2>1, <2>2, <2>7, <2>8 DEF Moved, StepFits, RateKnown, EditSteps, OffSteps, tables
  <2>10. FormTrue(w)'
    BY <1>2, <2>2, <2>3, <2>8 DEF Moved, FormTrue, tables, Book!Display
  <2>11. RowsKeep(w)' /\ RowsFew(w)' /\ Ordered(w)' /\ OffKnown(w)'
    BY <2>2, <2>3, <2>5, <2>7, <2>8 DEF Moved, RowsKeep, RowsFew, Ordered, OffKnown, OffSteps,
       WritingSteps, tables
  <2>12. EntryAlone(w)' /\ \A v \in Users \ {w} : Apart(v, w)'
    <3>1. \A v \in Users \ {w} : Held(v) \cap Held(w)' = {}
      BY <2>6, <2>8
    <3>2. \A s \in TariffIds : InIndex(w, s)' =>
             s = t /\ tariff[t].is_current /\ wTariff'[w][s].key = tariff[t].key
      BY <2>5, <2>7, <2>8 DEF InIndex, Moved
    <3>3. \A s \in TariffIds : InIndex(w, s)' =>
            /\ \A u \in Book!CurrentOf(wTariff'[w][s].key) : u = s
            /\ \A v \in Users \ {w}, u \in TariffIds :
                  InIndex(v, u) => wTariff[v][u].key # wTariff'[w][s].key
      BY <2>3, <2>6, <3>2, LockedKey
    <3>4. stmt[w] # "idle" /\ Others(w) /\ UNCHANGED tables
      BY <2>1, <2>8 DEF Moved
    <3> QED
      BY <3>1, <3>3, <3>4, EntryInv
  <2> QED
    BY <2>7, <2>8, <2>9, <2>10, <2>11, <2>12, WriteInv
<1> QED
  BY <1>1, <1>2

\* The check of the unique index, when it is passed, adds the entry.
LEMMA EditIndexInv ==
  ASSUME SessionsInv, NEW w \in Users, EditIndex(w)
  PROVE  SessionsInv'
<1> DEFINE t == asked[w].tariff
<1>1. CASE Book!CurrentOf(tariff[t].key) # {}
  BY <1>1, RollBackInv DEF EditIndex
<1>2. CASE Book!CurrentOf(tariff[t].key) = {}
  <2>1. /\ stmt[w] = "editIndex" /\ Unblocked(w) /\ Proceed(w, "commit")
        /\ UNCHANGED <<rateRead, queue, wTariff>>
    BY <1>2 DEF EditIndex
  <2>2. /\ TariffTypeOK /\ StepFits(w) /\ RateKnown(w) /\ FormTrue(w) /\ RowsKeep(w) /\ RowsFew(w)
        /\ asked[w].op = "edit" /\ asked[w] \in Requests
    BY <2>1, ActiveWorker DEF StepFits, EditSteps
  <2>3. t \in TariffIds /\ tariff[t] # Nil /\ forms[w] # Nil
        /\ \A s \in Held(w) : s = t
    BY <2>2, RequestFields DEF FormTrue, RowsKeep
  <2>4. "commit" \in Statements \ {"idle"}
    BY DEF Statements
  <2>5. TariffTypeOK' /\ Others(w) /\ Moved(w, "commit", rateRead[w], queue[w], wTariff[w])
    BY <2>1, <2>2, <2>4, MoveEffect
  <2>6. Held(w)' = Held(w) /\ Held(w) \subseteq TariffIds
    BY <2>5 DEF Moved, Held
  <2>7. StepFits(w)' /\ RateKnown(w)' /\ FormTrue(w)'
    BY <2>1, <2>2, <2>5 DEF Moved, StepFits, RateKnown, EditSteps, OffSteps, FormTrue, tables,
       Book!Display
  <2>8. RowsKeep(w)'
    BY <2>2, <2>5, <2>6 DEF Moved, RowsKeep, tables, WritingSteps, Book!Terms
  <2>9. RowsFew(w)' /\ OffKnown(w)' /\ Ordered(w)'
    BY <2>1, <2>2, <2>5, <2>6 DEF Moved, RowsFew, OffKnown, OffSteps, Ordered, tables
  <2>10. EntryAlone(w)' /\ \A v \in Users \ {w} : Apart(v, w)'
    <3>1. \A v \in Users \ {w} : Held(v) \cap Held(w)' = {}
      BY <2>6 DEF SessionsInv, WorkersInv, RowsApart, Apart
    <3>2. KeyLockers(w, tariff[t].key) = {}
      BY <2>1 DEF Unblocked, BlockedBy
    <3>3. ASSUME NEW v \in Users \ {w}, NEW s \in TariffIds, InIndex(v, s)
          PROVE  wTariff[v][s].key # tariff[t].key
      BY <3>2, <3>3 DEF KeyLockers, InIndex
    <3>4. \A s \in TariffIds : InIndex(w, s)' => wTariff'[w][s].key = tariff[t].key
      BY <2>2, <2>3, <2>5, <2>6 DEF InIndex, Moved, RowsKeep
    <3>5. \A s \in TariffIds : InIndex(w, s)' =>
            /\ \A u \in Book!CurrentOf(wTariff'[w][s].key) : u = s
            /\ \A v \in Users \ {w}, u \in TariffIds :
                  InIndex(v, u) => wTariff[v][u].key # wTariff'[w][s].key
      BY <1>2, <3>3, <3>4
    <3>6. stmt[w] # "idle" /\ Others(w) /\ UNCHANGED tables
      BY <2>1, <2>5 DEF Moved
    <3> QED
      BY <3>1, <3>5, <3>6, EntryInv
  <2> QED
    BY <2>4, <2>5, <2>7, <2>8, <2>9, <2>10, WriteInv
<1> QED
  BY <1>1, <1>2

\* The importer puts the tariffs in force of the key out of force.
LEMMA ImportCloseInv ==
  ASSUME SessionsInv, NEW w \in Users, ImportClose(w)
  PROVE  SessionsInv'
<1> DEFINE ts == Book!CurrentOf(asked[w].key)
           rows == [t \in TariffIds |-> IF t \in ts THEN [tariff[t] EXCEPT !.is_current = FALSE]
                                                    ELSE wTariff[w][t]]
<1>1. /\ stmt[w] = "close" /\ Unblocked(w) /\ Proceed(w, "duplicate") /\ UNCHANGED <<rateRead, queue>>
      /\ wTariff' = [wTariff EXCEPT ![w] = rows]
  BY DEF ImportClose
<1>2. /\ TariffTypeOK /\ StepFits(w) /\ FormTrue(w) /\ RowsKeep(w) /\ asked[w].op = "import"
      /\ Held(w) \subseteq TariffIds
  BY <1>1, ActiveWorker DEF StepFits, Held
<1>3. /\ ts \subseteq TariffIds
      /\ \A t \in ts : tariff[t] # Nil /\ tariff[t] \in Book!Tariffs /\ tariff[t].key = asked[w].key
  BY <1>2, RowsTyped DEF Book!CurrentOf, Book!TariffsOf
<1>4. \A t \in ts : /\ rows[t] \in Book!Tariffs /\ rows[t].key = tariff[t].key /\ rows[t] # Nil
                    /\ rows[t].is_current = FALSE /\ Book!Terms(rows[t]) = Book!Terms(tariff[t])
  BY <1>3, SwitchedOff, NotNil
<1>5. /\ rows \in [TariffIds -> Book!Tariffs \cup {Nil}]
      /\ \A t \in TariffIds \ ts : rows[t] = wTariff[w][t]
  BY <1>2, <1>4 DEF TariffTypeOK
<1>6. "duplicate" \in Statements \ {"idle"}
  BY DEF Statements
<1> HIDE DEF rows, ts
<1>7. TariffTypeOK' /\ Others(w) /\ Moved(w, "duplicate", rateRead[w], queue[w], rows)
  BY <1>1, <1>2, <1>5, <1>6, Unchanged, ProceedEffect
<1>8. Held(w)' = Held(w) \cup ts
  BY <1>3, <1>4, <1>5, <1>7 DEF Held, Moved
<1>9. StepFits(w)' /\ RateKnown(w)' /\ FormTrue(w)'
  BY <1>2, <1>7 DEF Moved, StepFits, RateKnown, EditSteps, OffSteps, FormTrue, tables
<1>13. \A t \in Held(w)' :
          /\ tariff[t] # Nil /\ rows[t].key = tariff[t].key /\ ~rows[t].is_current
          /\ Book!Terms(rows[t]) = Book!Terms(tariff[t])
  <2>1. \A t \in Held(w) \ ts :
          /\ tariff[t] # Nil /\ rows[t].key = tariff[t].key /\ ~rows[t].is_current
          /\ Book!Terms(rows[t]) = Book!Terms(tariff[t])
    BY <1>1, <1>2, <1>5 DEF RowsKeep
  <2> QED
    BY <1>3, <1>4, <1>8, <2>1
<1>10. RowsKeep(w)'
  BY <1>2, <1>7, <1>13 DEF Moved, RowsKeep, RowSteps, tables, Book!Terms
<1>11. RowsFew(w)' /\ Ordered(w)' /\ OffKnown(w)'
  BY <1>2, <1>7, <1>13 DEF Moved, RowsFew, Ordered, OffKnown, OffSteps, tables
<1>12. EntryAlone(w)' /\ \A v \in Users \ {w} : Apart(v, w)'
  <2>1. \A v \in Users \ {w} : Held(v) \cap Held(w)' = {}
    <3>1. \A v \in Users \ {w} : Held(v) \cap ts = {}
      BY <1>1 DEF Unblocked, BlockedBy, RowLockers, ts
    <3>2. \A v \in Users \ {w} : Held(v) \cap Held(w) = {}
      BY DEF SessionsInv, WorkersInv, RowsApart, Apart
    <3> QED
      BY <1>8, <3>1, <3>2
  <2>2. \A t \in TariffIds : ~InIndex(w, t)'
    BY <1>7, <1>13 DEF InIndex, Moved
  <2> QED
    BY <1>1, <1>7, <2>1, <2>2, EntryInv DEF Moved
<1> QED
  BY <1>6, <1>7, <1>9, <1>10, <1>11, <1>12, WriteInv

\* What is left of a worker by the next row of its file.
LEMMA NextRowEffect ==
  ASSUME TariffTypeOK, NEW w \in Users, NextRow(w)
  PROVE  /\ asked' \in [Users -> Requests \cup {Nil}] /\ stmt' \in [Users -> Statements]
         /\ \A v \in Users \ {w} : asked'[v] = asked[v] /\ stmt'[v] = stmt[v]
         /\ asked'[w] \in Requests /\ asked'[w].op = "import" /\ stmt'[w] = "exists"
         /\ \A t \in Held(w) : wTariff[w][t].key # asked'[w].key
         /\ UNCHANGED <<rates, stamp, rateRead, queue>>
<1>1. PICK q \in Requests :
        /\ q.op = "import" /\ \A t \in Held(w) : wTariff[w][t].key # q.key
        /\ asked' = [asked EXCEPT ![w] = q]
  BY DEF NextRow
<1>2. "exists" \in Statements /\ stmt' = [stmt EXCEPT ![w] = "exists"]
      /\ UNCHANGED <<rates, stamp, rateRead, queue>>
  BY DEF NextRow, Statements
<1> QED
  BY <1>1, <1>2 DEF TariffTypeOK

\* A refused row: the import goes on to the next with what it has closed.
LEMMA RefuseRowInv ==
  ASSUME SessionsInv, NEW w \in Users, RefuseRow(w)
  PROVE  SessionsInv'
<1>1. /\ stmt[w] = "duplicate" /\ asked[w].op = "import" /\ NextRow(w)
      /\ UNCHANGED <<tariff, logged, forms, wTariff>>
  BY DEF RefuseRow
<1>2. /\ TariffTypeOK /\ StepFits(w) /\ FormTrue(w) /\ RowsKeep(w) /\ RowsFew(w) /\ EntryAlone(w)
  BY <1>1, ActiveWorker
<1>3. /\ asked' \in [Users -> Requests \cup {Nil}] /\ stmt' \in [Users -> Statements]
      /\ \A v \in Users \ {w} : asked'[v] = asked[v] /\ stmt'[v] = stmt[v]
      /\ asked'[w] \in Requests /\ asked'[w].op = "import" /\ stmt'[w] = "exists"
      /\ \A t \in Held(w) : wTariff[w][t].key # asked'[w].key
      /\ UNCHANGED <<rates, stamp, rateRead, queue>>
  BY <1>1, <1>2, NextRowEffect
<1>4. TariffTypeOK'
  BY <1>1, <1>2, <1>3 DEF TariffTypeOK, Book!TypeOK
<1>5. Others(w) /\ Held(w)' = Held(w)
  BY <1>1, <1>3 DEF Others, Held
<1>6. StepFits(w)' /\ RateKnown(w)' /\ FormTrue(w)'
  BY <1>1, <1>2, <1>3 DEF StepFits, RateKnown, FormTrue, EditSteps, OffSteps
<1>7. RowsKeep(w)'
  BY <1>1, <1>2, <1>3, <1>5 DEF RowsKeep, RowSteps, Book!Terms
<1>8. RowsFew(w)' /\ OffKnown(w)' /\ Ordered(w)'
  BY <1>1, <1>2, <1>3, <1>5 DEF RowsFew, OffKnown, OffSteps, Ordered
<1>9. EntryAlone(w)'
  BY <1>1, <1>2, <1>3, <1>5 DEF EntryAlone, InIndex, Book!CurrentOf, Book!TariffsOf
<1>10. WorkerOK(w)'
  BY <1>3, <1>6, <1>7, <1>8, <1>9 DEF WorkerOK
<1>11. StampsNew'
  BY <1>3, <1>5, StampsKept
<1> QED
  BY <1>1, <1>3, <1>4, <1>5, <1>10, <1>11, ReadingStep

\* The rest of a list of jobs.
LEMMA TailOfQueue ==
  ASSUME TariffTypeOK, NEW w \in Users, queue[w] # <<>>
  PROVE  /\ Tail(queue[w]) \in Seq(Jobs) /\ Len(queue[w]) \in Nat /\ Len(queue[w]) >= 1
         /\ Len(Tail(queue[w])) = Len(queue[w]) - 1
         /\ \A i \in 1 .. Len(Tail(queue[w])) :
               Tail(queue[w])[i] = queue[w][i + 1] /\ i + 1 \in 1 .. Len(queue[w])
         /\ Head(queue[w]).tariff \in Queued(w)
<1>1. queue[w] \in Seq(Jobs) /\ Head(queue[w]) = queue[w][1] /\ 1 \in 1 .. Len(queue[w])
  BY QueuedType
<1>2. Tail(queue[w]) \in Seq(Jobs) /\ Len(Tail(queue[w])) = Len(queue[w]) - 1
      /\ \A i \in 1 .. Len(Tail(queue[w])) : Tail(queue[w])[i] = queue[w][i + 1]
  BY <1>1
<1> QED
  BY <1>1, <1>2 DEF Queued

LEMMA RecalculateInv ==
  ASSUME SessionsInv, NEW w \in Users, Recalculate(w)
  PROVE  SessionsInv'
<1>1. stmt[w] = "recalculate" /\ Unblocked(w) /\ UNCHANGED rateRead
  BY DEF Recalculate
<1>2. /\ TariffTypeOK /\ StepFits(w) /\ FormTrue(w) /\ RowsKeep(w) /\ Ordered(w) /\ EntryAlone(w)
      /\ asked[w] \in Requests /\ asked[w].op = "upsert" /\ stamp[w] \in RateIds
  BY <1>1, ActiveWorker DEF StepFits
<1>3. CASE queue[w] = <<>>
  <2>1. Proceed(w, "commit") /\ UNCHANGED <<rateRead, queue, wTariff>>
    BY <1>1, <1>3 DEF Recalculate
  <2>2. "commit" \in Statements \ {"idle"}
    BY DEF Statements
  <2>3. TariffTypeOK' /\ Others(w) /\ Moved(w, "commit", rateRead[w], queue[w], wTariff[w])
    BY <1>2, <2>1, <2>2, MoveEffect
  <2>4. Held(w)' = Held(w) /\ Queued(w)' = Queued(w) /\ Held(w) \subseteq TariffIds
    BY <2>3 DEF Moved, Held, Queued
  <2>5. StepFits(w)' /\ RateKnown(w)' /\ FormTrue(w)'
    BY <1>2, <2>3 DEF Moved, StepFits, RateKnown, EditSteps, OffSteps, FormTrue, tables
  <2>6. RowsKeep(w)'
    BY <1>2, <2>3, <2>4 DEF Moved, RowsKeep, tables, WritingSteps, Book!Terms
  <2>7. RowsFew(w)' /\ OffKnown(w)'
    BY <1>2, <2>3, <2>4 DEF Moved, RowsFew, OffKnown, OffSteps, tables
  <2>8. Ordered(w)'
    BY <1>2, <2>3, <2>4 DEF Moved, Ordered, tables
  <2> QED
    BY <1>1, <2>2, <2>3, <2>5, <2>6, <2>7, <2>8, MoveInv
<1>4. CASE queue[w] # <<>>
  <2> DEFINE job == Head(queue[w])
             t == job.tariff
             row == Book!Recalculated(tariff[t], job.price, asked[w].rate, stamp[w])
             rest == Tail(queue[w])
  <2>1. Write(w, t, row) /\ queue' = [queue EXCEPT ![w] = rest] /\ Proceed(w, "recalculate")
    BY <1>4 DEF Recalculate
  <2>2. t \in TariffIds /\ job.price \in Nat /\ t \in Queued(w) /\ rest \in Seq(Jobs) /\ tariff[t] # Nil
    BY <1>2, <1>4, QueuedType, TailOfQueue DEF Ordered
  <2>3. row \in Book!Tariffs /\ row.key = tariff[t].key /\ row.is_current = tariff[t].is_current
    BY <1>2, <2>2, RowsTyped, RequestFields, RecalculatedType
  <2>4. \A v \in Users \ {w} : t \notin Held(v)
    BY <1>1, <1>4 DEF Unblocked, BlockedBy, RowLockers
  <2>5. /\ Len(queue[w]) \in Nat /\ Len(queue[w]) >= 1 /\ Len(rest) = Len(queue[w]) - 1
        /\ \A i \in 1 .. Len(rest) : rest[i] = queue[w][i + 1] /\ i + 1 \in 1 .. Len(queue[w])
        /\ t = queue[w][1].tariff /\ 1 \in 1 .. Len(queue[w])
    BY <1>2, <1>4, QueuedType, TailOfQueue
  <2> HIDE DEF row, t, rest
  <2>6. "recalculate" \in Statements \ {"idle"}
    BY DEF Statements
  <2>7. /\ TariffTypeOK' /\ Others(w)
        /\ Moved(w, "recalculate", rateRead[w], rest, Writing(w, t, row))
        /\ Held(w)' = Held(w) \cup {t} /\ Writing(w, t, row)[t] = row
        /\ \A s \in TariffIds \ {t} : Writing(w, t, row)[s] = wTariff[w][s]
    <3>1. rest \in Seq(Jobs) /\ t \in TariffIds /\ row \in Book!Tariffs /\ "recalculate" \in Statements
      BY <2>2, <2>3, <2>6
    <3>2. TariffTypeOK /\ UNCHANGED rateRead
      BY <1>1, <1>2
    <3> QED
      BY <2>1, <3>1, <3>2, WriteRowEffect, Zenon
  <2>8. StepFits(w)' /\ RateKnown(w)' /\ FormTrue(w)'
    BY <1>2, <2>7 DEF Moved, StepFits, RateKnown, EditSteps, OffSteps, FormTrue, tables
  <2>9. Held(w) \subseteq TariffIds
    BY DEF Held
  <2>10. RowsKeep(w)'
    BY <1>2, <2>2, <2>3, <2>7, <2>9 DEF Moved, RowsKeep, tables, WritingSteps
  <2>11. RowsFew(w)' /\ OffKnown(w)'
    BY <1>2, <2>7 DEF Moved, RowsFew, OffKnown, OffSteps, tables
  <2>12. Ordered(w)'
    <3>1. Queued(w)' \subseteq Queued(w) /\ \A s \in Queued(w)' : t < s
      <4>1. ASSUME NEW i \in 1 .. Len(rest)
            PROVE  rest[i].tariff \in Queued(w) /\ t < rest[i].tariff
        <5>1. rest[i] = queue[w][i + 1] /\ i + 1 \in 1 .. Len(queue[w]) /\ 1 < i + 1
          BY <2>5
        <5> QED
          BY <1>2, <2>5, <5>1 DEF Ordered, Queued
      <4> QED
        BY <2>7, <4>1 DEF Queued, Moved
    <3>2. \A i, j \in 1 .. Len(rest) : i < j => rest[i].tariff < rest[j].tariff
      <4> SUFFICES ASSUME NEW i \in 1 .. Len(rest), NEW j \in 1 .. Len(rest), i < j
                   PROVE  rest[i].tariff < rest[j].tariff
        OBVIOUS
      <4>1. i + 1 < j + 1 /\ i + 1 \in 1 .. Len(queue[w]) /\ j + 1 \in 1 .. Len(queue[w])
        BY <2>5
      <4> QED
        BY <1>2, <2>5, <4>1 DEF Ordered
    <3>3. Held(w)' \cup Queued(w)' \subseteq Held(w) \cup Queued(w)
      BY <2>2, <2>7, <3>1
    <3>4. \A s \in Held(w)', u \in Queued(w)' : s < u
      BY <1>2, <2>7, <3>1 DEF Ordered
    <3> QED
      BY <1>2, <2>7, <3>1, <3>2, <3>3, <3>4 DEF Ordered, Moved, tables
  <2>13. EntryAlone(w)' /\ \A v \in Users \ {w} : Apart(v, w)'
    <3>1. \A v \in Users \ {w} : Held(v) \cap Held(w)' = {}
      BY <2>4, <2>7 DEF SessionsInv, WorkersInv, RowsApart, Apart
    <3>2. \A s \in TariffIds : InIndex(w, s)' =>
            \/ InIndex(w, s) /\ wTariff'[w][s].key = wTariff[w][s].key
            \/ s = t /\ tariff[t].is_current /\ wTariff'[w][s].key = tariff[t].key
      BY <1>1, <2>3, <2>7 DEF InIndex, Moved
    <3>3. \A s \in TariffIds : InIndex(w, s)' =>
            \/ InIndex(w, s) /\ wTariff'[w][s].key = wTariff[w][s].key
            \/ /\ \A u \in Book!CurrentOf(wTariff'[w][s].key) : u = s
               /\ \A v \in Users \ {w}, u \in TariffIds :
                     InIndex(v, u) => wTariff[v][u].key # wTariff'[w][s].key
      BY <2>2, <2>4, <3>2, LockedKey
    <3>4. stmt[w] # "idle" /\ Others(w) /\ UNCHANGED tables
      BY <1>1, <2>7 DEF Moved
    <3> QED
      BY <3>1, <3>3, <3>4, EntryInv
  <2> QED
    BY <2>6, <2>7, <2>8, <2>10, <2>11, <2>12, <2>13, WriteInv
<1> QED
  BY <1>3, <1>4

--------------------------------------------------------------------------------
(* Commits.                                                                *)

\* The commits: of a request, and of an import within its file.
Commits(w) == CommitTariffs(w) \/ CommitRow(w) \/ CommitValue(w)

LEMMA Committing ==
  ASSUME SessionsInv, NEW w \in Users, Commits(w)
  PROVE  /\ stmt[w] \notin {"idle", "editIndex"} /\ StoreRows(w)
         /\ CommitTariffs(w) \/ (asked[w].op = "import" /\ UNCHANGED <<rates, stamp>>)
BY DEF Commits, CommitTariffs, CommitRow, CommitValue, NextRow

\* What a commit makes of the tables and of the other workers.
LEMMA CommitEffect ==
  ASSUME SessionsInv, NEW w \in Users, Commits(w)
  PROVE  /\ TariffTypeOK' /\ Others(w)
         /\ \A t \in Held(w) : tariff'[t] = wTariff[w][t]
         /\ \A t \in TariffIds \ Held(w) : tariff'[t] = tariff[t] /\ logged'[t] = logged[t]
         /\ \A t \in Held(w) : logged'[t] = IF HasHistory(w, t) THEN Book!Terms(wTariff[w][t])
                                                               ELSE logged[t]
         /\ \A n \in RateIds : rates[n] # Nil => rates'[n] # Nil
         /\ \/ rates' = rates
            \/ stamp[w] \in RateIds /\ \E rate \in Book!Rates : rates' = [rates EXCEPT ![stamp[w]] = rate]
         /\ stamp'[w] = Nil /\ forms'[w] = Nil
         /\ \A v \in Users \ {w} : forms'[v] = Book!Outdated(Held(w))[v]
<1>1. /\ TariffTypeOK /\ StepFits(w) /\ asked[w] \in Requests
  BY Committing, ActiveWorker DEF StepFits
<1>2. Held(w) \subseteq TariffIds /\ \A t \in Held(w) : wTariff[w][t] \in Book!Tariffs
  BY <1>1, RowsTyped DEF Held
<1>3. /\ tariff' = [t \in TariffIds |-> IF t \in Held(w) THEN wTariff[w][t] ELSE tariff[t]]
      /\ logged' = [t \in TariffIds |-> IF HasHistory(w, t) THEN Book!Terms(wTariff[w][t]) ELSE logged[t]]
      /\ rates' = IF asked[w].op # "upsert" THEN rates
                  ELSE [rates EXCEPT ![stamp[w]] = [currency |-> asked[w].currency,
                                                    rate_to_eur |-> asked[w].rate]]
      /\ forms' = [Book!Outdated(Held(w)) EXCEPT ![w] = Nil]
  BY Committing DEF CommitTariffs, StoreRows
<1>4. tariff' \in [TariffIds -> Book!Tariffs \cup {Nil}]
  BY <1>1, <1>2, <1>3 DEF TariffTypeOK, Book!TypeOK
<1>5. logged' \in [TariffIds -> Book!TermRows \cup {Nil}]
  <2>1. \A t \in TariffIds : HasHistory(w, t) => Book!Terms(wTariff[w][t]) \in Book!TermRows
    BY <1>2, TermsType DEF HasHistory
  <2> QED
    BY <1>1, <1>3, <2>1 DEF TariffTypeOK, Book!TypeOK
<1>6. /\ rates' \in [RateIds -> Book!Rates \cup {Nil}]
      /\ \A n \in RateIds : rates[n] # Nil => rates'[n] # Nil
      /\ \/ rates' = rates
         \/ stamp[w] \in RateIds /\ \E rate \in Book!Rates : rates' = [rates EXCEPT ![stamp[w]] = rate]
  <2>1. CASE asked[w].op # "upsert"
    BY <1>1, <1>3, <2>1 DEF TariffTypeOK, Book!TypeOK
  <2>2. CASE asked[w].op = "upsert"
    <3> DEFINE rate == [currency |-> asked[w].currency, rate_to_eur |-> asked[w].rate]
    <3>1. rate \in Book!Rates /\ rate # Nil /\ stamp[w] \in RateIds
      BY <1>1, <2>2, RequestFields, NotNil DEF StepFits, Book!Rates
    <3>2. rates' = [rates EXCEPT ![stamp[w]] = rate]
      BY <1>3, <2>2
    <3> HIDE DEF rate
    <3> QED
      BY <1>1, <3>1, <3>2 DEF TariffTypeOK, Book!TypeOK
  <2> QED
    BY <2>1, <2>2
<1>7. /\ forms' \in [Users -> Book!OpenForms \cup {Nil}] /\ forms'[w] = Nil
      /\ \A v \in Users \ {w} : forms'[v] = Book!Outdated(Held(w))[v]
  <2>1. Book!Outdated(Held(w)) \in [Users -> Book!OpenForms \cup {Nil}]
    BY <1>1, OutdatedForms
  <2> QED
    BY <1>3, <2>1
<1>8. /\ NoRows \in [TariffIds -> Book!Tariffs \cup {Nil}] /\ <<>> \in Seq(Jobs)
      /\ {"idle", "offRead"} \subseteq Statements
  BY DEF NoRows, Statements
<1>9. /\ stmt' \in [Users -> Statements] /\ asked' \in [Users -> Requests \cup {Nil}]
      /\ stamp' \in [Users -> RateIds \cup {Nil}] /\ rateRead' \in [Users -> RateIds \cup {Nil}]
      /\ queue' \in [Users -> Seq(Jobs)]
      /\ wTariff' \in [Users -> [TariffIds -> Book!Tariffs \cup {Nil}]]
      /\ Others(w) /\ stamp'[w] = Nil
  <2>1. CASE CommitTariffs(w)
    <3>1. /\ stmt' = [stmt EXCEPT ![w] = IF SwitchesOff(w) THEN "offRead" ELSE "idle"]
          /\ IF SwitchesOff(w)
             THEN wTariff' = [wTariff EXCEPT ![w] = NoRows] /\ UNCHANGED <<asked, stamp, rateRead, queue>>
             ELSE Forget(w) /\ queue' = [queue EXCEPT ![w] = <<>>]
      BY <2>1 DEF CommitTariffs
    <3>2. SwitchesOff(w) => stamp[w] = Nil
      BY <1>1 DEF SwitchesOff, StepFits
    <3>3. CASE SwitchesOff(w)
      <4>1. /\ stmt' = [stmt EXCEPT ![w] = "offRead"] /\ wTariff' = [wTariff EXCEPT ![w] = NoRows]
            /\ UNCHANGED <<asked, stamp, rateRead, queue>>
        BY <3>1, <3>3
      <4>2. Others(w) /\ stamp'[w] = Nil
        BY <1>1, <3>2, <3>3, <4>1 DEF TariffTypeOK, Others
      <4>3. /\ stmt' \in [Users -> Statements]
            /\ wTariff' \in [Users -> [TariffIds -> Book!Tariffs \cup {Nil}]]
        BY <1>1, <1>8, <4>1 DEF TariffTypeOK
      <4> QED
        BY <1>1, <4>1, <4>2, <4>3 DEF TariffTypeOK
    <3>4. CASE ~SwitchesOff(w)
      <4>1. /\ stmt' = [stmt EXCEPT ![w] = "idle"] /\ asked' = [asked EXCEPT ![w] = Nil]
            /\ stamp' = [stamp EXCEPT ![w] = Nil] /\ rateRead' = [rateRead EXCEPT ![w] = Nil]
            /\ wTariff' = [wTariff EXCEPT ![w] = NoRows] /\ queue' = [queue EXCEPT ![w] = <<>>]
        BY <3>1, <3>4 DEF Forget
      <4>2. Others(w) /\ stamp'[w] = Nil
        BY <1>1, <4>1 DEF TariffTypeOK, Others
      <4>3. /\ stmt' \in [Users -> Statements] /\ asked' \in [Users -> Requests \cup {Nil}]
            /\ stamp' \in [Users -> RateIds \cup {Nil}] /\ rateRead' \in [Users -> RateIds \cup {Nil}]
        BY <1>1, <1>8, <4>1 DEF TariffTypeOK
      <4>4. /\ queue' \in [Users -> Seq(Jobs)]
            /\ wTariff' \in [Users -> [TariffIds -> Book!Tariffs \cup {Nil}]]
        BY <1>1, <1>8, <4>1 DEF TariffTypeOK
      <4> QED
        BY <4>2, <4>3, <4>4
    <3> QED
      BY <3>3, <3>4
  <2>2. CASE CommitRow(w)
    <3>1. NextRow(w) /\ asked[w].op = "import" /\ wTariff' = [wTariff EXCEPT ![w] = NoRows]
      BY <2>2 DEF CommitRow
    <3>2. stamp[w] = Nil
      BY <1>1, <3>1 DEF StepFits
    <3> QED
      BY <1>1, <1>8, <3>1, <3>2, NextRowEffect DEF TariffTypeOK, Others
  <2>3. CASE CommitValue(w)
    <3>1. /\ asked[w].op = "import" /\ wTariff' = [wTariff EXCEPT ![w] = NoRows]
          /\ UNCHANGED <<stmt, asked, stamp, rateRead, queue>>
      BY <2>3 DEF CommitValue
    <3>2. stamp[w] = Nil
      BY <1>1, <3>1 DEF StepFits
    <3> QED
      BY <1>1, <1>8, <3>1, <3>2 DEF TariffTypeOK, Others
  <2> QED
    BY <2>1, <2>2, <2>3 DEF Commits
<1>11. TariffTypeOK'
  BY <1>4, <1>5, <1>6, <1>7, <1>9 DEF TariffTypeOK, Book!TypeOK
<1> QED
  BY <1>2, <1>3, <1>6, <1>7, <1>9, <1>11 DEF HasHistory

\* The worker itself: at rest, or about to put its new tariff out of force.
LEMMA CommitSelf ==
  ASSUME SessionsInv, NEW w \in Users, CommitTariffs(w)
  PROVE  WorkerOK(w)' /\ Held(w)' = {}
<1>1. /\ stmt[w] = "commit" /\ TariffTypeOK /\ StepFits(w) /\ OffKnown(w)
  BY ActiveWorker DEF CommitTariffs
<1>2. /\ TariffTypeOK' /\ forms'[w] = Nil /\ \A t \in Held(w) : tariff'[t] = wTariff[w][t]
  BY CommitEffect DEF Commits
<1>3. CASE SwitchesOff(w)
  <2>1. /\ stmt'[w] = "offRead" /\ asked'[w] = asked[w] /\ stamp'[w] = stamp[w]
        /\ queue'[w] = queue[w] /\ wTariff'[w] = NoRows
    BY <1>1, <1>3 DEF CommitTariffs, TariffTypeOK
  <2>2. asked[w].op = "create" /\ queue[w] # <<>> /\ Head(queue[w]).tariff \in Held(w)
    BY <1>1, <1>3 DEF SwitchesOff, OffKnown
  <2>3. Held(w)' = {}
    BY <2>1 DEF Held, NoRows
  <2>4. StepFits(w)' /\ RateKnown(w)' /\ FormTrue(w)'
    BY <1>1, <1>2, <2>1, <2>2 DEF StepFits, RateKnown, FormTrue, EditSteps, OffSteps
  <2>5. RowsKeep(w)' /\ RowsFew(w)' /\ Ordered(w)' /\ EntryAlone(w)'
    BY <2>1, <2>2, <2>3 DEF RowsKeep, RowsFew, Ordered, EntryAlone, InIndex
  <2>6. OffKnown(w)'
    BY <1>2, <2>1, <2>2 DEF OffKnown, OffSteps, Held
  <2> QED
    BY <2>1, <2>3, <2>4, <2>5, <2>6 DEF WorkerOK
<1>4. CASE ~SwitchesOff(w)
  <2>1. stmt'[w] = "idle" /\ Resting(w)'
    BY <1>1, <1>2, <1>4 DEF CommitTariffs, Forget, TariffTypeOK, Resting, Held, NoRows
  <2> QED
    BY <2>1 DEF WorkerOK, Resting
<1> QED
  BY <1>3, <1>4

\* An import that commits within its file goes on without uncommitted rows.
LEMMA RowCommitSelf ==
  ASSUME SessionsInv, NEW w \in Users, CommitRow(w) \/ CommitValue(w)
  PROVE  /\ WorkerOK(w)' /\ Held(w)' = {} /\ asked[w].op = "import" /\ UNCHANGED queue
         /\ asked'[w].op = "import" /\ stmt'[w] \in {"exists", "close", "duplicate"}
<1>1. /\ TariffTypeOK /\ StepFits(w) /\ FormTrue(w) /\ asked[w].op = "import"
      /\ stmt[w] \in {"close", "duplicate", "commit"} /\ stamp[w] = Nil
      /\ wTariff' = [wTariff EXCEPT ![w] = NoRows] /\ UNCHANGED queue
  BY ActiveWorker DEF CommitRow, CommitValue, NextRow, StepFits
<1>2. forms'[w] = Nil /\ stamp'[w] = Nil
  BY CommitEffect DEF Commits
<1>3. Held(w)' = {}
  BY <1>1 DEF TariffTypeOK, Held, NoRows
<1>4. /\ asked'[w] \in Requests /\ asked'[w].op = "import"
      /\ stmt'[w] \in {"exists", "close", "duplicate"}
  <2>1. CASE CommitRow(w)
    BY <1>1, <2>1, NextRowEffect DEF CommitRow
  <2>2. CASE CommitValue(w)
    BY <1>1, <2>2 DEF CommitValue, StepFits
  <2> QED
    BY <2>1, <2>2
<1>5. StepFits(w)' /\ RateKnown(w)' /\ FormTrue(w)'
  BY <1>2, <1>4 DEF StepFits, RateKnown, FormTrue, EditSteps, OffSteps
<1>6. RowsKeep(w)' /\ RowsFew(w)' /\ OffKnown(w)' /\ Ordered(w)' /\ EntryAlone(w)'
  BY <1>3, <1>4 DEF RowsKeep, RowsFew, OffKnown, OffSteps, Ordered, EntryAlone, InIndex
<1> QED
  BY <1>1, <1>3, <1>4, <1>5, <1>6 DEF WorkerOK

LEMMA CommitOther ==
  ASSUME SessionsInv, NEW w \in Users, Commits(w), NEW v \in Users \ {w}
  PROVE  WorkerOK(v)'
<1>1. /\ stmt[w] # "editIndex" /\ TariffTypeOK /\ RowsKeep(w) /\ WorkerOK(v) /\ Apart(v, w) /\ Apart(w, v)
  BY Committing, ActiveWorker DEF SessionsInv, WorkersInv, RowsApart
<1>2. /\ Others(w) /\ TariffTypeOK'
      /\ \A t \in Held(w) : tariff'[t] = wTariff[w][t]
      /\ \A t \in TariffIds \ Held(w) : tariff'[t] = tariff[t]
      /\ \A n \in RateIds : rates[n] # Nil => rates'[n] # Nil
      /\ forms'[v] = Book!Outdated(Held(w))[v]
  BY CommitEffect
<1>3. Held(v) \cap Held(w) = {} /\ Held(v) \subseteq TariffIds /\ Held(w) \subseteq TariffIds
  BY <1>1 DEF Apart, Held
<1>4. \A t \in TariffIds : tariff[t] # Nil => tariff'[t] # Nil /\ tariff'[t].key = tariff[t].key
  BY <1>1, <1>2, <1>3 DEF RowsKeep, Held
<1>5. CASE stmt[v] = "idle"
  <2>1. Resting(v) /\ forms'[v] = Nil
    BY <1>1, <1>2, <1>5, OutdatedForms DEF WorkerOK, Resting
  <2> QED
    BY <1>2, <1>5, <2>1 DEF Others, WorkerOK, Resting, Held
<1>6. CASE stmt[v] # "idle"
  <2>1. FormTrue(v) /\ EntryAlone(v) /\ StepFits(v)
    BY <1>1, <1>6 DEF WorkerOK
  <2>2. /\ forms'[v] = Nil <=> forms[v] = Nil
        /\ forms[v] # Nil =>
             /\ forms'[v].tariff = forms[v].tariff /\ forms'[v].shown = forms[v].shown
             /\ forms'[v].fresh => forms[v].fresh /\ forms[v].tariff \notin Held(w)
             /\ forms[v].fresh /\ forms[v].tariff \notin Held(w) => forms'[v].fresh
             /\ forms[v].tariff \in TariffIds
    BY <1>1, <1>2, OutdatedForms
  <2>3. TablesKeep(v)
    BY <1>2, <1>3, <1>4, <2>2 DEF TablesKeep
  <2>4. EntryAlone(v)'
    <3> SUFFICES ASSUME NEW t \in TariffIds, InIndex(v, t)',
                        NEW s \in Book!CurrentOf(wTariff[v][t].key)'
                 PROVE  s = t
      BY <1>2 DEF EntryAlone, Others
    <3>1. InIndex(v, t) /\ wTariff'[v] = wTariff[v]
      BY <1>2 DEF InIndex, Others, Held
    <3>2. s \in TariffIds /\ tariff'[s] # Nil /\ tariff'[s].is_current /\ tariff'[s].key = wTariff[v][t].key
      BY <3>1 DEF Book!CurrentOf, Book!TariffsOf
    <3>3. CASE s \in Held(w)
      <4>1. InIndex(w, s) /\ wTariff[w][s].key = wTariff[v][t].key
        BY <1>1, <1>2, <3>2, <3>3 DEF InIndex
      <4> QED
        BY <1>1, <3>1, <3>2, <4>1 DEF Apart
    <3>4. CASE s \notin Held(w)
      <4>1. s \in Book!CurrentOf(wTariff[v][t].key)
        BY <1>2, <3>2, <3>4 DEF Book!CurrentOf, Book!TariffsOf
      <4> QED
        BY <2>1, <3>1, <4>1 DEF EntryAlone
    <3> QED
      BY <3>3, <3>4
  <2> QED
    BY <1>1, <1>2, <2>3, <2>4, OtherStays
<1> QED
  BY <1>5, <1>6

\* The terms that a commit stores are the ones it logs, or they are the old.
LEMMA CommitLogs ==
  ASSUME SessionsInv, NEW w \in Users, Commits(w)
  PROVE  HistoryFollows'
<1>1. TariffTypeOK /\ RowsKeep(w)
  BY Committing, ActiveWorker
<1> SUFFICES ASSUME NEW t \in TariffIds, tariff'[t] # Nil
             PROVE  logged'[t] = Book!Terms(tariff'[t])
  BY DEF HistoryFollows, Book!HistoryFollows, Book!Terms
<1>2. CASE t \notin Held(w)
  BY <1>2, CommitEffect DEF SessionsInv, HistoryFollows, Book!HistoryFollows
<1>3. CASE t \in Held(w) /\ HasHistory(w, t)
  BY <1>3, CommitEffect
<1>4. CASE t \in Held(w) /\ ~HasHistory(w, t)
  <2>1. asked[w].op = "import" /\ tariff[t] # Nil
    BY <1>4 DEF HasHistory
  <2>2. Book!Terms(wTariff[w][t]) = Book!Terms(tariff[t])
    BY <1>1, <1>4, <2>1 DEF RowsKeep
  <2> QED
    BY <1>4, <2>1, <2>2, CommitEffect DEF SessionsInv, HistoryFollows, Book!HistoryFollows
<1> QED
  BY <1>2, <1>3, <1>4

LEMMA CommitUnique ==
  ASSUME SessionsInv, NEW w \in Users, Commits(w)
  PROVE  CurrentUnique'
<1>1. /\ stmt[w] # "editIndex" /\ TariffTypeOK /\ RowsKeep(w) /\ RowsFew(w) /\ EntryAlone(w)
      /\ asked[w].op \in {"create", "edit", "upsert", "import"}
  BY Committing, ActiveWorker
<1>2. /\ \A t \in Held(w) : tariff'[t] = wTariff[w][t]
      /\ \A t \in TariffIds \ Held(w) : tariff'[t] = tariff[t]
  BY CommitEffect
<1>3. Held(w) \subseteq TariffIds
  BY DEF Held
<1>4. ASSUME NEW s \in TariffIds, NEW t \in Held(w), tariff'[s] # Nil, tariff'[s].is_current,
             tariff'[t].is_current, tariff'[s].key = tariff'[t].key
      PROVE  s = t
  <2>1. InIndex(w, t) /\ wTariff[w][t].key = tariff'[s].key
    BY <1>1, <1>2, <1>4 DEF InIndex
  <2>2. CASE s \notin Held(w)
    <3>1. s \in Book!CurrentOf(wTariff[w][t].key)
      BY <1>2, <1>4, <2>1, <2>2 DEF Book!CurrentOf, Book!TariffsOf
    <3> QED
      BY <1>1, <1>3, <2>1, <3>1 DEF EntryAlone
  <2>3. CASE s \in Held(w)
    <3>1. CASE asked[w].op \in {"create", "edit"}
      BY <1>1, <1>4, <2>3, <3>1 DEF RowsFew, RowsKeep
    <3>2. CASE asked[w].op = "import"
      BY <1>1, <1>2, <1>4, <2>3, <3>2 DEF RowsFew, RowsKeep
    <3>3. CASE asked[w].op = "upsert"
      <4>1. s \in Book!CurrentOf(wTariff[w][t].key)
        BY <1>1, <1>2, <1>3, <1>4, <2>1, <2>3, <3>3 DEF RowsKeep, Book!CurrentOf, Book!TariffsOf
      <4> QED
        BY <1>1, <1>3, <2>1, <4>1 DEF EntryAlone
    <3> QED
      BY <1>1, <3>1, <3>2, <3>3
  <2> QED
    BY <2>2, <2>3
<1> SUFFICES ASSUME NEW s \in TariffIds, NEW t \in TariffIds,
                    tariff'[s] # Nil, tariff'[s].is_current, tariff'[t] # Nil, tariff'[t].is_current,
                    tariff'[s].key = tariff'[t].key
             PROVE  s = t
  BY DEF CurrentUnique, Book!CurrentUnique
<1>5. CASE s \in Held(w) \/ t \in Held(w)
  BY <1>4, <1>5
<1>6. CASE s \notin Held(w) /\ t \notin Held(w)
  BY <1>2, <1>6 DEF SessionsInv, CurrentUnique, Book!CurrentUnique
<1> QED
  BY <1>5, <1>6

LEMMA CommitInv ==
  ASSUME SessionsInv, NEW w \in Users, Commits(w)
  PROVE  SessionsInv'
<1>1. TariffTypeOK' /\ Others(w)
  BY CommitEffect
<1>2. \A v \in Users : WorkerOK(v)'
  BY CommitSelf, RowCommitSelf, CommitOther DEF Commits
<1>3. RowsApart'
  <2>1. Held(w)' = {}
    BY CommitSelf, RowCommitSelf DEF Commits
  <2>2. \A v \in Users : Apart(v, w)' /\ Apart(w, v)'
    BY <2>1 DEF Apart, InIndex
  <2>3. \A u, v \in Users \ {w} : u # v => Apart(u, v)'
    BY <1>1 DEF SessionsInv, WorkersInv, RowsApart, Apart, Others, InIndex, Held
  <2> QED
    BY <2>2, <2>3 DEF RowsApart
<1>4. LatestExists'
  <2>1. CASE rates' = rates
    BY <2>1 DEF SessionsInv, LatestExists, Book!RatesOf
  <2>2. CASE stamp[w] \in RateIds /\ \E rate \in Book!Rates : rates' = [rates EXCEPT ![stamp[w]] = rate]
    <3>1. PICK rate \in Book!Rates : rates' = [rates EXCEPT ![stamp[w]] = rate]
      BY <2>2
    <3>2. rates[stamp[w]] = Nil
      BY <2>2, NotNil DEF SessionsInv, StampsNew
    <3> SUFFICES ASSUME NEW c \in Currencies, Book!RatesOf(c)' # {}
                 PROVE  \E m \in Book!RatesOf(c)' : \A k \in Book!RatesOf(c)' : k <= m
      BY DEF LatestExists
    <3>3. Book!RatesOf(c)' \in {Book!RatesOf(c), Book!RatesOf(c) \cup {stamp[w]}}
      BY <2>2, <3>1, <3>2 DEF Book!RatesOf, SessionsInv, WorkersInv, TariffTypeOK, Book!TypeOK
    <3>4. Book!RatesOf(c) # {} => \E m \in Book!RatesOf(c) : \A k \in Book!RatesOf(c) : k <= m
      BY DEF SessionsInv, LatestExists
    <3>5. Book!RatesOf(c) \subseteq Nat /\ stamp[w] \in Nat
      BY <2>2, MoneyAssumption DEF Book!RatesOf
    <3> HIDE DEF Book!RatesOf
    <3> QED
      BY <3>3, <3>4, <3>5
  <2> QED
    BY <2>1, <2>2, CommitEffect
<1>5. StampsNew'
  <2>1. /\ stamp'[w] = Nil /\ Others(w) /\ StampsNew
        /\ \/ rates' = rates
           \/ stamp[w] \in RateIds /\ \E rate \in Book!Rates : rates' = [rates EXCEPT ![stamp[w]] = rate]
    BY CommitEffect DEF SessionsInv
  <2>2. \A v \in Users \ {w} : stamp'[v] = stamp[v] /\ (stamp[v] # Nil => stamp[v] # stamp[w])
    BY <2>1 DEF Others, StampsNew
  <2>3. \A v \in Users \ {w} : stamp[v] # Nil => stamp[v] \in RateIds /\ rates'[stamp[v]] = Nil
    BY <2>1, <2>2 DEF StampsNew, SessionsInv, WorkersInv, TariffTypeOK, Book!TypeOK
  <2> QED
    BY <2>1, <2>2, <2>3 DEF StampsNew
<1> QED
  BY <1>1, <1>2, <1>3, <1>4, <1>5, CommitLogs, CommitUnique DEF SessionsInv, WorkersInv

--------------------------------------------------------------------------------
(* The invariant.                                                          *)

LEMMA InitInv == TariffInit => SessionsInv
<1> SUFFICES ASSUME TariffInit PROVE SessionsInv
  OBVIOUS
<1>1. /\ tariff = [t \in TariffIds |-> Nil] /\ rates = [n \in RateIds |-> Nil]
      /\ logged = [t \in TariffIds |-> Nil] /\ forms = [u \in Users |-> Nil]
      /\ stmt = [w \in Users |-> "idle"] /\ asked = [w \in Users |-> Nil]
      /\ stamp = [w \in Users |-> Nil] /\ rateRead = [w \in Users |-> Nil]
      /\ queue = [w \in Users |-> <<>>] /\ wTariff = [w \in Users |-> NoRows]
  BY DEF TariffInit, Book!Init
<1>2. TariffTypeOK
  <2>1. <<>> \in Seq(Jobs) /\ NoRows \in [TariffIds -> Book!Tariffs \cup {Nil}]
        /\ "idle" \in Statements
    BY DEF NoRows, Statements
  <2> QED
    BY <1>1, <2>1 DEF TariffTypeOK, Book!TypeOK
<1>3. \A w \in Users : Resting(w) /\ stmt[w] = "idle"
  BY <1>1 DEF Resting, Held, NoRows
<1>4. (\A w \in Users : WorkerOK(w)) /\ RowsApart
  BY <1>3 DEF WorkerOK, Resting, RowsApart, Apart, InIndex
<1>5. StampsNew /\ LatestExists /\ CurrentUnique /\ HistoryFollows
  BY <1>1 DEF StampsNew, LatestExists, Book!RatesOf, CurrentUnique, Book!CurrentUnique,
              HistoryFollows, Book!HistoryFollows
<1> QED
  BY <1>2, <1>4, <1>5 DEF SessionsInv, WorkersInv

LEMMA StepInv ==
  ASSUME SessionsInv, NEW w \in Users, TariffStep(w)
  PROVE  SessionsInv'
BY ReadRateInv, FindDuplicateInv, InsertInv, OffReadInv, OffWriteInv, EditReadInv, EditWriteInv,
   EditIndexInv, SelectInv, RecalculateInv, ImportExistsInv, ImportCloseInv, RefuseRowInv, CommitInv
   DEF TariffStep, Commits

LEMMA StutterInv ==
  ASSUME SessionsInv, UNCHANGED tariffVars
  PROVE  SessionsInv'
<1>1. /\ UNCHANGED <<tariff, rates, logged, forms>>
      /\ UNCHANGED <<stmt, asked, stamp, rateRead, queue, wTariff>>
  BY DEF tariffVars, tables
<1>2. TariffTypeOK'
  BY <1>1 DEF SessionsInv, WorkersInv, TariffTypeOK, Book!TypeOK
<1>3. \A w \in Users : WorkerOK(w)'
  <2> SUFFICES ASSUME NEW w \in Users PROVE WorkerOK(w)'
    OBVIOUS
  <2>1. WorkerOK(w) /\ Held(w)' = Held(w) /\ Queued(w)' = Queued(w)
    BY <1>1 DEF SessionsInv, WorkersInv, Held, Queued
  <2>2. CASE stmt[w] = "idle"
    BY <1>1, <2>1, <2>2 DEF WorkerOK, Resting
  <2>3. CASE stmt[w] # "idle"
    <3>1. StepFits(w)' /\ RateKnown(w)' /\ FormTrue(w)'
      BY <1>1, <2>1, <2>3 DEF WorkerOK, StepFits, RateKnown, FormTrue, Book!Display
    <3>2. RowsKeep(w)' /\ RowsFew(w)' /\ OffKnown(w)'
      BY <1>1, <2>1, <2>3 DEF WorkerOK, RowsKeep, RowsFew, OffKnown, Book!Terms
    <3>3. Ordered(w)' /\ EntryAlone(w)'
      BY <1>1, <2>1, <2>3 DEF WorkerOK, Ordered, EntryAlone, InIndex, Book!CurrentOf, Book!TariffsOf
    <3> QED
      BY <1>1, <2>3, <3>1, <3>2, <3>3 DEF WorkerOK
  <2> QED
    BY <2>2, <2>3
<1>4. RowsApart'
  BY <1>1 DEF SessionsInv, WorkersInv, RowsApart, Apart, InIndex, Held
<1>5. StampsNew' /\ LatestExists'
  BY <1>1 DEF SessionsInv, StampsNew, LatestExists, Book!RatesOf
<1>6. CurrentUnique' /\ HistoryFollows'
  BY <1>1 DEF SessionsInv, CurrentUnique, Book!CurrentUnique, HistoryFollows,
              Book!HistoryFollows, Book!Terms
<1> QED
  BY <1>2, <1>3, <1>4, <1>5, <1>6 DEF SessionsInv, WorkersInv

\* Everything that overlapping transactions rely on, at every step of theirs.
THEOREM SessionsInvariant == TariffSpec => []SessionsInv
<1>1. SessionsInv /\ [TariffNext]_tariffVars => SessionsInv'
  <2> SUFFICES ASSUME SessionsInv, [TariffNext]_tariffVars PROVE SessionsInv'
    OBVIOUS
  <2>1. ASSUME NEW w \in Users, BeginRequest(w) PROVE SessionsInv'
    BY <2>1, BeginInv
  <2>2. ASSUME NEW w \in Users, TariffStep(w) PROVE SessionsInv'
    BY <2>2, StepInv
  <2>3. ASSUME NEW w \in Users, BreakOff(w) PROVE SessionsInv'
    BY <2>3, RollBackInv DEF BreakOff
  <2> QED
    BY <2>1, <2>2, <2>3, StutterInv DEF TariffNext
<1> QED
  BY <1>1, InitInv, PTL DEF TariffSpec

\* The tables, the workers and their uncommitted rows have their types.
THEOREM TariffsTyped == TariffSpec => []TariffTypeOK
BY SessionsInvariant, PTL DEF SessionsInv, WorkersInv

\* However many requests overlap, at whichever statement, one tariff of a key
\* is in force at most.
THEOREM OverlappingCurrentUnique == TariffSpec => []CurrentUnique
BY SessionsInvariant, PTL DEF SessionsInv

\* However many requests overlap, the latest history row of every tariff
\* records the terms that it has.
THEOREM OverlappingHistoryFollows == TariffSpec => []HistoryFollows
BY SessionsInvariant, PTL DEF SessionsInv

--------------------------------------------------------------------------------
(* Saved edits.                                                            *)

\* Only a commit changes committed rows.
LEMMA OnlyCommits ==
  ASSUME NEW w \in Users, BeginRequest(w) \/ TariffStep(w) \/ BreakOff(w), ~Commits(w)
  PROVE  tariff' = tariff
<1>1. BeginRequest(w) => tariff' = tariff
  BY DEF BeginRequest, Book!OpenForm, tables
<1>2. RollBack(w) => tariff' = tariff
  BY DEF RollBack
<1>3. \A step : Proceed(w, step) => tariff' = tariff
  BY DEF Proceed, tables
<1>4. ReadRate(w) \/ FindDuplicate(w) \/ InsertTariff(w) \/ OffRead(w) \/ OffWrite(w)
        => tariff' = tariff
  BY <1>2, <1>3 DEF ReadRate, FindDuplicate, InsertTariff, OffRead, OffWrite
<1>5. EditRead(w) \/ EditWrite(w) \/ EditIndex(w) => tariff' = tariff
  BY <1>2, <1>3 DEF EditRead, EditWrite, EditIndex
<1>6. SelectTariffs(w) \/ Recalculate(w) \/ ImportExists(w) \/ ImportClose(w) \/ RefuseRow(w)
        => tariff' = tariff
  BY <1>3 DEF SelectTariffs, Recalculate, ImportExists, ImportClose, RefuseRow
<1> QED
  BY <1>1, <1>2, <1>4, <1>5, <1>6 DEF TariffStep, BreakOff, Commits

\* An edit that commits has its form compared again under the lock of the row,
\* so it replaces what its user saw.
THEOREM OverlappingEditsNotLost == TariffSpec => EditsNotLost
<1> DEFINE Safe ==
      \A u \in Users, t \in TariffIds :
          forms[u] # Nil /\ forms[u].tariff = t /\ tariff[t] # Nil
            /\ forms'[u] = Nil /\ tariff'[t] # tariff[t]
              => forms[u].shown = Book!Display(tariff[t])
<1>1. SessionsInv /\ [TariffNext]_tariffVars => [Safe]_(Book!vars)
  <2> SUFFICES ASSUME SessionsInv, [TariffNext]_tariffVars,
                      NEW u \in Users, forms[u] # Nil, forms'[u] = Nil,
                      tariff'[forms[u].tariff] # tariff[forms[u].tariff]
               PROVE  forms[u].shown = Book!Display(tariff[forms[u].tariff])
    OBVIOUS
  <2>1. tariff' # tariff
    OBVIOUS
  <2>2. PICK w \in Users : Commits(w)
    BY <2>1, OnlyCommits DEF TariffNext, tariffVars, tables
  <2>3. TariffTypeOK /\ FormTrue(w)
    BY <2>2, Committing, ActiveWorker
  <2>4. u = w
    BY <2>2, <2>3, CommitEffect, OutdatedForms
  <2>5. asked[w].op = "edit"
    BY <2>3, <2>4 DEF FormTrue
  <2>6. stmt[w] = "commit"
    BY <2>2, <2>5, Committing DEF CommitTariffs
  <2> QED
    BY <2>3, <2>4, <2>6 DEF FormTrue
<1> QED
  BY <1>1, SessionsInvariant, PTL DEF TariffSpec, EditsNotLost, Book!EditsNotLost

--------------------------------------------------------------------------------
(* Waiting.                                                                *)

\* A finite set of numbers that is not empty has a largest one.
LEMMA LargestExists ==
  ASSUME NEW S \in SUBSET TariffIds, S # {}
  PROVE  \E n \in S : \A m \in S : m <= n
<1> DEFINE Above(n) == {m \in S : m >= n}
           sizes == {Cardinality(Above(n)) : n \in S}
           R == OpToRel(<, Nat)
<1>1. S \subseteq Nat /\ IsFiniteSet(S)
  BY TariffIdsAssumption, FS_Subset
<1>2. \A n \in S : IsFiniteSet(Above(n)) /\ Cardinality(Above(n)) \in Nat
  BY <1>1, FS_Subset, FS_CardinalityType
<1>3. sizes \subseteq Nat /\ sizes # {}
  BY <1>2
<1>4. IsWellFoundedOn(R, Nat) /\ \A e, d \in Nat : e < d => <<e, d>> \in R
  <2>1. ASSUME NEW e \in Nat, NEW d \in Nat, e < d PROVE <<e, d>> \in R
    BY <2>1, Zenon DEF OpToRel
  <2> QED
    BY <2>1, NatLessThanWellFounded, Zenon
<1> HIDE DEF R
<1>5. PICK d \in sizes : \A e \in sizes : ~(<<e, d>> \in R)
  <2>1. sizes \subseteq Nat /\ sizes # {} /\ IsWellFoundedOn(R, Nat)
    BY <1>3, <1>4
  <2> HIDE DEF sizes
  <2> QED
    BY <2>1, WFMin
<1>6. PICK n \in S : d = Cardinality(Above(n))
  OBVIOUS
<1> SUFFICES ASSUME NEW m \in S, ~(m <= n) PROVE FALSE
  OBVIOUS
<1>7. Above(m) \subseteq Above(n) /\ n \in Above(n) /\ n \notin Above(m)
  <2>1. n \in Nat /\ m \in Nat /\ n < m /\ \A x \in S : x \in Nat
    BY <1>1
  <2>2. \A x \in S : x >= m => x >= n
    BY <2>1
  <2>3. n >= n /\ ~(n >= m)
    BY <2>1
  <2> QED
    BY <2>2, <2>3, Zenon
<1>8. Cardinality(Above(m)) < Cardinality(Above(n))
  <2> HIDE DEF Above
  <2>1. Above(m) # Above(n)
    BY <1>7
  <2>2. Cardinality(Above(m)) <= Cardinality(Above(n))
        /\ Cardinality(Above(m)) # Cardinality(Above(n))
    BY <1>2, <1>7, <2>1, FS_Subset
  <2> QED
    BY <1>2, <2>2
<1> QED
  BY <1>2, <1>4, <1>5, <1>6, <1>8

\* Only a transaction that has written makes others wait.
LEMMA Blockers ==
  ASSUME NEW w, NEW v \in BlockedBy(w)
  PROVE  v \in Users /\ v # w /\ Held(v) # {}
BY DEF BlockedBy, RowLockers, KeyLockers

\* A transaction that has written and waits is a recalculation or an edit that
\* puts its tariff in force, or an import that carries what it has closed.
LEMMA WaitingHolders ==
  ASSUME SessionsInv, NEW w \in Users, Held(w) # {}, BlockedBy(w) # {}, ~Carries(w)
  PROVE  /\ stmt[w] \in {"recalculate", "editIndex"}
         /\ asked[w] \in Requests
         /\ stmt[w] = "recalculate" =>
               asked[w].op = "upsert" /\ queue[w] # <<>>
                 /\ BlockedBy(w) = RowLockers(w, {Head(queue[w]).tariff})
         /\ stmt[w] = "editIndex" =>
               asked[w].op = "edit" /\ Held(w) = {asked[w].tariff}
                 /\ BlockedBy(w) = KeyLockers(w, tariff[asked[w].tariff].key)
<1>1. stmt[w] # "idle"
  BY DEF BlockedBy
<1>2. StepFits(w) /\ RowsKeep(w) /\ RowsFew(w)
  BY <1>1, ActiveWorker
<1>3. stmt[w] \in {"recalculate", "editIndex"}
  <2>1. asked[w].op # "import"
    <3> SUFFICES ASSUME asked[w].op = "import" PROVE Carries(w)
      OBVIOUS
    <3>1. stmt[w] \in {"close", "insert"}
      BY <1>2 DEF BlockedBy, StepFits, EditSteps, OffSteps
    <3> QED
      BY <1>2, <3>1 DEF Carries, RowsKeep, RowSteps
  <2> QED
    BY <1>2, <2>1 DEF BlockedBy, RowsKeep, WritingSteps
<1>4. stmt[w] = "editIndex" => asked[w].op = "edit" /\ Held(w) = {asked[w].tariff}
  BY <1>2 DEF StepFits, EditSteps, RowsKeep, RowsFew
<1> QED
  BY <1>2, <1>3, <1>4 DEF StepFits, BlockedBy

\* What keeps an entry of the unique index from an edit is a recalculation's
\* row, if its transaction waits itself.
LEMMA WaitingForIndex ==
  ASSUME SessionsInv, NEW e \in Users, Held(e) # {}, stmt[e] = "editIndex",
         NEW v \in BlockedBy(e), BlockedBy(v) # {}, ~Carries(v)
  PROVE  /\ stmt[v] = "recalculate"
         /\ \E s \in Held(v) : tariff[s].key = tariff[asked[e].tariff].key
<1>1. v \in Users /\ v # e /\ Held(v) # {} /\ TariffTypeOK
  BY Blockers DEF SessionsInv, WorkersInv
<1>2. PICK s \in Held(v) :
        /\ wTariff[v][s].key = tariff[asked[e].tariff].key
        /\ \/ wTariff[v][s].is_current /\ stmt[v] # "editIndex"
           \/ tariff[s] # Nil /\ tariff[s].is_current
  BY WaitingHolders DEF KeyLockers, Carries
<1>3. stmt[v] # "idle" /\ RowsKeep(v) /\ RowsFew(v) /\ FormTrue(v)
  BY <1>1, WaitingHolders, ActiveWorker
<1>4. stmt[v] # "editIndex"
  <2> SUFFICES ASSUME stmt[v] = "editIndex" PROVE FALSE
    OBVIOUS
  <2>1. s = asked[v].tariff /\ tariff[s] # Nil
    BY <1>1, <1>3, WaitingHolders DEF FormTrue
  <2> QED
    BY <1>2, <1>3, <2>1 DEF RowsFew
<1>5. stmt[v] = "recalculate"
  BY <1>1, <1>4, WaitingHolders
<1>6. tariff[s] # Nil /\ wTariff[v][s].key = tariff[s].key
  BY <1>1, <1>2, <1>3, <1>5 DEF RowsKeep
<1> QED
  BY <1>2, <1>5, <1>6

\* A recalculation waits for the row of the first tariff it still has to write,
\* which follows all those it has written.
LEMMA WaitingForRow ==
  ASSUME SessionsInv, NEW r \in Users, Held(r) # {}, stmt[r] = "recalculate",
         NEW v \in BlockedBy(r)
  PROVE  /\ Head(queue[r]).tariff \in TariffIds
         /\ Head(queue[r]).tariff \in Held(v)
         /\ \A s \in Held(r) : s < Head(queue[r]).tariff
         /\ \A s \in Held(r) : tariff[s].key # tariff[Head(queue[r]).tariff].key
<1>1. /\ asked[r].op = "upsert" /\ queue[r] # <<>>
      /\ BlockedBy(r) = RowLockers(r, {Head(queue[r]).tariff})
  BY WaitingHolders DEF Carries
<1>2. TariffTypeOK /\ Ordered(r)
  BY ActiveWorker
<1>3. Head(queue[r]).tariff \in Queued(r) /\ Head(queue[r]).tariff \in TariffIds
  BY <1>1, <1>2, QueuedType DEF Queued
<1>4. \A s \in Held(r) : s < Head(queue[r]).tariff
  BY <1>1, <1>2, <1>3 DEF Ordered
<1>5. \A s \in Held(r) : tariff[s].key # tariff[Head(queue[r]).tariff].key
  <2> SUFFICES ASSUME NEW s \in Held(r), tariff[s].key = tariff[Head(queue[r]).tariff].key
               PROVE  FALSE
    OBVIOUS
  <2>1. s = Head(queue[r]).tariff
    BY <1>1, <1>2, <1>3 DEF Ordered
  <2>2. s < s /\ s \in Nat
    BY <1>3, <1>4, <2>1, TariffIdsAssumption
  <2> QED
    BY <2>2
<1> QED
  BY <1>1, <1>3, <1>4, <1>5 DEF RowLockers

LEMMA ThreeInvolved == SessionsInv => DeadlocksExplained
<1> SUFFICES ASSUME SessionsInv, NEW ws \in SUBSET Users, Deadlocked(ws), \A i \in ws : ~Carries(i)
             PROVE  \E e, q, r \in ws :
                        /\ stmt[e] = "editIndex"
                        /\ q # r /\ stmt[q] = "recalculate" /\ stmt[r] = "recalculate"
  BY DEF DeadlocksExplained
<1> DEFINE holders == {v \in ws : \E w \in ws : v \in BlockedBy(w)}
           first(w) == Head(queue[w]).tariff
<1>1. \A w \in ws : \E v \in holders : v \in BlockedBy(w)
  BY DEF Deadlocked
<1>2. \A v \in holders : v \in Users /\ v \in ws /\ Held(v) # {} /\ BlockedBy(v) # {} /\ ~Carries(v)
  BY <1>1, Blockers
<1>3. holders # {}
  BY <1>1 DEF Deadlocked
<1>4. \A v \in holders : stmt[v] \in {"recalculate", "editIndex"}
  BY <1>2, WaitingHolders
<1> HIDE DEF holders
<1>5. \E e \in holders : stmt[e] = "editIndex"
  <2> SUFFICES ASSUME \A v \in holders : stmt[v] = "recalculate" PROVE FALSE
    BY <1>4
  <2> DEFINE waited == {first(v) : v \in holders}
  <2>1. waited \in SUBSET TariffIds /\ waited # {}
    <3>1. \A v \in holders : first(v) \in TariffIds
      BY <1>2, WaitingForRow
    <3> QED
      BY <1>3, <3>1
  <2>2. PICK n \in waited : \A m \in waited : m <= n
    BY <2>1, LargestExists
  <2>3. PICK v \in holders : n = first(v)
    OBVIOUS
  <2>4. PICK u \in holders : u \in BlockedBy(v)
    BY <1>1, <1>2
  <2>5. first(v) \in Held(u)
    BY <1>2, <2>4, WaitingForRow
  <2>6. PICK x \in BlockedBy(u) : TRUE
    BY <1>2
  <2>7. first(v) < first(u) /\ first(u) <= first(v)
    BY <1>2, <2>2, <2>3, <2>5, <2>6, WaitingForRow
  <2>8. first(v) \in Nat /\ first(u) \in Nat
    BY <2>1, TariffIdsAssumption
  <2> HIDE DEF first
  <2> QED
    BY <2>7, <2>8
<1>6. PICK e \in holders : stmt[e] = "editIndex"
  BY <1>5
<1>7. PICK r \in holders : r \in BlockedBy(e)
  BY <1>1, <1>2
<1>8. stmt[r] = "recalculate"
  BY <1>2, <1>6, <1>7, WaitingForIndex
<1>9. PICK v \in holders : v \in BlockedBy(r)
  BY <1>1, <1>2
<1>10. v # r /\ first(r) \in Held(v) /\ \A s \in Held(r) : tariff[s].key # tariff[first(r)].key
  BY <1>2, <1>8, <1>9, WaitingForRow, Blockers
<1>11. CASE stmt[v] = "recalculate"
  BY <1>2, <1>6, <1>8, <1>10, <1>11
<1>12. CASE stmt[v] = "editIndex"
  <2>1. first(r) = asked[v].tariff
    BY <1>2, <1>10, <1>12, WaitingHolders
  <2>2. PICK q \in holders : q \in BlockedBy(v)
    BY <1>1, <1>2
  <2>3. stmt[q] = "recalculate" /\ \E s \in Held(q) : tariff[s].key = tariff[first(r)].key
    BY <1>2, <1>12, <2>1, <2>2, WaitingForIndex
  <2>4. q # r
    BY <1>10, <2>3
  <2> QED
    BY <1>2, <1>6, <1>8, <2>3, <2>4
<1> QED
  BY <1>4, <1>11, <1>12

\* Transactions wait for one another in a circle only if an import among them
\* waits with tariffs that earlier rows of its file have closed, or if an edit
\* that puts its tariff in force waits for one recalculation and this one for
\* another: ORDER BY id keeps recalculations alone from it, for any number of
\* users.
THEOREM OverlappingDeadlocksExplained == TariffSpec => []DeadlocksExplained
BY SessionsInvariant, ThreeInvolved, PTL

--------------------------------------------------------------------------------
(***************************************************************************)
(* Separate requests run as requests that run alone: what they do is steps *)
(* of TariffBook.                                                          *)
(***************************************************************************)
\* The tariffs that an import has put out of force and not committed.
ClosedBy(w) == {t \in Held(w) : tariff[t] # Nil}

\* The keys and the currencies that a request reads or writes.
Concerned(w) ==
    [keys |-> CASE asked[w].op = "create" -> {asked[w].key}
                [] asked[w].op = "edit" -> {tariff[asked[w].tariff].key}
                [] asked[w].op = "import" -> {asked[w].key} \cup {tariff[t].key : t \in ClosedBy(w)}
                [] OTHER -> {},
     currencies |-> {asked[w].currency} \cup
        CASE asked[w].op = "edit" -> {tariff[asked[w].tariff].currency}
          [] asked[w].op = "import" ->
                {tariff[t].currency : t \in Book!CurrentOf(asked[w].key) \cup ClosedBy(w)}
          [] OTHER -> {}]

\* Requests in progress have no key in common, and a new rate is of a currency
\* that no other of them deals with.
Separate ==
    \A v, w \in Users : v # w /\ stmt[v] # "idle" /\ stmt[w] # "idle" =>
        /\ Concerned(v).keys \cap Concerned(w).keys = {}
        /\ asked[v].op = "upsert" => Concerned(v).currencies \cap Concerned(w).currencies = {}

\* Between the two transactions of a create "out of force" the new tariff is
\* committed in force: the request is not finished, and TariffBook, where it
\* is one step, has no such tariff yet.
SwitchingOff(w) ==
    \/ stmt[w] \in {"offRead", "offWrite"}
    \/ /\ stmt[w] = "commit" /\ asked[w].op = "create" /\ queue[w] # <<>>
       /\ tariff[Head(queue[w]).tariff] # Nil

Unfinished == {Head(queue[w]).tariff : w \in {v \in Users : SwitchingOff(v)}}

VisibleTariff == [t \in TariffIds |-> IF t \in Unfinished THEN Nil ELSE tariff[t]]
VisibleLogged == [t \in TariffIds |-> IF t \in Unfinished THEN Nil ELSE logged[t]]

Alone == INSTANCE TariffBookProofs
    WITH Absent <- Nil, tariff <- VisibleTariff, logged <- VisibleLogged

\* A row put out of force.
Off(row) == [row EXCEPT !.is_current = FALSE]

\* Nobody else's request changes the rate that a request has read ...
RateLatest(w) ==
    Book!RatesOf(asked[w].currency) # {} /\ rateRead[w] = Book!LatestRate(asked[w].currency)

\* ... nor anything else it has read: what it is about to write is what it
\* would write if it began now.
InsertReady(w) ==
    /\ Book!TariffsOf(asked[w].key) = {}
    /\ \E t \in TariffIds :
          /\ Held(w) = {t} /\ tariff[t] = Nil /\ wTariff[w][t] = NewRow(w)
          /\ ~asked[w].current => queue[w] # <<>> /\ Head(queue[w]).tariff = t

OffReady(w) ==
    LET t == Head(queue[w]).tariff IN
    /\ queue[w] # <<>> /\ ~asked[w].current
    /\ Book!TariffsOf(asked[w].key) = {t} /\ tariff[t] = NewRow(w)
    /\ stmt[w] = "commit" => Held(w) = {t} /\ wTariff[w][t] = Off(NewRow(w))

CreateAlone(w) ==
    /\ stmt[w] # "rate" => RateLatest(w)
    /\ stmt[w] \in {"rate", "duplicate", "insert"} => queue[w] = <<>>
    /\ stmt[w] = "insert" => Book!TariffsOf(asked[w].key) = {}
    /\ asked[w].current => queue[w] = <<>>
    /\ stmt[w] = "commit" => InsertReady(w) \/ OffReady(w)
    /\ stmt[w] \in OffSteps => OffReady(w)

EditAlone(w) ==
    LET q == asked[w]
        row == tariff[q.tariff]
    IN
    /\ forms[w].fresh
    /\ stmt[w] # "rate" => RateLatest(w)
    /\ stmt[w] \in {"editWrite", "editIndex", "commit"} =>
          Book!Changes(row, q.price, q.currency, q.current, q.commented)
    /\ stmt[w] \in {"editIndex", "commit"} =>
          Held(w) = {q.tariff} /\ wTariff[w][q.tariff] = EditedRow(w)
    /\ stmt[w] = "commit" /\ q.current => Book!CurrentOf(row.key) \subseteq {q.tariff}

UpsertAlone(w) ==
    /\ \A m \in Book!RatesOf(asked[w].currency) : m < stamp[w]
    /\ stmt[w] \in {"recalculate", "commit"} =>
          /\ Held(w) \cup Queued(w) = Book!RateUsers(asked[w].currency)
          /\ \A i \in 1 .. Len(queue[w]) : queue[w][i].price = tariff[queue[w][i].tariff].price
          /\ \A t \in Held(w) :
                wTariff[w][t] = Book!Recalculated(tariff[t], tariff[t].price, asked[w].rate, stamp[w])
    /\ stmt[w] = "commit" => queue[w] = <<>>

ClosingsReady(w) ==
    \A t \in ClosedBy(w) : tariff[t].is_current /\ wTariff[w][t] = Off(tariff[t])

RowReady(w) ==
    /\ Book!TariffsOf(asked[w].key) = {}
    /\ \E t \in Held(w) : tariff[t] = Nil /\ wTariff[w][t] = NewRow(w)

ImportAlone(w) ==
    /\ queue[w] = <<>>
    /\ ClosingsReady(w)
    /\ stmt[w] = "insert" => Book!TariffsOf(asked[w].key) = {}
    /\ stmt[w] = "commit" => Held(w) = ClosedBy(w) \/ RowReady(w)

AsAlone(w) ==
    CASE asked[w].op = "create" -> CreateAlone(w)
      [] asked[w].op = "edit" -> EditAlone(w)
      [] asked[w].op = "upsert" -> UpsertAlone(w)
      [] asked[w].op = "import" -> ImportAlone(w)

\* A tariff that was never committed has no history.
LoggedFits == \A t \in TariffIds : tariff[t] = Nil => logged[t] = Nil

AloneInv == LoggedFits /\ \A w \in Users : stmt[w] # "idle" => AsAlone(w)

\* What a step of somebody else leaves of the tables for a request.
Spared(v) ==
    /\ \A c \in Concerned(v).currencies :
          /\ Book!RatesOf(c)' = Book!RatesOf(c)
          /\ \A n \in Book!RatesOf(c) : rates'[n] = rates[n]
    /\ asked[v].op = "upsert" =>
          LET users == Book!RateUsers(asked[v].currency) IN
              Book!RateUsers(asked[v].currency)' = users /\ \A t \in users : tariff'[t] = tariff[t]
    /\ \A k \in Concerned(v).keys :
          Book!TariffsOf(k)' = Book!TariffsOf(k) /\ Book!CurrentOf(k)' = Book!CurrentOf(k)
    /\ \A t \in TariffIds :
          /\ tariff[t] # Nil /\ tariff[t].key \in Concerned(v).keys
          /\ tariff[t].currency \in Concerned(v).currencies
          => tariff'[t] = tariff[t]
    /\ \A t \in Held(v) : tariff'[t] = tariff[t]
    /\ forms[v] # Nil /\ forms[v].fresh => forms'[v].fresh

\* What the rows a request writes are computed from.
LEMMA ConcernedOf ==
  ASSUME NEW v \in Users
  PROVE  /\ asked[v].currency \in Concerned(v).currencies
         /\ asked[v].op = "create" => Concerned(v).keys = {asked[v].key}
         /\ asked[v].op = "import" => asked[v].key \in Concerned(v).keys
         /\ asked[v].op = "edit" => /\ Concerned(v).keys = {tariff[asked[v].tariff].key}
                                    /\ tariff[asked[v].tariff].currency \in Concerned(v).currencies
         /\ asked[v].op = "import" => \A t \in ClosedBy(v) :
               tariff[t].key \in Concerned(v).keys /\ tariff[t].currency \in Concerned(v).currencies
         /\ asked[v].op \in {"create", "upsert"} => Concerned(v).currencies = {asked[v].currency}
BY DEF Concerned

LEMMA RowFields ==
  ASSUME NEW k, NEW c, NEW p, NEW r, NEW n, NEW on \in BOOLEAN
  PROVE  /\ Book!Row(k, c, p, r, n, on).key = k /\ Book!Row(k, c, p, r, n, on).currency = c
         /\ Book!Row(k, c, p, r, n, on).is_current = on
BY DEF Book!Row

LEMMA SameRow ==
  ASSUME NEW row \in Book!Tariffs, NEW other \in Book!Tariffs,
         row.key = other.key, row.currency = other.currency, row.price = other.price,
         row.rate = other.rate, row.rate_id = other.rate_id, row.eur_price = other.eur_price,
         row.is_current = other.is_current
  PROVE  row = other
BY DEF Book!Tariffs

\* A row put out of force is the one that would have been written out of force.
LEMMA RowOff ==
  ASSUME NEW k \in Keys, NEW c \in Currencies, NEW p \in Prices, NEW r \in RateValues,
         NEW n \in RateIds \cup {Nil}
  PROVE  [Book!Row(k, c, p, r, n, TRUE) EXCEPT !.is_current = FALSE] = Book!Row(k, c, p, r, n, FALSE)
<1> DEFINE on == Book!Row(k, c, p, r, n, TRUE)
           off == Book!Row(k, c, p, r, n, FALSE)
<1>1. on \in Book!Tariffs /\ off \in Book!Tariffs
  BY RowType
<1>2. /\ on.key = off.key /\ on.currency = off.currency /\ on.price = off.price
      /\ on.rate = off.rate /\ on.rate_id = off.rate_id /\ on.eur_price = off.eur_price
      /\ off.is_current = FALSE
  BY DEF Book!Row
<1> HIDE DEF on, off
<1> DEFINE set == [on EXCEPT !.is_current = FALSE]
<1>3. /\ set \in Book!Tariffs /\ set.key = on.key /\ set.currency = on.currency
      /\ set.price = on.price /\ set.rate = on.rate /\ set.rate_id = on.rate_id
      /\ set.eur_price = on.eur_price /\ set.is_current = FALSE
  BY <1>1 DEF Book!Tariffs
<1> HIDE DEF set
<1>4. set = off
  BY <1>1, <1>2, <1>3, SameRow
<1> QED
  BY <1>4 DEF set, on, off

\* The new row of an insert, computed again after a step of somebody else.
LEMMA NewRowKept ==
  ASSUME NEW v \in Users, Spared(v), asked'[v] = asked[v], rateRead'[v] = rateRead[v],
         asked[v].op \in {"create", "import"},
         asked[v].op = "create" => rateRead[v] \in Book!RatesOf(asked[v].currency)
  PROVE  NewRow(v)' = NewRow(v)
<1>1. asked[v].op = "create" => rates'[rateRead[v]] = rates[rateRead[v]]
  BY ConcernedOf DEF Spared
<1> QED
  BY <1>1 DEF NewRow, Book!Row, Book!EurPrice

LEMMA RateLatestKept ==
  ASSUME NEW v \in Users, Spared(v), asked'[v] = asked[v], rateRead'[v] = rateRead[v], RateLatest(v)
  PROVE  RateLatest(v)'
<1> DEFINE c == asked[v].currency
<1>1. c \in Concerned(v).currencies
  BY ConcernedOf
<1>2. Book!RatesOf(c)' = Book!RatesOf(c)
  BY <1>1 DEF Spared, Book!RatesOf
<1> QED
  BY <1>2 DEF RateLatest, Book!LatestRate

\* Nothing of the worker itself changes.
StaysAt(v) ==
    /\ stmt'[v] = stmt[v] /\ asked'[v] = asked[v] /\ stamp'[v] = stamp[v]
    /\ rateRead'[v] = rateRead[v] /\ queue'[v] = queue[v] /\ wTariff'[v] = wTariff[v]

\* What a request has read stays true, whatever somebody else does to the rest.
LEMMA AloneFrame ==
  ASSUME SessionsInv, NEW v \in Users, stmt[v] # "idle", AsAlone(v), StaysAt(v), Spared(v)
  PROVE  AsAlone(v)'
<1>1. /\ stmt'[v] = stmt[v] /\ asked'[v] = asked[v] /\ stamp'[v] = stamp[v]
      /\ rateRead'[v] = rateRead[v] /\ queue'[v] = queue[v] /\ wTariff'[v] = wTariff[v]
  BY DEF StaysAt
<1>2. /\ TariffTypeOK /\ StepFits(v) /\ FormTrue(v) /\ RowsKeep(v) /\ RowsFew(v) /\ OffKnown(v)
      /\ asked[v].op \in {"create", "edit", "upsert", "import"}
  BY ActiveWorker
<1>3. Held(v)' = Held(v) /\ Queued(v)' = Queued(v) /\ Held(v) \subseteq TariffIds
  BY <1>1 DEF Held, Queued
<1>4. RateLatest(v) => RateLatest(v)' /\ rateRead[v] \in Book!RatesOf(asked[v].currency)
  <2>1. RateLatest(v) => rateRead[v] \in Book!RatesOf(asked[v].currency)
    <3> SUFFICES ASSUME RateLatest(v)
                 PROVE  Book!LatestRate(asked[v].currency) \in Book!RatesOf(asked[v].currency)
      BY DEF RateLatest
    <3>1. asked[v].currency \in Currencies /\ Book!RatesOf(asked[v].currency) # {}
      BY <1>2, RequestFields DEF RateLatest, StepFits
    <3>2. \E n \in Book!RatesOf(asked[v].currency) : \A m \in Book!RatesOf(asked[v].currency) : m <= n
      BY <3>1 DEF SessionsInv, LatestExists
    <3> QED
      BY <3>2 DEF Book!LatestRate
  <2> QED
    BY <1>1, <2>1, RateLatestKept
<1>5. asked[v].op = "import" \/ (asked[v].op = "create" /\ RateLatest(v)) => NewRow(v)' = NewRow(v)
  BY <1>1, <1>4, NewRowKept
<1>6. asked[v].op \in {"create", "import"} =>
        /\ Book!TariffsOf(asked[v].key)' = Book!TariffsOf(asked[v].key)
        /\ Book!CurrentOf(asked[v].key)' = Book!CurrentOf(asked[v].key)
  <2> DEFINE k == asked[v].key
  <2> SUFFICES ASSUME asked[v].op \in {"create", "import"}
               PROVE  /\ Book!TariffsOf(k)' = Book!TariffsOf(k)
                      /\ Book!CurrentOf(k)' = Book!CurrentOf(k)
    OBVIOUS
  <2>1. k \in Concerned(v).keys
    BY ConcernedOf
  <2>2. Book!TariffsOf(k)' = Book!TariffsOf(k)
    BY <1>1, <2>1 DEF Spared, Book!TariffsOf
  <2>3. Book!CurrentOf(k)' = Book!CurrentOf(k)
    BY <1>1, <2>1 DEF Spared, Book!TariffsOf, Book!CurrentOf
  <2> QED
    BY <2>2, <2>3
<1>7. \A t \in Held(v) : tariff'[t] = tariff[t]
  BY DEF Spared
<1>8. CASE asked[v].op = "create"
  <2>1. CreateAlone(v)
    BY <1>8 DEF AsAlone
  <2>2. stmt[v] # "rate" => RateLatest(v)' /\ NewRow(v)' = NewRow(v)
    BY <1>4, <1>5, <1>8, <2>1 DEF CreateAlone
  <2>3. InsertReady(v) /\ stmt[v] = "commit" => InsertReady(v)'
    BY <1>1, <1>3, <1>6, <1>7, <1>8, <2>2 DEF InsertReady
  <2>4. OffReady(v) /\ (stmt[v] = "commit" \/ stmt[v] \in OffSteps) => OffReady(v)'
    <3> SUFFICES ASSUME OffReady(v), stmt[v] = "commit" \/ stmt[v] \in OffSteps
                 PROVE  OffReady(v)'
      OBVIOUS
    <3> DEFINE t == Head(queue[v]).tariff
    <3>1. t \in TariffIds /\ tariff[t] = NewRow(v) /\ tariff[t] # Nil
      <4>1. t \in Book!TariffsOf(asked[v].key)
        BY DEF OffReady
      <4> QED
        BY <4>1 DEF OffReady, Book!TariffsOf
    <3>2. tariff[t].currency \in Concerned(v).currencies /\ tariff[t].key \in Concerned(v).keys
      <4>1. NewRow(v).currency = asked[v].currency /\ NewRow(v).key = asked[v].key
        BY <1>8 DEF NewRow, Book!Row
      <4> QED
        BY <1>8, <3>1, <4>1, ConcernedOf
    <3>3. tariff'[t] = tariff[t]
      BY <3>1, <3>2 DEF Spared
    <3> QED
      BY <1>1, <1>3, <1>6, <1>8, <2>2, <3>3 DEF OffReady, OffSteps
  <2>5. CreateAlone(v)'
    BY <1>1, <1>6, <1>8, <2>1, <2>2, <2>3, <2>4 DEF CreateAlone, OffSteps
  <2> QED
    BY <1>1, <1>8, <2>5 DEF AsAlone
<1>9. CASE asked[v].op = "edit"
  <2> DEFINE t == asked[v].tariff
  <2>1. EditAlone(v) /\ t \in TariffIds /\ tariff[t] # Nil /\ forms[v] # Nil
    BY <1>2, <1>9, RequestFields DEF AsAlone, StepFits, FormTrue
  <2>2. tariff'[t] = tariff[t] /\ Book!CurrentOf(tariff[t].key)' = Book!CurrentOf(tariff[t].key)
    <3>1. /\ tariff[t].key \in Concerned(v).keys
          /\ tariff[t].currency \in Concerned(v).currencies
      BY <1>1, <1>9, <2>1, ConcernedOf
    <3>2. tariff'[t] = tariff[t]
      BY <2>1, <3>1 DEF Spared
    <3>3. PICK k \in Concerned(v).keys : k = tariff[t].key
      BY <3>1
    <3>4. Book!CurrentOf(k)' = Book!CurrentOf(k)
      BY <3>3 DEF Spared
    <3>5. (tariff[t].key)' = k
      BY <1>1, <3>2, <3>3
    <3> QED
      BY <3>2, <3>3, <3>4, <3>5 DEF Book!CurrentOf, Book!TariffsOf
  <2>3. forms'[v].fresh
    BY <2>1 DEF Spared, EditAlone
  <2>4. stmt[v] # "rate" => RateLatest(v)' /\ EditedRow(v)' = EditedRow(v)
    <3>1. stmt[v] # "rate" => rates'[rateRead[v]] = rates[rateRead[v]]
      BY <1>4, <2>1, ConcernedOf DEF EditAlone, Spared
    <3> QED
      BY <1>1, <1>4, <2>1, <2>2, <3>1 DEF EditAlone, EditedRow
  <2>5. EditAlone(v)'
    BY <1>1, <1>3, <2>1, <2>2, <2>3, <2>4 DEF EditAlone
  <2> QED
    BY <1>1, <1>9, <2>5 DEF AsAlone
<1>10. CASE asked[v].op = "upsert"
  <2> DEFINE c == asked[v].currency
  <2>1. UpsertAlone(v) /\ c \in Concerned(v).currencies
    BY <1>10, ConcernedOf DEF AsAlone
  <2>2. Book!RatesOf(c)' = Book!RatesOf(c) /\ Book!RateUsers(c)' = Book!RateUsers(c)
    BY <1>1, <1>10, <2>1 DEF Spared, Book!RatesOf, Book!RateUsers
  <2>3. \A t \in Book!RateUsers(c) : tariff'[t] = tariff[t]
    BY <1>10 DEF Spared
  <2>4. \A i \in 1 .. Len(queue[v]) : queue[v][i].tariff \in Queued(v)
    BY DEF Queued
  <2>5. UpsertAlone(v)'
    BY <1>1, <1>3, <1>7, <2>1, <2>2, <2>3, <2>4 DEF UpsertAlone
  <2> QED
    BY <1>1, <1>10, <2>5 DEF AsAlone
<1>11. CASE asked[v].op = "import"
  <2>1. ImportAlone(v)
    BY <1>11 DEF AsAlone
  <2>2. ClosedBy(v)' = ClosedBy(v) /\ (ClosingsReady(v) => ClosingsReady(v)')
    <3>1. ClosedBy(v)' = ClosedBy(v)
      BY <1>3, <1>7 DEF ClosedBy
    <3> QED
      BY <1>1, <1>7, <3>1 DEF ClosingsReady, ClosedBy
  <2>3. RowReady(v) => RowReady(v)'
    BY <1>1, <1>3, <1>5, <1>6, <1>7, <1>11 DEF RowReady
  <2>4. ImportAlone(v)'
    BY <1>1, <1>3, <1>6, <1>11, <2>1, <2>2, <2>3 DEF ImportAlone
  <2> QED
    BY <1>1, <1>11, <2>4 DEF AsAlone
<1> QED
  BY <1>2, <1>8, <1>9, <1>10, <1>11

\* The rows that a transaction is about to commit are of the keys and the
\* currencies its request is about; a recalculation changes prices in EUR only.
LEMMA HeldConcerned ==
  ASSUME SessionsInv, NEW w \in Users, stmt[w] # "idle", stmt[w] = "commit" \/ asked[w].op = "import",
         AsAlone(w), NEW t \in Held(w)
  PROVE  /\ wTariff[w][t].currency \in Concerned(w).currencies
         /\ tariff[t] # Nil => tariff[t].currency \in Concerned(w).currencies
         /\ asked[w].op # "upsert" => wTariff[w][t].key \in Concerned(w).keys
         /\ asked[w].op # "upsert" /\ tariff[t] # Nil => tariff[t].key \in Concerned(w).keys
         /\ asked[w].op = "upsert" =>
              /\ tariff[t] # Nil /\ tariff[t].is_current /\ tariff[t].currency = asked[w].currency
              /\ wTariff[w][t].key = tariff[t].key /\ wTariff[w][t].is_current
              /\ wTariff[w][t].currency = tariff[t].currency
<1>1. /\ TariffTypeOK /\ StepFits(w) /\ RowsKeep(w) /\ RowsFew(w)
      /\ asked[w].op \in {"create", "edit", "upsert", "import"}
      /\ (tariff[t] # Nil => wTariff[w][t].key = tariff[t].key)
      /\ t \in TariffIds /\ (tariff[t] # Nil => tariff[t] \in Book!Tariffs)
  BY ActiveWorker, RowsTyped DEF RowsKeep, Held
<1>2. asked[w].op \in {"create", "import"} =>
        NewRow(w).key = asked[w].key /\ NewRow(w).currency = asked[w].currency
  BY DEF NewRow, Book!Row
<1>3. asked[w].op = "create" /\ InsertReady(w) =>
        /\ tariff[t] = Nil /\ wTariff[w][t].key = asked[w].key
        /\ wTariff[w][t].currency = asked[w].currency
  BY <1>2 DEF InsertReady
<1>5. CASE asked[w].op = "create"
  <2>1. InsertReady(w) \/ OffReady(w)
    BY <1>5 DEF AsAlone, CreateAlone
  <2>2. OffReady(w) => /\ tariff[t] = NewRow(w)
                       /\ wTariff[w][t] = Off(NewRow(w))
    BY <1>5 DEF OffReady
  <2>3. OffReady(w) => /\ tariff[t].key = asked[w].key /\ tariff[t].currency = asked[w].currency
                       /\ wTariff[w][t].key = asked[w].key
                       /\ wTariff[w][t].currency = asked[w].currency
    BY <1>2, <1>5, <2>2 DEF NewRow, Book!Row, Off
  <2> QED
    BY <1>3, <1>5, <2>1, <2>3, ConcernedOf
<1>6. CASE asked[w].op = "edit"
  <2>1. t = asked[w].tariff /\ wTariff[w][t] = EditedRow(w) /\ tariff[t] # Nil
    BY <1>6, ActiveWorker DEF AsAlone, EditAlone, FormTrue
  <2>2. wTariff[w][t].key = tariff[t].key /\ wTariff[w][t].currency = asked[w].currency
    BY <2>1 DEF EditedRow, Book!Row
  <2> QED
    BY <1>6, <2>1, <2>2, ConcernedOf
<1>7. CASE asked[w].op = "upsert"
  <2>1. /\ t \in Book!RateUsers(asked[w].currency)
        /\ wTariff[w][t] = Book!Recalculated(tariff[t], tariff[t].price, asked[w].rate, stamp[w])
    BY <1>7 DEF AsAlone, UpsertAlone
  <2>2. tariff[t] # Nil /\ tariff[t].is_current /\ tariff[t].currency = asked[w].currency
    BY <2>1 DEF Book!RateUsers
  <2>3. wTariff[w][t].key = tariff[t].key /\ wTariff[w][t].is_current = tariff[t].is_current
        /\ wTariff[w][t].currency = tariff[t].currency
    BY <1>1, <2>1, <2>2 DEF Book!Recalculated, Book!Tariffs
  <2> QED
    BY <1>7, <2>2, <2>3, ConcernedOf
<1>8. CASE asked[w].op = "import"
  <2>1. ImportAlone(w)
    BY <1>8 DEF AsAlone
  <2>2. CASE t \in ClosedBy(w)
    <3>1. wTariff[w][t].currency = tariff[t].currency
      <4>1. wTariff[w][t] = Off(tariff[t]) /\ tariff[t] \in Book!Tariffs
        BY <1>1, <2>1, <2>2 DEF ImportAlone, ClosingsReady, ClosedBy
      <4> QED
        BY <4>1 DEF Off, Book!Tariffs
    <3> QED
      BY <1>1, <1>8, <2>2, <3>1, ConcernedOf DEF ClosedBy
  <2>3. CASE t \notin ClosedBy(w)
    <3>1. tariff[t] = Nil /\ stmt[w] = "commit" /\ RowReady(w)
      BY <1>1, <2>1, <2>3 DEF ClosedBy, RowsKeep, ImportAlone
    <3>2. wTariff[w][t] = NewRow(w)
      BY <1>1, <1>8, <3>1 DEF RowReady, RowsFew
    <3> QED
      BY <1>2, <1>8, <3>1, <3>2, ConcernedOf
  <2> QED
    BY <2>2, <2>3
<1> QED
  BY <1>1, <1>5, <1>6, <1>7, <1>8

LEMMA CommitSpares ==
  ASSUME SessionsInv, AloneInv, Separate, NEW w \in Users, Commits(w),
         NEW v \in Users \ {w}, stmt[v] # "idle"
  PROVE  Spared(v)
<1> DEFINE mine == Concerned(v)
           theirs == Concerned(w)
<1>1. /\ mine.keys \cap theirs.keys = {}
      /\ asked[v].op = "upsert" \/ asked[w].op = "upsert" => mine.currencies \cap theirs.currencies = {}
      /\ stmt[w] # "idle" /\ (stmt[w] = "commit" \/ asked[w].op = "import") /\ AsAlone(w)
  BY Committing DEF Separate, AloneInv, CommitTariffs
<1>2. /\ TariffTypeOK /\ StepFits(w) /\ RowsKeep(w) /\ StepFits(v) /\ FormTrue(v) /\ Apart(v, w)
      /\ StampsNew
  BY <1>1, ActiveWorker DEF SessionsInv, WorkersInv, RowsApart
<1>3. /\ \A t \in Held(w) : tariff'[t] = wTariff[w][t]
      /\ \A t \in TariffIds \ Held(w) : tariff'[t] = tariff[t]
      /\ forms'[v] = Book!Outdated(Held(w))[v]
      /\ TariffTypeOK'
  BY CommitEffect
<1>4. \A t \in Held(w) :
        /\ wTariff[w][t].currency \in theirs.currencies /\ wTariff[w][t] # Nil
        /\ tariff[t] # Nil => tariff[t].currency \in theirs.currencies
        /\ asked[w].op # "upsert" => wTariff[w][t].key \in theirs.keys
        /\ asked[w].op # "upsert" /\ tariff[t] # Nil => tariff[t].key \in theirs.keys
        /\ asked[w].op = "upsert" =>
              /\ tariff[t] # Nil /\ tariff[t].is_current
              /\ wTariff[w][t].key = tariff[t].key /\ wTariff[w][t].is_current
  BY <1>1, HeldConcerned DEF Held
<1>5. Held(w) \subseteq TariffIds
  BY DEF Held
<1>6. asked[w].currency \in theirs.currencies
  BY ConcernedOf
<1>7. \A t \in TariffIds :
         tariff[t] # Nil /\ tariff[t].key \in mine.keys /\ tariff[t].currency \in mine.currencies
           => t \notin Held(w)
  BY <1>1, <1>4
<1> HIDE DEF mine, theirs
<1>8. ASSUME NEW c \in mine.currencies
      PROVE  /\ Book!RatesOf(c)' = Book!RatesOf(c)
             /\ \A n \in Book!RatesOf(c) : rates'[n] = rates[n]
  <2>2. \A n \in RateIds : rates'[n] = rates[n] \/ (rates[n] = Nil /\ rates'[n].currency # c)
    <3>1. CASE asked[w].op # "upsert"
      BY <3>1, Committing DEF CommitTariffs
    <3>2. CASE asked[w].op = "upsert"
      <4>1. /\ stamp[w] \in RateIds /\ rates[stamp[w]] = Nil
            /\ rates' = [rates EXCEPT ![stamp[w]] = [currency |-> asked[w].currency,
                                                    rate_to_eur |-> asked[w].rate]]
        BY <1>2, <3>2, NotNil, Committing DEF CommitTariffs, StepFits, StampsNew
      <4>2. rates'[stamp[w]].currency = asked[w].currency /\ c # asked[w].currency
            /\ \A n \in RateIds \ {stamp[w]} : rates'[n] = rates[n]
        BY <1>1, <1>2, <1>6, <3>2, <4>1 DEF TariffTypeOK, Book!TypeOK
      <4> QED
        BY <4>1, <4>2
    <3> QED
      BY <3>1, <3>2
  <2>3. Book!RatesOf(c)' = Book!RatesOf(c)
    BY <2>2 DEF Book!RatesOf
  <2>4. \A n \in Book!RatesOf(c) : rates'[n] = rates[n]
    BY <2>2 DEF Book!RatesOf
  <2> QED
    BY <2>3, <2>4
<1>13. ASSUME asked[v].op = "upsert"
       PROVE  LET users == Book!RateUsers(asked[v].currency) IN
                 Book!RateUsers(asked[v].currency)' = users /\ \A t \in users : tariff'[t] = tariff[t]
  <2> DEFINE c == asked[v].currency
  <2>1. c \in mine.currencies /\ c \notin theirs.currencies /\ asked'[v] = asked[v]
    BY <1>1, <1>13, ConcernedOf, CommitEffect DEF mine, Others
  <2>2. \A t \in Held(w) : tariff'[t].currency # c /\ (tariff[t] # Nil => tariff[t].currency # c)
    BY <1>3, <1>4, <2>1
  <2> HIDE DEF c
  <2>3. Book!RateUsers(c)' = Book!RateUsers(c)
    BY <1>3, <1>5, <2>1, <2>2 DEF Book!RateUsers, c
  <2>4. \A t \in Book!RateUsers(c) : tariff'[t] = tariff[t]
    BY <1>3, <2>2 DEF Book!RateUsers
  <2> QED
    BY <2>3, <2>4 DEF c
<1>9. ASSUME NEW k \in mine.keys
      PROVE  Book!TariffsOf(k)' = Book!TariffsOf(k) /\ Book!CurrentOf(k)' = Book!CurrentOf(k)
  <2>1. k \notin theirs.keys
    BY <1>1
  <2>2. \A t \in TariffIds :
          /\ (tariff'[t] # Nil /\ tariff'[t].key = k) <=> (tariff[t] # Nil /\ tariff[t].key = k)
          /\ tariff[t] # Nil /\ tariff[t].key = k => tariff'[t].is_current = tariff[t].is_current
    <3> SUFFICES ASSUME NEW t \in TariffIds
                 PROVE  /\ (tariff'[t] # Nil /\ tariff'[t].key = k) <=> (tariff[t] # Nil /\ tariff[t].key = k)
                        /\ tariff[t] # Nil /\ tariff[t].key = k => tariff'[t].is_current = tariff[t].is_current
      OBVIOUS
    <3>1. CASE t \notin Held(w)
      BY <1>3, <3>1
    <3>2. CASE t \in Held(w) /\ asked[w].op # "upsert"
      BY <1>3, <1>4, <2>1, <3>2
    <3>3. CASE t \in Held(w) /\ asked[w].op = "upsert"
      <4>1. wTariff[w][t].is_current \in BOOLEAN /\ tariff[t].is_current \in BOOLEAN
        BY <1>2, <1>4, <3>3, RowsTyped
      <4> QED
        BY <1>3, <1>4, <3>3, <4>1
    <3> QED
      BY <3>1, <3>2, <3>3
  <2>3. Book!TariffsOf(k)' = Book!TariffsOf(k)
    BY <2>2 DEF Book!TariffsOf
  <2>4. Book!CurrentOf(k)' = Book!CurrentOf(k)
    BY <2>2 DEF Book!TariffsOf, Book!CurrentOf
  <2> QED
    BY <2>3, <2>4
<1>10. \A t \in Held(v) : tariff'[t] = tariff[t]
  BY <1>2, <1>3 DEF Apart, Held
<1>11. forms[v] # Nil /\ forms[v].fresh => forms'[v].fresh
  <2> SUFFICES ASSUME forms[v] # Nil, forms[v].fresh
               PROVE  forms'[v].fresh
    OBVIOUS
  <2>1. asked[v].op = "edit" /\ forms[v].tariff = asked[v].tariff /\ tariff[asked[v].tariff] # Nil
        /\ forms[v].tariff \in TariffIds
    BY <1>2, OutdatedForms DEF FormTrue
  <2>2. forms[v].tariff \notin Held(w)
    BY <1>7, <2>1, ConcernedOf DEF mine
  <2> QED
    BY <1>2, <1>3, <2>2, OutdatedForms
<1>12. \A t \in TariffIds :
          tariff[t] # Nil /\ tariff[t].key \in mine.keys /\ tariff[t].currency \in mine.currencies
            => tariff'[t] = tariff[t]
  BY <1>3, <1>7
<1> QED
  BY <1>8, <1>9, <1>10, <1>11, <1>12, <1>13 DEF Spared, mine

LEMMA StatementSpares ==
  ASSUME NEW v \in Users, UNCHANGED <<tariff, rates>>, forms'[v] = forms[v], asked'[v] = asked[v]
  PROVE  Spared(v)
BY DEF Spared, Held, Book!RatesOf, Book!RateUsers, Book!TariffsOf, Book!CurrentOf

--------------------------------------------------------------------------------
(* The steps of a request, as long as the others are separate from it.     *)

LEMMA AloneAtRest ==
  ASSUME SessionsInv, NEW w \in Users, RollBack(w)
  PROVE  stmt'[w] = "idle"
BY DEF RollBack, SessionsInv, WorkersInv, TariffTypeOK

\* A request begins with nothing read.
LEMMA BeginAlone ==
  ASSUME SessionsInv, NEW w \in Users, BeginRequest(w)
  PROVE  AsAlone(w)'
<1>1. TariffTypeOK /\ Resting(w) /\ stmt[w] = "idle"
  BY DEF SessionsInv, WorkersInv, WorkerOK, BeginRequest
<1>2. PICK q \in Posted(w) :
        /\ asked' = [asked EXCEPT ![w] = q]
        /\ stmt' = [stmt EXCEPT ![w] = FirstStep[q.op]]
        /\ IF q.op = "edit" THEN Book!OpenForm(w, q.tariff) ELSE UNCHANGED tables
        /\ IF q.op = "upsert" THEN \E n \in NextStamp : stamp' = [stamp EXCEPT ![w] = n]
                              ELSE UNCHANGED stamp
  BY DEF BeginRequest
<1>3. q \in Requests /\ q.op \in {"create", "edit", "upsert", "import"}
  <2>1. q \in Requests
    BY DEF Posted
  <2> QED
    BY <2>1, RequestFields
<1>4. FirstStep[q.op] = CASE q.op \in {"create", "edit"} -> "rate" [] q.op = "upsert" -> "select"
                          [] q.op = "import" -> "exists"
  BY <1>3 DEF FirstStep
<1>5. /\ asked'[w] = q /\ stmt'[w] = FirstStep[q.op] /\ queue'[w] = <<>> /\ rates' = rates
      /\ UNCHANGED queue
  BY <1>1, <1>2 DEF TariffTypeOK, Resting, BeginRequest, tables, Book!OpenForm
<1>6. CASE q.op = "create"
  BY <1>4, <1>5, <1>6 DEF AsAlone, CreateAlone, OffSteps
<1>7. CASE q.op = "edit"
  <2>1. forms' = [forms EXCEPT ![w] = [tariff |-> q.tariff, shown |-> Book!Display(tariff[q.tariff]),
                                       fresh |-> TRUE]]
    BY <1>2, <1>7 DEF Book!OpenForm
  <2>2. forms'[w].fresh
    BY <1>1, <2>1 DEF TariffTypeOK, Book!TypeOK
  <2> QED
    BY <1>4, <1>5, <1>7, <2>2 DEF AsAlone, EditAlone
<1>8. CASE q.op = "upsert"
  <2>1. PICK n \in NextStamp : stamp' = [stamp EXCEPT ![w] = n]
    BY <1>2, <1>8
  <2>2. \A m \in RateIds : rates[m] # Nil => m < n
    <3> SUFFICES ASSUME NEW m \in RateIds, rates[m] # Nil
                 PROVE  m < n
      OBVIOUS
    <3> DEFINE taken == {i \in RateIds : rates[i] # Nil} \cup {stamp[v] : v \in Users}
    <3>1. n \in {i \in RateIds : \A j \in taken \ {Nil} : j < i}
      BY DEF NextStamp
    <3>2. m \in taken \ {Nil}
      BY NotNil
    <3> QED
      BY <3>1, <3>2
  <2>3. stamp'[w] = n
    BY <1>1, <2>1 DEF TariffTypeOK
  <2>4. \A m \in Book!RatesOf(q.currency)' : m < n
    BY <1>5, <2>2 DEF Book!RatesOf
  <2>5. UpsertAlone(w)'
    BY <1>4, <1>5, <1>8, <2>2, <2>3 DEF UpsertAlone, Book!RatesOf
  <2> QED
    BY <1>5, <1>8, <2>5 DEF AsAlone
<1>9. CASE q.op = "import"
  <2>1. Held(w)' = {}
    BY <1>1 DEF BeginRequest, Resting, Held
  <2>2. ClosingsReady(w)'
    BY <2>1 DEF ClosingsReady, ClosedBy
  <2>3. ImportAlone(w)'
    BY <1>4, <1>5, <1>9, <2>2 DEF ImportAlone
  <2> QED
    BY <1>5, <1>9, <2>3 DEF AsAlone
<1> QED
  BY <1>3, <1>6, <1>7, <1>8, <1>9

\* A statement leaves the tables as they are: what was read is still there.
LEMMA ReadingKept ==
  ASSUME NEW w \in Users, UNCHANGED tables, asked'[w] = asked[w]
  PROVE  /\ Book!RatesOf(asked[w].currency)' = Book!RatesOf(asked[w].currency)
         /\ Book!LatestRate(asked[w].currency)' = Book!LatestRate(asked[w].currency)
         /\ Book!RateUsers(asked[w].currency)' = Book!RateUsers(asked[w].currency)
         /\ Book!TariffsOf(asked[w].key)' = Book!TariffsOf(asked[w].key)
         /\ Book!CurrentOf(asked[w].key)' = Book!CurrentOf(asked[w].key)
         /\ Book!CurrentOf(tariff[asked[w].tariff].key)' = Book!CurrentOf(tariff[asked[w].tariff].key)
         /\ rateRead'[w] = rateRead[w] =>
              /\ RateLatest(w)' <=> RateLatest(w)
              /\ NewRow(w)' = NewRow(w) /\ EditedRow(w)' = EditedRow(w)
<1>1. /\ Book!RatesOf(asked[w].currency)' = Book!RatesOf(asked[w].currency)
      /\ Book!RateUsers(asked[w].currency)' = Book!RateUsers(asked[w].currency)
      /\ Book!TariffsOf(asked[w].key)' = Book!TariffsOf(asked[w].key)
      /\ Book!CurrentOf(asked[w].key)' = Book!CurrentOf(asked[w].key)
      /\ Book!CurrentOf(tariff[asked[w].tariff].key)' = Book!CurrentOf(tariff[asked[w].tariff].key)
  BY DEF tables, Book!RatesOf, Book!RateUsers, Book!TariffsOf, Book!CurrentOf
<1>2. Book!LatestRate(asked[w].currency)' = Book!LatestRate(asked[w].currency)
  BY <1>1 DEF Book!LatestRate
<1>3. rateRead'[w] = rateRead[w] => (RateLatest(w)' <=> RateLatest(w))
  BY <1>1, <1>2 DEF RateLatest
<1>4. rateRead'[w] = rateRead[w] => NewRow(w)' = NewRow(w) /\ EditedRow(w)' = EditedRow(w)
  BY DEF tables, NewRow, EditedRow
<1> QED
  BY <1>1, <1>2, <1>3, <1>4

\* Before the last statement of a row the uncommitted rows of an import are
\* the tariffs it has put out of force.
LEMMA OnlyClosings ==
  ASSUME SessionsInv, NEW w \in Users, stmt[w] # "idle", stmt[w] # "commit"
  PROVE  Held(w) = ClosedBy(w)
BY ActiveWorker DEF RowsKeep, ClosedBy

LEMMA ClosingsKept ==
  ASSUME NEW w \in Users, UNCHANGED tables, wTariff'[w] = wTariff[w]
  PROVE  /\ Held(w)' = Held(w) /\ ClosedBy(w)' = ClosedBy(w)
         /\ ClosingsReady(w)' <=> ClosingsReady(w)
BY DEF tables, Held, ClosedBy, ClosingsReady

LEMMA ReadRateAlone ==
  ASSUME SessionsInv, NEW w \in Users, AsAlone(w), ReadRate(w), stmt'[w] # "idle"
  PROVE  AsAlone(w)'
<1> DEFINE step == IF asked[w].op = "create" THEN "duplicate" ELSE "editRead"
           r == Book!LatestRate(asked[w].currency)
<1>1. /\ stmt[w] = "rate" /\ Proceed(w, step) /\ rateRead' = [rateRead EXCEPT ![w] = r]
      /\ UNCHANGED <<queue, wTariff>> /\ Book!RatesOf(asked[w].currency) # {}
  BY AloneAtRest DEF ReadRate
<1>2. TariffTypeOK /\ StepFits(w) /\ asked[w].op \in {"create", "edit"} /\ asked[w].currency \in Currencies
  BY <1>1, ActiveWorker, RequestFields DEF StepFits
<1>3. r \in RateIds
  BY <1>1, <1>2, LatestRateIsRate DEF SessionsInv
<1>4. step \in Statements
  BY DEF Statements
<1> HIDE DEF r
<1>5. Moved(w, step, r, queue[w], wTariff[w])
  BY <1>1, <1>2, <1>3, <1>4, Unchanged, ProceedEffect
<1>6. RateLatest(w)'
  BY <1>1, <1>5, ReadingKept DEF Moved, RateLatest, r
<1>7. CASE asked[w].op = "create"
  BY <1>1, <1>5, <1>6, <1>7 DEF Moved, AsAlone, CreateAlone, OffSteps
<1>8. CASE asked[w].op = "edit"
  BY <1>1, <1>5, <1>6, <1>8 DEF Moved, tables, AsAlone, EditAlone
<1> QED
  BY <1>2, <1>7, <1>8

LEMMA FindDuplicateAlone ==
  ASSUME SessionsInv, NEW w \in Users, AsAlone(w), FindDuplicate(w), stmt'[w] # "idle"
  PROVE  AsAlone(w)'
<1> DEFINE step == IF Book!FindByIdentity(asked[w].key) = {} THEN "insert" ELSE "commit"
<1>1. /\ stmt[w] = "duplicate" /\ Proceed(w, step) /\ UNCHANGED <<rateRead, queue, wTariff>>
      /\ ~(Book!FindByIdentity(asked[w].key) # {} /\ asked[w].op = "create")
  BY AloneAtRest DEF FindDuplicate
<1>2. TariffTypeOK /\ StepFits(w) /\ asked[w].op \in {"create", "import"}
  BY <1>1, ActiveWorker DEF StepFits
<1>3. step \in Statements
  BY DEF Statements
<1>4. Moved(w, step, rateRead[w], queue[w], wTariff[w])
  BY <1>1, <1>2, <1>3, MoveEffect
<1>5. UNCHANGED tables /\ asked'[w] = asked[w] /\ Held(w)' = Held(w)
  BY <1>4 DEF Moved, Held
<1>6. step = "insert" => Book!TariffsOf(asked[w].key) = {}
  BY DEF Book!FindByIdentity
<1>7. CASE asked[w].op = "create"
  <2>1. step = "insert" /\ CreateAlone(w)
    BY <1>1, <1>7 DEF AsAlone
  <2>2. CreateAlone(w)'
    BY <1>1, <1>4, <1>5, <1>6, <2>1, ReadingKept DEF CreateAlone, Moved, OffSteps
  <2> QED
    BY <1>5, <1>7, <2>2 DEF AsAlone
<1>8. CASE asked[w].op = "import"
  <2>1. ImportAlone(w) /\ Held(w) = ClosedBy(w)
    BY <1>1, <1>8, OnlyClosings DEF AsAlone
  <2>2. ClosingsReady(w)' /\ Held(w)' = ClosedBy(w)'
    BY <1>4, <2>1, ClosingsKept DEF ImportAlone, Moved
  <2>3. ImportAlone(w)'
    BY <1>1, <1>4, <1>5, <1>6, <2>1, <2>2, ReadingKept DEF ImportAlone, Moved
  <2> QED
    BY <1>5, <1>8, <2>3 DEF AsAlone
<1> QED
  BY <1>2, <1>7, <1>8

LEMMA NewRowTyped ==
  ASSUME SessionsInv, NEW w \in Users, stmt[w] # "idle", asked[w].op \in {"create", "import"},
         asked[w].op = "create" => rateRead[w] \in RateIds /\ rates[rateRead[w]] # Nil
  PROVE  NewRow(w) \in Book!Tariffs /\ NewRow(w).key = asked[w].key /\ NewRow(w).is_current = TRUE
<1> DEFINE q == asked[w]
           row == NewRow(w)
<1>1. TariffTypeOK /\ StepFits(w)
  BY ActiveWorker
<1>2. /\ q.key \in Keys /\ q.currency \in Currencies /\ q.price \in Prices
      /\ q.op = "import" => q.rate \in RateValues
  BY <1>1, RequestFields DEF StepFits
<1>3. row.key = q.key /\ row.is_current = TRUE
  BY DEF NewRow, Book!Row
<1>4. CASE q.op = "import"
  <2>1. row = Book!Row(q.key, q.currency, q.price, q.rate, Nil, TRUE)
    BY <1>4 DEF NewRow
  <2>2. \A n \in RateIds \cup {Nil}, on \in BOOLEAN :
          Book!Row(q.key, q.currency, q.price, q.rate, n, on) \in Book!Tariffs
    BY <1>2, <1>4, RowType
  <2> QED
    BY <1>3, <2>1, <2>2
<1>5. CASE q.op = "create"
  <2> DEFINE r == rateRead[w]
             v == rates[r].rate_to_eur
  <2>1. row = Book!Row(q.key, q.currency, q.price, v, r, TRUE)
    BY <1>5 DEF NewRow
  <2>2. r \in RateIds /\ v \in RateValues
    BY <1>1, <1>5, RowsTyped
  <2>3. \A on \in BOOLEAN : Book!Row(q.key, q.currency, q.price, v, r, on) \in Book!Tariffs
    BY <1>2, <2>2, RowType
  <2> QED
    BY <1>3, <2>1, <2>3
<1> QED
  BY <1>4, <1>5

LEMMA InsertAlone ==
  ASSUME SessionsInv, NEW w \in Users, AsAlone(w), InsertTariff(w), stmt'[w] # "idle"
  PROVE  AsAlone(w)'
<1>1. PICK t \in TariffIds : InsertAs(w, t)
  BY AloneAtRest DEF InsertTariff
<1>2. /\ stmt[w] = "insert" /\ Proceed(w, "commit") /\ UNCHANGED rateRead
  BY AloneAtRest DEF InsertTariff
<1>3. /\ TariffTypeOK /\ StepFits(w) /\ asked[w].op \in {"create", "import"}
      /\ Held(w) = ClosedBy(w) /\ (asked[w].op = "create" => Held(w) = {})
  BY <1>2, ActiveWorker, OnlyClosings DEF StepFits, RowsKeep, WritingSteps
<1> DEFINE row == NewRow(w)
           jobs == IF asked[w].op = "import" \/ asked[w].current THEN queue[w]
                   ELSE <<[tariff |-> t, price |-> asked[w].price]>>
<1>4. /\ tariff[t] = Nil /\ Write(w, t, row) /\ queue' = [queue EXCEPT ![w] = jobs]
  BY <1>1, <1>3 DEF InsertAs, TariffTypeOK
<1>5. /\ Book!TariffsOf(asked[w].key) = {} /\ queue[w] = <<>>
      /\ asked[w].op = "create" => RateLatest(w)
  BY <1>2, <1>3 DEF AsAlone, CreateAlone, ImportAlone
<1>6. row \in Book!Tariffs
  <2>1. asked[w].op = "create" => rateRead[w] \in RateIds /\ rates[rateRead[w]] # Nil
    BY <1>2, ActiveWorker DEF RateKnown
  <2> QED
    BY <1>2, <1>3, <2>1, NewRowTyped
<1>7. jobs \in Seq(Jobs)
  <2>1. asked[w].price \in Nat
    BY <1>3, RequestFields, MoneyAssumption DEF StepFits
  <2>2. [tariff |-> t, price |-> asked[w].price] \in Jobs
    BY <1>1, <2>1 DEF Jobs
  <2>3. queue[w] \in Seq(Jobs)
    BY <1>3 DEF TariffTypeOK
  <2> QED
    BY <2>2, <2>3
<1>8. "commit" \in Statements
  BY DEF Statements
<1> HIDE DEF row, jobs
<1>9. /\ Moved(w, "commit", rateRead[w], jobs, Writing(w, t, row))
      /\ Held(w)' = Held(w) \cup {t} /\ Writing(w, t, row)[t] = row
      /\ \A s \in TariffIds \ {t} : Writing(w, t, row)[s] = wTariff[w][s]
  <2>1. t \in TariffIds
    BY <1>1
  <2>2. Moved(w, "commit", rateRead[w], jobs, Writing(w, t, row))
    BY <1>2, <1>3, <1>4, <1>6, <1>7, <1>8, <2>1, WriteRowEffect
  <2>3. /\ Held(w)' = Held(w) \cup {t} /\ Writing(w, t, row)[t] = row
        /\ \A s \in TariffIds \ {t} : Writing(w, t, row)[s] = wTariff[w][s]
    BY <1>3, <1>4, <1>6, <2>1, WriteEffect
  <2> QED
    BY <2>2, <2>3
<1>10. UNCHANGED tables /\ asked'[w] = asked[w] /\ NewRow(w)' = row
       /\ (RateLatest(w)' <=> RateLatest(w))
  BY <1>9, ReadingKept DEF Moved, row
<1>11. Book!TariffsOf(asked[w].key)' = {}
  BY <1>5, <1>10, ReadingKept
<1>14. CASE asked[w].op = "create"
  <2>3. ~asked[w].current => queue'[w] # <<>> /\ Head(queue'[w]).tariff = t
    BY <1>9, <1>14 DEF Moved, jobs
  <2>4. InsertReady(w)'
    BY <1>3, <1>4, <1>9, <1>10, <1>11, <1>14, <2>3 DEF InsertReady, Moved, tables
  <2>1. asked[w].current => queue'[w] = <<>>
    BY <1>5, <1>9, <1>14 DEF Moved, jobs
  <2>2. CreateAlone(w)'
    BY <1>5, <1>9, <1>10, <1>14, <2>1, <2>4 DEF CreateAlone, Moved, OffSteps
  <2> QED
    BY <1>10, <1>14, <2>2 DEF AsAlone
<1>15. CASE asked[w].op = "import"
  <2>1. wTariff'[w] = Writing(w, t, row) /\ tariff' = tariff
    BY <1>9 DEF Moved, tables
  <2>2. ClosingsReady(w)
    BY <1>15 DEF AsAlone, ImportAlone
  <2>3. ClosingsReady(w)'
    <3>1. \A s \in ClosedBy(w)' : s \in ClosedBy(w) /\ s \in TariffIds \ {t}
      BY <1>4, <1>9, <2>1 DEF ClosedBy, Held
    <3> QED
      BY <1>9, <2>1, <2>2, <3>1 DEF ClosingsReady
  <2>4. RowReady(w)'
    BY <1>4, <1>9, <1>10, <1>11, <2>1 DEF RowReady
  <2>5. ImportAlone(w)'
    BY <1>5, <1>9, <1>15, <2>3, <2>4 DEF ImportAlone, Moved, jobs
  <2> QED
    BY <1>10, <1>15, <2>5 DEF AsAlone
<1> QED
  BY <1>3, <1>14, <1>15

LEMMA OffReadAlone ==
  ASSUME SessionsInv, NEW w \in Users, AsAlone(w), OffRead(w), stmt'[w] # "idle"
  PROVE  AsAlone(w)'
<1>1. stmt[w] = "offRead" /\ Proceed(w, "offWrite") /\ UNCHANGED <<rateRead, queue, wTariff>>
  BY AloneAtRest DEF OffRead
<1>2. TariffTypeOK /\ asked[w].op = "create"
  BY <1>1, ActiveWorker DEF StepFits, OffSteps
<1>3. "offWrite" \in Statements
  BY DEF Statements
<1>4. Moved(w, "offWrite", rateRead[w], queue[w], wTariff[w])
  BY <1>1, <1>2, <1>3, MoveEffect
<1>5. CreateAlone(w) /\ OffReady(w)
  BY <1>1, <1>2 DEF AsAlone, CreateAlone, OffSteps
<1>6. OffReady(w)'
  BY <1>1, <1>4, <1>5, ReadingKept DEF OffReady, Moved, tables
<1>7. CreateAlone(w)'
  BY <1>1, <1>4, <1>5, <1>6, ReadingKept DEF CreateAlone, Moved, OffSteps
<1> QED
  BY <1>2, <1>4, <1>7 DEF AsAlone, Moved

LEMMA OffWriteAlone ==
  ASSUME SessionsInv, NEW w \in Users, AsAlone(w), OffWrite(w)
  PROVE  AsAlone(w)'
<1> DEFINE t == Head(queue[w]).tariff
           row == [tariff[t] EXCEPT !.is_current = FALSE]
<1>1. /\ stmt[w] = "offWrite" /\ Write(w, t, row)
      /\ Proceed(w, "commit") /\ UNCHANGED <<rateRead, queue>>
  BY DEF OffWrite
<1>2. TariffTypeOK /\ asked[w].op = "create" /\ Held(w) = {} /\ OffKnown(w)
  BY <1>1, ActiveWorker DEF StepFits, OffSteps, RowsKeep, WritingSteps
<1>3. CreateAlone(w) /\ OffReady(w)
  BY <1>1, <1>2 DEF AsAlone, CreateAlone, OffSteps
<1>4. t \in TariffIds /\ tariff[t] \in Book!Tariffs
  BY <1>1, <1>2, QueuedType, RowsTyped DEF OffKnown, OffSteps
<1>5. row \in Book!Tariffs /\ "commit" \in Statements
  BY <1>4, SwitchedOff DEF Statements
<1> HIDE DEF t, row
<1>6. /\ Moved(w, "commit", rateRead[w], queue[w], Writing(w, t, row))
      /\ Held(w)' = {t} /\ Writing(w, t, row)[t] = row
  BY <1>1, <1>2, <1>4, <1>5, Unchanged, WriteRowEffect
<1>7. NewRow(w)' = NewRow(w) /\ RateLatest(w)' = RateLatest(w)
      /\ Book!TariffsOf(asked[w].key)' = Book!TariffsOf(asked[w].key)
  BY <1>6, ReadingKept DEF Moved, RateLatest
<1>8. OffReady(w)'
  <2>1. queue'[w] = queue[w] /\ asked'[w] = asked[w] /\ Head(queue'[w]).tariff = t
        /\ wTariff'[w][t] = row /\ tariff' = tariff
    BY <1>6 DEF Moved, tables, t
  <2>2. row = Off(NewRow(w))
    BY <1>3 DEF OffReady, row, t, Off
  <2>3. tariff[t] = NewRow(w) /\ Book!TariffsOf(asked[w].key) = {t} /\ queue[w] # <<>> /\ ~asked[w].current
    BY <1>3 DEF OffReady, t
  <2> QED
    BY <1>6, <1>7, <2>1, <2>2, <2>3 DEF OffReady
<1>9. CreateAlone(w)'
  BY <1>1, <1>3, <1>6, <1>7, <1>8 DEF CreateAlone, Moved, OffSteps
<1> QED
  BY <1>2, <1>6, <1>9 DEF AsAlone, Moved

LEMMA EditReadAlone ==
  ASSUME SessionsInv, NEW w \in Users, AsAlone(w), EditRead(w), stmt'[w] # "idle"
  PROVE  AsAlone(w)'
<1> DEFINE q == asked[w]
<1>1. /\ stmt[w] = "editRead" /\ Proceed(w, "editWrite") /\ UNCHANGED <<rateRead, queue, wTariff>>
      /\ Book!Changes(tariff[q.tariff], q.price, q.currency, q.current, q.commented)
  BY AloneAtRest DEF EditRead
<1>2. TariffTypeOK /\ asked[w].op = "edit"
  BY <1>1, ActiveWorker DEF StepFits, EditSteps
<1>3. "editWrite" \in Statements
  BY DEF Statements
<1>4. Moved(w, "editWrite", rateRead[w], queue[w], wTariff[w])
  BY <1>1, <1>2, <1>3, MoveEffect
<1>5. EditAlone(w)
  BY <1>2 DEF AsAlone
<1>6. EditAlone(w)'
  BY <1>1, <1>4, <1>5, ReadingKept DEF EditAlone, Moved, tables, Book!Changes
<1> QED
  BY <1>2, <1>4, <1>6 DEF AsAlone, Moved

LEMMA EditWriteAlone ==
  ASSUME SessionsInv, NEW w \in Users, AsAlone(w), EditWrite(w), stmt'[w] # "idle"
  PROVE  AsAlone(w)'
<1> DEFINE q == asked[w]
           t == q.tariff
           row == EditedRow(w)
           step == IF q.current /\ ~tariff[t].is_current THEN "editIndex" ELSE "commit"
<1>1. /\ stmt[w] = "editWrite" /\ Write(w, t, row) /\ Proceed(w, step)
      /\ UNCHANGED <<rateRead, queue>>
  BY AloneAtRest DEF EditWrite
<1>2. /\ TariffTypeOK /\ StepFits(w) /\ RateKnown(w) /\ FormTrue(w)
      /\ q \in Requests /\ q.op = "edit" /\ Held(w) = {} /\ CurrentUnique
  BY <1>1, ActiveWorker DEF StepFits, EditSteps, RowsKeep, WritingSteps, SessionsInv
<1>3. /\ t \in TariffIds /\ q.currency \in Currencies /\ q.price \in Prices /\ q.current \in BOOLEAN
      /\ tariff[t] # Nil
  BY <1>2, RequestFields DEF FormTrue
<1>4. tariff[t] \in Book!Tariffs /\ tariff[t].key \in Keys
      /\ rateRead[w] \in RateIds /\ rates[rateRead[w]].rate_to_eur \in RateValues
  BY <1>1, <1>2, <1>3, RowsTyped DEF RateKnown, EditSteps
<1>5. row \in Book!Tariffs
  <2>1. row = Book!Row(tariff[t].key, q.currency, q.price, rates[rateRead[w]].rate_to_eur,
                       rateRead[w], q.current)
    BY DEF EditedRow
  <2> QED
    BY <1>3, <1>4, <2>1, RowType
<1>6. /\ step \in Statements /\ step \in {"editIndex", "commit"}
      /\ step = "commit" /\ q.current => tariff[t].is_current
  BY DEF Statements
<1> HIDE DEF row, step
<1>7. /\ Moved(w, step, rateRead[w], queue[w], Writing(w, t, row))
      /\ Held(w)' = {t} /\ Writing(w, t, row)[t] = row
  BY <1>1, <1>2, <1>3, <1>5, <1>6, Unchanged, WriteRowEffect
<1>8. EditAlone(w)
  BY <1>2 DEF AsAlone
<1>9. UNCHANGED tables /\ asked'[w] = asked[w] /\ EditedRow(w)' = row
      /\ (RateLatest(w)' <=> RateLatest(w))
  BY <1>7, ReadingKept DEF Moved, row
<1>10. tariff[t].is_current => Book!CurrentOf(tariff[t].key) \subseteq {t}
  BY <1>2, <1>3 DEF CurrentUnique, Book!CurrentUnique, Book!CurrentOf, Book!TariffsOf
<1>11. Book!CurrentOf(tariff[t].key)' = Book!CurrentOf(tariff[t].key)
  BY <1>9, ReadingKept
<1>12. stmt'[w] = step /\ wTariff'[w][t] = row /\ UNCHANGED <<tariff, forms>>
  BY <1>7 DEF Moved, tables
<1>13. EditAlone(w)'
  BY <1>1, <1>6, <1>7, <1>8, <1>9, <1>10, <1>11, <1>12 DEF EditAlone, Book!Changes
<1> QED
  BY <1>2, <1>9, <1>13 DEF AsAlone

LEMMA EditIndexAlone ==
  ASSUME SessionsInv, NEW w \in Users, AsAlone(w), EditIndex(w), stmt'[w] # "idle"
  PROVE  AsAlone(w)'
<1>1. /\ stmt[w] = "editIndex" /\ Proceed(w, "commit") /\ UNCHANGED <<rateRead, queue, wTariff>>
      /\ Book!CurrentOf(tariff[asked[w].tariff].key) = {}
  BY AloneAtRest DEF EditIndex
<1>2. TariffTypeOK /\ asked[w].op = "edit"
  BY <1>1, ActiveWorker DEF StepFits, EditSteps
<1>3. "commit" \in Statements
  BY DEF Statements
<1>4. Moved(w, "commit", rateRead[w], queue[w], wTariff[w])
  BY <1>1, <1>2, <1>3, MoveEffect
<1>5. EditAlone(w)
  BY <1>2 DEF AsAlone
<1>6. /\ UNCHANGED tables /\ asked'[w] = asked[w] /\ Held(w)' = Held(w)
      /\ EditedRow(w)' = EditedRow(w) /\ (RateLatest(w)' <=> RateLatest(w))
      /\ Book!CurrentOf(tariff[asked[w].tariff].key)' = {}
  BY <1>1, <1>4, ReadingKept DEF Moved, Held
<1>7. EditAlone(w)'
  BY <1>1, <1>4, <1>5, <1>6 DEF EditAlone, Moved, tables, Book!Changes
<1> QED
  BY <1>2, <1>4, <1>7 DEF AsAlone, Moved

LEMMA ImportExistsAlone ==
  ASSUME SessionsInv, NEW w \in Users, AsAlone(w), ImportExists(w)
  PROVE  AsAlone(w)'
<1> DEFINE step == IF Book!CurrentOf(asked[w].key) # {} THEN "close" ELSE "duplicate"
<1>1. stmt[w] = "exists" /\ Proceed(w, step) /\ UNCHANGED <<rateRead, queue, wTariff>>
  BY DEF ImportExists
<1>2. TariffTypeOK /\ asked[w].op = "import"
  BY <1>1, ActiveWorker DEF StepFits
<1>3. step \in Statements /\ step \in {"close", "duplicate"}
  BY DEF Statements
<1> HIDE DEF step
<1>4. Moved(w, step, rateRead[w], queue[w], wTariff[w])
  BY <1>1, <1>2, <1>3, MoveEffect
<1>5. ClosingsReady(w)' /\ asked'[w] = asked[w] /\ queue'[w] = <<>> /\ stmt'[w] = step
  BY <1>2, <1>4, ClosingsKept DEF AsAlone, ImportAlone, Moved
<1>6. ImportAlone(w)'
  BY <1>3, <1>5 DEF ImportAlone
<1> QED
  BY <1>2, <1>5, <1>6 DEF AsAlone

LEMMA ImportCloseAlone ==
  ASSUME SessionsInv, NEW w \in Users, AsAlone(w), ImportClose(w)
  PROVE  AsAlone(w)'
<1> DEFINE ts == Book!CurrentOf(asked[w].key)
           rows == [t \in TariffIds |-> IF t \in ts THEN [tariff[t] EXCEPT !.is_current = FALSE]
                                                    ELSE wTariff[w][t]]
<1>1. /\ stmt[w] = "close" /\ Proceed(w, "duplicate") /\ UNCHANGED <<rateRead, queue>>
      /\ wTariff' = [wTariff EXCEPT ![w] = rows]
  BY DEF ImportClose
<1>2. TariffTypeOK /\ asked[w].op = "import"
  BY <1>1, ActiveWorker DEF StepFits
<1>3. ts \subseteq TariffIds /\ \A t \in ts : rows[t] \in Book!Tariffs /\ rows[t] # Nil
  <2> SUFFICES ASSUME NEW t \in ts
               PROVE  t \in TariffIds /\ rows[t] \in Book!Tariffs /\ rows[t] # Nil
    OBVIOUS
  <2>1. t \in TariffIds /\ tariff[t] \in Book!Tariffs
    BY <1>2, RowsTyped DEF Book!CurrentOf, Book!TariffsOf
  <2> QED
    BY <2>1, SwitchedOff, NotNil
<1>4. /\ rows \in [TariffIds -> Book!Tariffs \cup {Nil}]
      /\ \A t \in TariffIds \ ts : rows[t] = wTariff[w][t]
      /\ \A t \in ts : rows[t] = Off(tariff[t])
  BY <1>2, <1>3 DEF Off, TariffTypeOK
<1>5. "duplicate" \in Statements
  BY DEF Statements
<1> HIDE DEF rows, ts
<1>6. Moved(w, "duplicate", rateRead[w], queue[w], rows)
  BY <1>1, <1>2, <1>4, <1>5, Unchanged, ProceedEffect
<1>7. asked'[w] = asked[w] /\ wTariff'[w] = rows /\ tariff' = tariff
  BY <1>6 DEF Moved, tables
<1>8. \A t \in ts : tariff[t].is_current
  BY DEF ts, Book!CurrentOf
<1>9. ClosingsReady(w)'
  <2>1. ClosingsReady(w)
    BY <1>2 DEF AsAlone, ImportAlone
  <2>2. \A t \in ClosedBy(w)' : t \in ts \/ (t \in ClosedBy(w) /\ t \in TariffIds \ ts)
    BY <1>4, <1>7 DEF ClosedBy, Held
  <2> QED
    BY <1>4, <1>7, <1>8, <2>1, <2>2 DEF ClosingsReady
<1>10. ImportAlone(w)'
  BY <1>2, <1>6, <1>9 DEF AsAlone, ImportAlone, Moved
<1> QED
  BY <1>2, <1>7, <1>10 DEF AsAlone

\* The next row of the file finds what the refused one has closed.
LEMMA RefuseRowAlone ==
  ASSUME SessionsInv, NEW w \in Users, AsAlone(w), RefuseRow(w)
  PROVE  AsAlone(w)'
<1>1. /\ asked[w].op = "import" /\ NextRow(w) /\ TariffTypeOK
      /\ UNCHANGED <<tariff, logged, forms, wTariff>>
  BY DEF RefuseRow, SessionsInv, WorkersInv
<1>2. /\ asked'[w].op = "import" /\ stmt'[w] = "exists" /\ queue' = queue /\ UNCHANGED tables
  BY <1>1, NextRowEffect DEF tables
<1>3. queue'[w] = <<>> /\ ClosingsReady(w)'
  BY <1>1, <1>2, ClosingsKept DEF AsAlone, ImportAlone
<1> QED
  BY <1>2, <1>3 DEF AsAlone, ImportAlone

\* After a commit within its file an import has nothing uncommitted.
LEMMA RowCommitAlone ==
  ASSUME SessionsInv, NEW w \in Users, AsAlone(w), CommitRow(w) \/ CommitValue(w)
  PROVE  AsAlone(w)'
<1>1. /\ Held(w)' = {} /\ asked[w].op = "import" /\ queue' = queue
      /\ asked'[w].op = "import" /\ stmt'[w] \in {"exists", "close", "duplicate"}
  BY RowCommitSelf
<1>2. queue'[w] = <<>> /\ ClosingsReady(w)'
  BY <1>1 DEF AsAlone, ImportAlone, ClosingsReady, ClosedBy
<1> QED
  BY <1>1, <1>2 DEF AsAlone, ImportAlone

\* The SELECT of a recalculation lists the tariffs it is about, each once.
LEMMA ListedJobs ==
  ASSUME TariffTypeOK, NEW S \in SUBSET TariffIds, \A t \in S : tariff[t].price \in Nat,
         NEW ids \in Orders(S)
  PROVE  /\ WithPrices(ids) \in Seq(Jobs) /\ DOMAIN ids = 1 .. Len(WithPrices(ids))
         /\ \A i \in 1 .. Len(WithPrices(ids)) :
               /\ WithPrices(ids)[i].tariff = ids[i] /\ ids[i] \in S
               /\ WithPrices(ids)[i].price = tariff[ids[i]].price
         /\ \A t \in S : \E i \in 1 .. Len(WithPrices(ids)) : ids[i] = t
<1> DEFINE D == 1 .. Cardinality(S)
           jobs == WithPrices(ids)
<1>1. IsFiniteSet(S) /\ Cardinality(S) \in Nat
  BY TariffIdsAssumption, FS_Subset, FS_CardinalityType
<1>2. ids \in [D -> S] /\ \A i, j \in D : i # j => ids[i] # ids[j]
  BY DEF Orders
<1>3. \A i \in D : [tariff |-> ids[i], price |-> tariff[ids[i]].price] \in Jobs
  BY <1>2 DEF Jobs
<1>4. jobs = [i \in D |-> [tariff |-> ids[i], price |-> tariff[ids[i]].price]]
  BY <1>2 DEF WithPrices
<1>5. jobs \in Seq(Jobs) /\ Len(jobs) = Cardinality(S)
  <2> HIDE DEF jobs
  <2>1. jobs \in [D -> Jobs]
    BY <1>3, <1>4
  <2> QED
    BY <1>1, <2>1
<1>6. ASSUME NEW x \in S, \A i \in D : ids[i] # x
      PROVE  FALSE
  <2> DEFINE T == S \ {x}
  <2>1. IsFiniteSet(T) /\ Cardinality(T) = Cardinality(S) - 1 /\ Cardinality(S) \in Nat
    BY <1>1, <1>6, FS_RemoveElement, FS_CardinalityType
  <2>2. ids \in [D -> T]
    BY <1>2, <1>6
  <2>3. IsFiniteSet(D) /\ Cardinality(D) = Cardinality(S)
    BY <1>1, FS_Interval
  <2> HIDE DEF D, T
  <2>4. Cardinality(T) < Cardinality(D)
    BY <2>1, <2>3
  <2>5. \E i, j \in D : i # j /\ ids[i] = ids[j]
    BY <2>1, <2>2, <2>3, <2>4, FS_PigeonHole
  <2> QED
    BY <1>2, <2>5
<1>7. \A t \in S : \E i \in D : ids[i] = t
  BY <1>6
<1>8. \A i \in D : jobs[i].tariff = ids[i] /\ ids[i] \in S /\ jobs[i].price = tariff[ids[i]].price
  BY <1>2, <1>4
<1>9. DOMAIN ids = D /\ 1 .. Len(jobs) = D
  BY <1>2, <1>5
<1> HIDE DEF D, jobs
<1>10. /\ jobs \in Seq(Jobs) /\ DOMAIN ids = 1 .. Len(jobs)
       /\ \A i \in 1 .. Len(jobs) :
             jobs[i].tariff = ids[i] /\ ids[i] \in S /\ jobs[i].price = tariff[ids[i]].price
       /\ \A t \in S : \E i \in 1 .. Len(jobs) : ids[i] = t
  BY <1>5, <1>7, <1>8, <1>9
<1> QED
  BY <1>10 DEF jobs

LEMMA SelectAlone ==
  ASSUME SessionsInv, NEW w \in Users, AsAlone(w), SelectTariffs(w)
  PROVE  AsAlone(w)'
<1> DEFINE users == Book!RateUsers(asked[w].currency)
<1>1. PICK ids \in Orders(users) : queue' = [queue EXCEPT ![w] = WithPrices(ids)]
  BY DEF SelectTariffs
<1>2. /\ stmt[w] = "select" /\ Proceed(w, "recalculate") /\ UNCHANGED <<rateRead, wTariff>>
  BY DEF SelectTariffs
<1>3. TariffTypeOK /\ asked[w].op = "upsert" /\ Held(w) = {}
  BY <1>2, ActiveWorker DEF StepFits, RowsKeep, WritingSteps
<1>4. users \in SUBSET TariffIds /\ \A t \in users : tariff[t].price \in Nat
  BY <1>3, RowsTyped DEF Book!RateUsers
<1> HIDE DEF users
<1> DEFINE jobs == WithPrices(ids)
<1>5. /\ jobs \in Seq(Jobs) /\ DOMAIN ids = 1 .. Len(jobs)
      /\ \A i \in 1 .. Len(jobs) :
            jobs[i].tariff = ids[i] /\ ids[i] \in users /\ jobs[i].price = tariff[ids[i]].price
      /\ \A t \in users : \E i \in 1 .. Len(jobs) : ids[i] = t
  <2>1. ids \in Orders(users)
    BY <1>1
  <2> QED
    BY <1>3, <1>4, <2>1, ListedJobs
<1>6. "recalculate" \in Statements
  BY DEF Statements
<1>7. queue' = [queue EXCEPT ![w] = jobs]
  BY <1>1
<1> HIDE DEF jobs
<1>8. Moved(w, "recalculate", rateRead[w], jobs, wTariff[w])
  BY <1>2, <1>3, <1>5, <1>6, <1>7, Unchanged, ProceedEffect
<1>9. Held(w)' = {} /\ Queued(w)' = users
  BY <1>3, <1>5, <1>8 DEF Moved, Held, Queued
<1>10. /\ UNCHANGED tables /\ asked'[w] = asked[w] /\ stamp'[w] = stamp[w]
       /\ Book!RateUsers(asked[w].currency)' = users
       /\ Book!RatesOf(asked[w].currency)' = Book!RatesOf(asked[w].currency)
  BY <1>8, ReadingKept DEF Moved, users
<1>11. \A i \in 1 .. Len(queue'[w]) : queue'[w][i].price = tariff'[queue'[w][i].tariff].price
  BY <1>5, <1>8 DEF Moved, tables
<1>12. UpsertAlone(w)'
  BY <1>3, <1>8, <1>9, <1>10, <1>11 DEF AsAlone, UpsertAlone, Moved
<1> QED
  BY <1>3, <1>10, <1>12 DEF AsAlone

LEMMA RecalculateAlone ==
  ASSUME SessionsInv, NEW w \in Users, AsAlone(w), Recalculate(w)
  PROVE  AsAlone(w)'
<1>1. stmt[w] = "recalculate" /\ UNCHANGED rateRead
  BY DEF Recalculate
<1>2. /\ TariffTypeOK /\ StepFits(w) /\ Ordered(w) /\ asked[w] \in Requests /\ asked[w].op = "upsert"
      /\ stamp[w] \in RateIds
  BY <1>1, ActiveWorker DEF StepFits
<1>3. UpsertAlone(w)
  BY <1>2 DEF AsAlone
<1>4. CASE queue[w] = <<>>
  <2>1. Proceed(w, "commit") /\ UNCHANGED <<rateRead, queue, wTariff>>
    BY <1>1, <1>4 DEF Recalculate
  <2>2. "commit" \in Statements
    BY DEF Statements
  <2>3. Moved(w, "commit", rateRead[w], queue[w], wTariff[w])
    BY <1>2, <2>1, <2>2, MoveEffect
  <2>4. Held(w)' = Held(w) /\ Queued(w)' = Queued(w)
    BY <2>3 DEF Moved, Held, Queued
  <2>5. UpsertAlone(w)'
    BY <1>1, <1>3, <1>4, <2>3, <2>4, ReadingKept DEF UpsertAlone, Moved, tables
  <2> QED
    BY <1>2, <2>3, <2>5 DEF AsAlone, Moved
<1>5. CASE queue[w] # <<>>
  <2> DEFINE job == Head(queue[w])
             t == job.tariff
             row == Book!Recalculated(tariff[t], job.price, asked[w].rate, stamp[w])
             rest == Tail(queue[w])
  <2>1. Write(w, t, row) /\ queue' = [queue EXCEPT ![w] = rest] /\ Proceed(w, "recalculate")
    BY <1>5 DEF Recalculate
  <2>2. t \in TariffIds /\ job.price \in Nat /\ t \in Queued(w) /\ rest \in Seq(Jobs) /\ tariff[t] # Nil
    BY <1>2, <1>5, QueuedType, TailOfQueue DEF Ordered
  <2>3. row \in Book!Tariffs
    BY <1>2, <2>2, RowsTyped, RequestFields, RecalculatedType
  <2>4. /\ Len(queue[w]) \in Nat /\ Len(queue[w]) >= 1 /\ Len(rest) = Len(queue[w]) - 1
        /\ \A i \in 1 .. Len(rest) : rest[i] = queue[w][i + 1] /\ i + 1 \in 1 .. Len(queue[w])
        /\ job = queue[w][1] /\ 1 \in 1 .. Len(queue[w])
    BY <1>2, <1>5, QueuedType, TailOfQueue
  <2>5. job.price = tariff[t].price
    BY <1>1, <1>3, <2>4 DEF UpsertAlone
  <2>6. row = Book!Recalculated(tariff[t], tariff[t].price, asked[w].rate, stamp[w])
    BY <2>5
  <2>7. Queued(w) = {t} \cup {rest[i].tariff : i \in 1 .. Len(rest)}
    <3>1. \A i \in 1 .. Len(queue[w]) : i # 1 => i - 1 \in 1 .. Len(rest) /\ queue[w][i] = rest[i - 1]
      <4> SUFFICES ASSUME NEW i \in 1 .. Len(queue[w]), i # 1
                   PROVE  i - 1 \in 1 .. Len(rest) /\ queue[w][i] = rest[i - 1]
        OBVIOUS
      <4>1. i - 1 \in 1 .. Len(rest) /\ (i - 1) + 1 = i
        BY <2>4
      <4> QED
        BY <2>4, <4>1
    <3>2. Queued(w) \subseteq {t} \cup {rest[i].tariff : i \in 1 .. Len(rest)}
      <4> SUFFICES ASSUME NEW i \in 1 .. Len(queue[w])
                   PROVE  queue[w][i].tariff \in {t} \cup {rest[j].tariff : j \in 1 .. Len(rest)}
        BY DEF Queued
      <4>1. CASE i = 1
        BY <2>4, <4>1
      <4>2. CASE i # 1
        BY <3>1, <4>2
      <4> QED
        BY <4>1, <4>2
    <3>3. {t} \cup {rest[i].tariff : i \in 1 .. Len(rest)} \subseteq Queued(w)
      BY <2>2, <2>4 DEF Queued
    <3> QED
      BY <3>2, <3>3
  <2> HIDE DEF row, t, rest
  <2>8. "recalculate" \in Statements
    BY DEF Statements
  <2>9. /\ Moved(w, "recalculate", rateRead[w], rest, Writing(w, t, row))
        /\ Held(w)' = Held(w) \cup {t} /\ Writing(w, t, row)[t] = row
        /\ \A s \in TariffIds \ {t} : Writing(w, t, row)[s] = wTariff[w][s]
    <3>1. rest \in Seq(Jobs) /\ t \in TariffIds /\ row \in Book!Tariffs /\ "recalculate" \in Statements
      BY <2>2, <2>3, <2>8
    <3>2. TariffTypeOK /\ UNCHANGED rateRead
      BY <1>1, <1>2
    <3> QED
      BY <2>1, <3>1, <3>2, WriteRowEffect, Zenon
  <2>10. Held(w)' \cup Queued(w)' = Held(w) \cup Queued(w)
    BY <2>7, <2>9 DEF Moved, Queued
  <2>11. \A i \in 1 .. Len(rest) : rest[i].price = tariff[rest[i].tariff].price
    BY <1>1, <1>3, <2>4 DEF UpsertAlone
  <2>12. \A s \in Held(w)' :
           wTariff'[w][s] = Book!Recalculated(tariff[s], tariff[s].price, asked[w].rate, stamp[w])
    BY <1>1, <1>3, <2>6, <2>9 DEF UpsertAlone, Moved, Held
  <2>13. /\ UNCHANGED tables /\ asked'[w] = asked[w] /\ stamp'[w] = stamp[w] /\ queue'[w] = rest
         /\ stmt'[w] = "recalculate"
         /\ Book!RateUsers(asked[w].currency)' = Book!RateUsers(asked[w].currency)
         /\ Book!RatesOf(asked[w].currency)' = Book!RatesOf(asked[w].currency)
    BY <2>9, ReadingKept DEF Moved
  <2>14. tariff' = tariff
    BY <2>13 DEF tables
  <2>15. UpsertAlone(w)'
    BY <1>1, <1>3, <2>10, <2>11, <2>12, <2>13, <2>14 DEF UpsertAlone
  <2> QED
    BY <1>2, <2>13, <2>15 DEF AsAlone
<1> QED
  BY <1>4, <1>5

\* After its first transaction a create "out of force" has its tariff, in force.
LEMMA CommitAlone ==
  ASSUME SessionsInv, NEW w \in Users, AsAlone(w), CommitTariffs(w), stmt'[w] # "idle"
  PROVE  AsAlone(w)'
<1>1. stmt[w] = "commit" /\ TariffTypeOK /\ SwitchesOff(w) /\ Held(w) \subseteq TariffIds
  BY DEF CommitTariffs, SessionsInv, WorkersInv, TariffTypeOK, Held
<1>2. /\ stmt'[w] = "offRead" /\ wTariff'[w] = NoRows
      /\ UNCHANGED <<asked, stamp, rateRead, queue, rates>>
  BY <1>1 DEF CommitTariffs, TariffTypeOK, SwitchesOff
<1>3. asked[w].op = "create" /\ ~asked[w].current /\ CreateAlone(w) /\ RateLatest(w)
  BY <1>1 DEF SwitchesOff, AsAlone, CreateAlone
<1>4. InsertReady(w)
  <2>1. Off(NewRow(w)).is_current = FALSE
    BY <1>3 DEF Off, NewRow, Book!Row
  <2>2. OffReady(w) => ~wTariff[w][Head(queue[w]).tariff].is_current
    BY <1>1, <2>1 DEF OffReady
  <2> QED
    BY <1>1, <1>3, <2>2 DEF CreateAlone, SwitchesOff
<1>5. PICK t \in TariffIds : /\ Held(w) = {t} /\ tariff[t] = Nil /\ wTariff[w][t] = NewRow(w)
                             /\ queue[w] # <<>> /\ Head(queue[w]).tariff = t
  BY <1>3, <1>4 DEF InsertReady
<1>6. /\ tariff'[t] = NewRow(w) /\ \A s \in TariffIds \ {t} : tariff'[s] = tariff[s]
      /\ NewRow(w) # Nil /\ NewRow(w).key = asked[w].key
  <2>1. /\ \A s \in Held(w) : tariff'[s] = wTariff[w][s]
        /\ \A s \in TariffIds \ Held(w) : tariff'[s] = tariff[s]
    BY CommitEffect DEF Commits
  <2>2. tariff'[t] = NewRow(w) /\ \A s \in TariffIds \ {t} : tariff'[s] = tariff[s]
    BY <1>5, <2>1
  <2>3. NewRow(w) # Nil
    BY <1>5 DEF Held
  <2>4. NewRow(w).key = asked[w].key
    BY <1>3 DEF NewRow, Book!Row
  <2> QED
    BY <2>2, <2>3, <2>4
<1>7. RateLatest(w)' /\ NewRow(w)' = NewRow(w)
  BY <1>2, <1>3 DEF RateLatest, Book!LatestRate, Book!RatesOf, NewRow
<1>8. Book!TariffsOf(asked[w].key)' = {t}
  BY <1>2, <1>4, <1>5, <1>6 DEF InsertReady, Book!TariffsOf
<1>9. OffReady(w)'
  BY <1>2, <1>3, <1>5, <1>6, <1>7, <1>8 DEF OffReady
<1>10. CreateAlone(w)'
  BY <1>2, <1>3, <1>7, <1>9 DEF CreateAlone, OffSteps
<1> QED
  BY <1>2, <1>3, <1>10 DEF AsAlone

LEMMA StepAlone ==
  ASSUME SessionsInv, NEW w \in Users, AsAlone(w), TariffStep(w), stmt'[w] # "idle"
  PROVE  AsAlone(w)'
BY ReadRateAlone, FindDuplicateAlone, InsertAlone, OffReadAlone, OffWriteAlone, EditReadAlone,
   EditWriteAlone, EditIndexAlone, SelectAlone, RecalculateAlone, ImportExistsAlone,
   ImportCloseAlone, RefuseRowAlone, RowCommitAlone, CommitAlone DEF TariffStep

\* What a step that is no commit leaves as it was.
LEMMA StatementEffect ==
  ASSUME SessionsInv, NEW w \in Users, BeginRequest(w) \/ TariffStep(w) \/ BreakOff(w),
         ~Commits(w)
  PROVE  Others(w) /\ UNCHANGED <<tariff, rates, logged>> /\ \A v \in Users \ {w} : forms'[v] = forms[v]
<1>1. TariffTypeOK
  BY DEF SessionsInv, WorkersInv
<1> DEFINE Local == /\ Others(w) /\ UNCHANGED <<tariff, rates, logged>>
                    /\ \A v \in Users \ {w} : forms'[v] = forms[v]
<1>2. RollBack(w) => Local
  BY <1>1 DEF RollBack, Forget, TariffTypeOK, Book!TypeOK, Others
<1>3. BeginRequest(w) => Local
  <2> SUFFICES ASSUME BeginRequest(w) PROVE Local
    OBVIOUS
  <2>1. UNCHANGED <<tariff, rates, logged, rateRead, queue, wTariff>>
    BY DEF BeginRequest, tables, Book!OpenForm
  <2>2. \A v \in Users \ {w} : stmt'[v] = stmt[v] /\ asked'[v] = asked[v] /\ stamp'[v] = stamp[v]
    BY <1>1 DEF BeginRequest, TariffTypeOK
  <2>3. \A v \in Users \ {w} : forms'[v] = forms[v]
    BY <1>1 DEF BeginRequest, tables, Book!OpenForm, TariffTypeOK, Book!TypeOK
  <2> QED
    BY <2>1, <2>2, <2>3 DEF Others
<1>4. ASSUME NEW step, Proceed(w, step),
             \A v \in Users \ {w} :
                rateRead'[v] = rateRead[v] /\ queue'[v] = queue[v] /\ wTariff'[v] = wTariff[v]
      PROVE  Local
  BY <1>1, <1>4 DEF Proceed, tables, Others, TariffTypeOK
<1>5. \A t, row : Write(w, t, row) => \A v \in Users \ {w} : wTariff'[v] = wTariff[v]
  BY <1>1 DEF Write, TariffTypeOK
<1> HIDE DEF Local
<1>6. ReadRate(w) => Local
  BY <1>1, <1>2, <1>4 DEF ReadRate, TariffTypeOK
<1>7. FindDuplicate(w) \/ OffRead(w) \/ EditRead(w) \/ EditIndex(w) \/ ImportExists(w) => Local
  BY <1>2, <1>4 DEF FindDuplicate, OffRead, EditRead, EditIndex, ImportExists
<1>8. InsertTariff(w) => Local
  <2>1. \A t \in TariffIds : InsertAs(w, t) => \A v \in Users \ {w} :
           queue'[v] = queue[v] /\ wTariff'[v] = wTariff[v]
    BY <1>1, <1>5 DEF InsertAs, TariffTypeOK
  <2> QED
    BY <1>2, <1>4, <2>1 DEF InsertTariff
<1>9. OffWrite(w) \/ EditWrite(w) => Local
  BY <1>2, <1>4, <1>5 DEF OffWrite, EditWrite
<1>10. SelectTariffs(w) => Local
  BY <1>1, <1>4 DEF SelectTariffs, TariffTypeOK
<1>11. Recalculate(w) => Local
  BY <1>1, <1>4, <1>5 DEF Recalculate, TariffTypeOK
<1>12. ImportClose(w) => Local
  BY <1>1, <1>4 DEF ImportClose, TariffTypeOK
<1>14. RefuseRow(w) => Local
  BY <1>1, NextRowEffect DEF RefuseRow, Others, Local
<1>13. Local
  BY <1>2, <1>3, <1>6, <1>7, <1>8, <1>9, <1>10, <1>11, <1>12, <1>14 DEF TariffStep, BreakOff, Commits
<1> QED
  BY <1>13 DEF Local

\* A tariff gets its first history row with its first commit.
LEMMA LoggedFitsKept ==
  ASSUME SessionsInv, NEW w \in Users, Commits(w), LoggedFits
  PROVE  LoggedFits'
<1>1. /\ \A t \in Held(w) : tariff'[t] = wTariff[w][t] /\ wTariff[w][t] # Nil
      /\ \A t \in TariffIds \ Held(w) : tariff'[t] = tariff[t] /\ logged'[t] = logged[t]
  BY CommitEffect DEF Held
<1> QED
  BY <1>1 DEF LoggedFits

\* Separate requests stay as good as alone.
LEMMA AloneStep ==
  ASSUME SessionsInv, AloneInv, Separate, [TariffNext]_tariffVars
  PROVE  AloneInv'
<1>1. ASSUME NEW w \in Users, BeginRequest(w) \/ TariffStep(w) \/ BreakOff(w)
      PROVE  AloneInv'
  <2>1. LoggedFits'
    <3>1. CASE Commits(w)
      BY <3>1, LoggedFitsKept DEF AloneInv
    <3>2. CASE ~Commits(w)
      BY <1>1, <3>2, StatementEffect DEF AloneInv, LoggedFits
    <3> QED
      BY <3>1, <3>2
  <2>2. stmt'[w] # "idle" => AsAlone(w)'
    <3>1. CASE BeginRequest(w)
      BY <3>1, BeginAlone
    <3>2. CASE TariffStep(w)
      <4>1. stmt[w] # "idle"
        BY <3>2 DEF TariffStep, ReadRate, FindDuplicate, InsertTariff, OffRead, OffWrite, EditRead,
           EditWrite, EditIndex, SelectTariffs, Recalculate, ImportExists, ImportClose, RefuseRow,
           CommitRow, CommitValue, CommitTariffs
      <4> QED
        BY <3>2, <4>1, StepAlone DEF AloneInv
    <3>3. CASE BreakOff(w)
      BY <3>3, AloneAtRest DEF BreakOff
    <3> QED
      BY <1>1, <3>1, <3>2, <3>3
  <2>3. ASSUME NEW v \in Users \ {w}, stmt'[v] # "idle"
        PROVE  AsAlone(v)'
    <3>1. Others(w)
      BY <1>1, StatementEffect, CommitEffect
    <3>2. stmt[v] # "idle" /\ AsAlone(v)
      BY <2>3, <3>1 DEF Others, AloneInv
    <3>3. Spared(v)
      <4>1. CASE Commits(w)
        BY <3>2, <4>1, CommitSpares
      <4>2. CASE ~Commits(w)
        BY <1>1, <3>1, <4>2, StatementEffect, StatementSpares DEF Others
      <4> QED
        BY <4>1, <4>2
    <3>4. StaysAt(v)
      BY <3>1 DEF Others, StaysAt
    <3> QED
      BY <3>2, <3>3, <3>4, AloneFrame
  <2> QED
    BY <2>1, <2>2, <2>3 DEF AloneInv
<1>2. CASE UNCHANGED tariffVars
  <2>1. /\ UNCHANGED <<tariff, rates, logged, forms>> /\ UNCHANGED tables
        /\ UNCHANGED <<stmt, asked, stamp, rateRead, queue, wTariff>>
    BY <1>2 DEF tariffVars, tables
  <2>2. LoggedFits'
    BY <2>1 DEF AloneInv, LoggedFits
  <2>3. ASSUME NEW v \in Users, stmt'[v] # "idle"
        PROVE  AsAlone(v)'
    <3>1. stmt[v] # "idle" /\ AsAlone(v) /\ StaysAt(v) /\ Spared(v)
      BY <2>1, <2>3, StatementSpares DEF AloneInv, StaysAt
    <3> QED
      BY <3>1, AloneFrame
  <2> QED
    BY <2>2, <2>3 DEF AloneInv
<1> QED
  BY <1>1, <1>2 DEF TariffNext

LEMMA AloneInit ==
  ASSUME TariffInit
  PROVE  AloneInv
BY DEF TariffInit, Book!Init, AloneInv, LoggedFits

--------------------------------------------------------------------------------
(* What the tariffs of unfinished requests hide.                           *)

\* The tariff that w has created and is switching off.
UnfinishedOf(w) == IF SwitchingOff(w) THEN {Head(queue[w]).tariff} ELSE {}

\* It is in force, as it was inserted, and the only one of its key.
LEMMA SwitchingOffReady ==
  ASSUME SessionsInv, AloneInv, NEW w \in Users, SwitchingOff(w)
  PROVE  /\ stmt[w] # "idle" /\ asked[w] \in Requests /\ asked[w].op = "create" /\ ~asked[w].current
         /\ RateLatest(w) /\ OffReady(w) /\ forms[w] = Nil
         /\ Head(queue[w]).tariff \in TariffIds /\ tariff[Head(queue[w]).tariff] # Nil
         /\ tariff[Head(queue[w]).tariff].key = asked[w].key
         /\ tariff[Head(queue[w]).tariff].currency = asked[w].currency
         /\ UnfinishedOf(w) = {Head(queue[w]).tariff}
<1>1. stmt[w] # "idle" /\ stmt[w] \in OffSteps \cup {"commit"}
  BY DEF SwitchingOff, OffSteps
<1>2. /\ TariffTypeOK /\ StepFits(w) /\ FormTrue(w) /\ OffKnown(w) /\ AsAlone(w)
  BY <1>1, ActiveWorker DEF AloneInv
<1>3. asked[w].op = "create" /\ asked[w] \in Requests /\ forms[w] = Nil /\ CreateAlone(w)
  BY <1>1, <1>2 DEF SwitchingOff, OffSteps, StepFits, FormTrue, AsAlone
<1>4. RateLatest(w) /\ OffReady(w)
  <2>1. stmt[w] = "commit" => ~InsertReady(w)
    <3> SUFFICES ASSUME stmt[w] = "commit", InsertReady(w) PROVE FALSE
      OBVIOUS
    <3>1. queue[w] # <<>> /\ tariff[Head(queue[w]).tariff] # Nil /\ ~asked[w].current
      BY <1>3 DEF SwitchingOff, CreateAlone, OffSteps
    <3> QED
      BY <1>3, <3>1 DEF InsertReady
  <2> QED
    BY <1>1, <1>3, <2>1 DEF CreateAlone, OffSteps
<1>5. /\ Head(queue[w]).tariff \in Book!TariffsOf(asked[w].key)
      /\ tariff[Head(queue[w]).tariff] = NewRow(w) /\ ~asked[w].current
  BY <1>4 DEF OffReady
<1>6. NewRow(w).currency = asked[w].currency
  BY <1>3 DEF NewRow, Book!Row
<1> QED
  BY <1>1, <1>3, <1>4, <1>5, <1>6 DEF Book!TariffsOf, UnfinishedOf

LEMMA UnfinishedUnion == \A t : t \in Unfinished <=> \E v \in Users : t \in UnfinishedOf(v)
BY DEF Unfinished, UnfinishedOf

\* A request has no business with the unfinished tariffs of the others.
LEMMA Elsewhere ==
  ASSUME SessionsInv, AloneInv, Separate, NEW w \in Users, stmt[w] # "idle",
         NEW t \in Unfinished, t \notin UnfinishedOf(w)
  PROVE  /\ t \in TariffIds /\ tariff[t] # Nil
         /\ tariff[t].key \notin Concerned(w).keys
         /\ asked[w].op = "upsert" => tariff[t].currency \notin Concerned(w).currencies
<1>1. PICK v \in Users : t \in UnfinishedOf(v)
  BY UnfinishedUnion
<1>2. SwitchingOff(v) /\ t = Head(queue[v]).tariff /\ v # w
  BY <1>1 DEF UnfinishedOf
<1>3. /\ stmt[v] # "idle" /\ asked[v].op = "create" /\ t \in TariffIds /\ tariff[t] # Nil
      /\ tariff[t].key = asked[v].key /\ tariff[t].currency = asked[v].currency
  BY <1>2, SwitchingOffReady
<1>4. asked[v].key \in Concerned(v).keys /\ asked[v].currency \in Concerned(v).currencies
  BY <1>3, ConcernedOf
<1> QED
  BY <1>2, <1>3, <1>4 DEF Separate

\* Nor have two of them an unfinished tariff in common.
LEMMA UnfinishedApart ==
  ASSUME SessionsInv, AloneInv, Separate, NEW w \in Users, NEW v \in Users \ {w}
  PROVE  UnfinishedOf(v) \cap UnfinishedOf(w) = {}
<1> SUFFICES ASSUME NEW t \in UnfinishedOf(v), t \in UnfinishedOf(w) PROVE FALSE
  OBVIOUS
<1>1. SwitchingOff(v) /\ SwitchingOff(w) /\ t = Head(queue[v]).tariff /\ t = Head(queue[w]).tariff
  BY DEF UnfinishedOf
<1>2. /\ stmt[v] # "idle" /\ asked[v].op = "create" /\ tariff[t].key = asked[v].key
      /\ stmt[w] # "idle" /\ asked[w].op = "create" /\ tariff[t].key = asked[w].key
  BY <1>1, SwitchingOffReady
<1>3. asked[v].key \in Concerned(v).keys /\ asked[w].key \in Concerned(w).keys
  BY <1>2, ConcernedOf
<1> QED
  BY <1>2, <1>3 DEF Separate

\* No form shows an unfinished tariff.
LEMMA FormsVisible ==
  ASSUME SessionsInv, AloneInv, Separate, NEW u \in Users, forms[u] # Nil
  PROVE  /\ stmt[u] # "idle" /\ asked[u].op = "edit" /\ forms[u].tariff = asked[u].tariff
         /\ tariff[forms[u].tariff] # Nil /\ forms[u].tariff \notin Unfinished
         /\ forms[u].tariff \in TariffIds
<1>1. stmt[u] # "idle"
  BY DEF SessionsInv, WorkersInv, WorkerOK, Resting
<1>2. /\ asked[u].op = "edit" /\ forms[u].tariff = asked[u].tariff /\ asked[u] \in Requests
      /\ tariff[forms[u].tariff] # Nil
  BY <1>1, ActiveWorker DEF FormTrue, StepFits
<1>3. tariff[forms[u].tariff].key \in Concerned(u).keys
  BY <1>2, ConcernedOf
<1>4. UnfinishedOf(u) = {}
  BY <1>2, SwitchingOffReady DEF UnfinishedOf
<1> QED
  BY <1>1, <1>2, <1>3, <1>4, Elsewhere, RequestFields

\* A request alone sees the tables as the book has them, but for its own
\* unfinished tariff.
LEMMA VisibleTables ==
  ASSUME SessionsInv, AloneInv, Separate, NEW w \in Users, stmt[w] # "idle"
  PROVE  /\ \A k \in Concerned(w).keys :
              /\ Alone!TariffsOf(k) = Book!TariffsOf(k) \ UnfinishedOf(w)
              /\ Alone!CurrentOf(k) = Book!CurrentOf(k) \ UnfinishedOf(w)
         /\ asked[w].op = "upsert" =>
              Alone!RateUsers(asked[w].currency) = Book!RateUsers(asked[w].currency) \ UnfinishedOf(w)
         /\ \A c : Alone!RatesOf(c) = Book!RatesOf(c) /\ Alone!LatestRate(c) = Book!LatestRate(c)
<1>1. \A t \in TariffIds : VisibleTariff[t] = IF t \in Unfinished THEN Nil ELSE tariff[t]
  BY DEF VisibleTariff
<1>2. \A t \in UnfinishedOf(w) : t \in Unfinished
  BY UnfinishedUnion
<1>3. \A t \in Unfinished : t \in UnfinishedOf(w) \/
         /\ tariff[t].key \notin Concerned(w).keys
         /\ asked[w].op = "upsert" => tariff[t].currency # asked[w].currency
  BY Elsewhere, ConcernedOf
<1>4. ASSUME NEW k \in Concerned(w).keys
      PROVE  /\ Alone!TariffsOf(k) = Book!TariffsOf(k) \ UnfinishedOf(w)
             /\ Alone!CurrentOf(k) = Book!CurrentOf(k) \ UnfinishedOf(w)
  <2>1. Alone!TariffsOf(k) = Book!TariffsOf(k) \ UnfinishedOf(w)
    BY <1>1, <1>2, <1>3, <1>4 DEF Alone!TariffsOf, Book!TariffsOf
  <2>2. \A t \in Alone!TariffsOf(k) : VisibleTariff[t] = tariff[t]
    BY <1>1 DEF Alone!TariffsOf
  <2>3. Alone!CurrentOf(k) = Book!CurrentOf(k) \ UnfinishedOf(w)
    BY <2>1, <2>2 DEF Alone!CurrentOf, Book!CurrentOf
  <2> QED
    BY <2>1, <2>3
<1>5. ASSUME asked[w].op = "upsert"
      PROVE  Alone!RateUsers(asked[w].currency) = Book!RateUsers(asked[w].currency) \ UnfinishedOf(w)
  BY <1>1, <1>2, <1>3, <1>5 DEF Alone!RateUsers, Book!RateUsers
<1>6. \A c : Alone!RatesOf(c) = Book!RatesOf(c)
  BY DEF Alone!RatesOf, Book!RatesOf
<1>7. \A c : Alone!LatestRate(c) = Book!LatestRate(c)
  BY <1>6 DEF Alone!LatestRate, Book!LatestRate
<1> QED
  BY <1>4, <1>5, <1>6, <1>7

--------------------------------------------------------------------------------
(* Steps as steps of requests that run alone.                              *)

\* The tariffs that the other requests hide stay hidden.
LEMMA UnfinishedOfOthers ==
  ASSUME SessionsInv, NEW w \in Users, BeginRequest(w) \/ TariffStep(w) \/ BreakOff(w), AloneInv,
         NEW v \in Users \ {w}
  PROVE  UnfinishedOf(v)' = UnfinishedOf(v)
<1>1. Others(w)
  BY StatementEffect, CommitEffect
<1>2. stmt'[v] = stmt[v] /\ asked'[v] = asked[v] /\ queue'[v] = queue[v]
  BY <1>1 DEF Others
<1>3. ASSUME stmt[v] = "commit", asked[v].op = "create", queue[v] # <<>>
      PROVE  tariff'[Head(queue[v]).tariff] = Nil <=> tariff[Head(queue[v]).tariff] = Nil
  <2> DEFINE t == Head(queue[v]).tariff
  <2>1. /\ TariffTypeOK /\ OffKnown(v) /\ CreateAlone(v) /\ t \in TariffIds
    BY <1>3, ActiveWorker, QueuedType DEF AloneInv, AsAlone
  <2>2. t \in Held(v)
    BY <1>3, <2>1 DEF OffKnown, CreateAlone, StepFits
  <2>3. CASE Commits(w)
    <3>1. t \notin Held(w)
      BY <2>2 DEF SessionsInv, WorkersInv, RowsApart, Apart
    <3> QED
      BY <2>1, <2>3, <3>1, CommitEffect
  <2>4. CASE ~Commits(w)
    BY <2>4, StatementEffect
  <2> QED
    BY <2>3, <2>4
<1>4. SwitchingOff(v)' <=> SwitchingOff(v)
  BY <1>2, <1>3 DEF SwitchingOff
<1> QED
  BY <1>2, <1>4 DEF UnfinishedOf

LEMMA UnfinishedStep ==
  ASSUME SessionsInv, AloneInv, Separate, NEW w \in Users,
         BeginRequest(w) \/ TariffStep(w) \/ BreakOff(w)
  PROVE  Unfinished' = (Unfinished \ UnfinishedOf(w)) \cup UnfinishedOf(w)'
<1>1. \A t : t \in Unfinished' <=> \E v \in Users : t \in UnfinishedOf(v)'
  BY DEF Unfinished, UnfinishedOf
<1>2. \A v \in Users \ {w} : /\ UnfinishedOf(v)' = UnfinishedOf(v)
                             /\ UnfinishedOf(v) \cap UnfinishedOf(w) = {}
  BY UnfinishedOfOthers, UnfinishedApart
<1> QED
  BY <1>1, <1>2, UnfinishedUnion

\* A statement that is not the last of its transaction changes no table.
LEMMA StatementStays ==
  ASSUME SessionsInv, NEW w \in Users, TariffStep(w), ~Commits(w), ~RollBack(w)
  PROVE  /\ UNCHANGED tables
         /\ SwitchingOff(w) => queue'[w] = queue[w]
         /\ SwitchingOff(w)' /\ ~SwitchingOff(w) => InsertTariff(w)
         /\ SwitchingOff(w) => SwitchingOff(w)'
<1>1. TariffTypeOK
  BY DEF SessionsInv, WorkersInv
<1>2. ASSUME NEW step, Proceed(w, step)
      PROVE  UNCHANGED tables /\ asked'[w] = asked[w] /\ stmt'[w] = step
  BY <1>1, <1>2 DEF Proceed, TariffTypeOK
<1>3. CASE ReadRate(w)
  <2>1. \E step \in {"duplicate", "editRead"} : Proceed(w, step) /\ UNCHANGED <<queue, wTariff>>
    BY <1>3 DEF ReadRate
  <2> QED
    BY <1>2, <1>3, <2>1 DEF ReadRate, SwitchingOff
<1>4. CASE FindDuplicate(w)
  <2>1. \E step \in {"insert", "commit"} :
          /\ Proceed(w, step) /\ UNCHANGED <<queue, wTariff>>
          /\ step = "commit" => asked[w].op # "create"
    BY <1>4 DEF FindDuplicate
  <2> QED
    BY <1>2, <1>4, <2>1 DEF FindDuplicate, SwitchingOff
<1>5. CASE InsertTariff(w)
  BY <1>2, <1>5 DEF InsertTariff, SwitchingOff
<1>6. CASE OffRead(w)
  BY <1>2, <1>6 DEF OffRead, SwitchingOff
<1>7. CASE OffWrite(w)
  <2>1. stmt[w] = "offWrite" /\ Proceed(w, "commit") /\ UNCHANGED queue
    BY <1>7 DEF OffWrite
  <2>2. asked[w].op = "create" /\ queue[w] # <<>> /\ tariff[Head(queue[w]).tariff] # Nil
    BY <2>1, ActiveWorker DEF StepFits, OffKnown, OffSteps
  <2> QED
    BY <1>2, <2>1, <2>2 DEF SwitchingOff, tables
<1>8. CASE EditRead(w) \/ EditWrite(w) \/ EditIndex(w)
  <2>1. stmt[w] \in EditSteps /\ asked[w].op = "edit"
    BY <1>8, ActiveWorker DEF EditRead, EditWrite, EditIndex, StepFits, EditSteps
  <2>2. \E step \in {"editWrite", "editIndex", "commit"} : Proceed(w, step)
    BY <1>8 DEF EditRead, EditWrite, EditIndex
  <2> QED
    BY <1>2, <2>1, <2>2 DEF SwitchingOff, EditSteps
<1>9. CASE SelectTariffs(w) \/ Recalculate(w)
  <2>1. stmt[w] \in {"select", "recalculate"} /\ asked[w].op = "upsert"
    BY <1>9, ActiveWorker DEF SelectTariffs, Recalculate, StepFits
  <2>2. \E step \in {"recalculate", "commit"} : Proceed(w, step)
    BY <1>9 DEF SelectTariffs, Recalculate
  <2> QED
    BY <1>2, <2>1, <2>2 DEF SwitchingOff
<1>10. CASE ImportExists(w) \/ ImportClose(w)
  <2>1. stmt[w] \in {"exists", "close"}
    BY <1>10 DEF ImportExists, ImportClose
  <2>2. \E step \in {"close", "duplicate"} : Proceed(w, step)
    BY <1>10 DEF ImportExists, ImportClose
  <2> QED
    BY <1>2, <2>1, <2>2 DEF SwitchingOff
<1>11. CASE RefuseRow(w)
  <2>1. UNCHANGED tables /\ stmt[w] = "duplicate" /\ stmt'[w] = "exists"
    BY <1>1, <1>11, NextRowEffect DEF RefuseRow, tables
  <2> QED
    BY <2>1 DEF SwitchingOff
<1> QED
  BY <1>3, <1>4, <1>5, <1>6, <1>7, <1>8, <1>9, <1>10, <1>11 DEF TariffStep, Commits

\* ... and nothing that TariffBook shows.
LEMMA StatementAlone ==
  ASSUME SessionsInv, AloneInv, Separate, NEW w \in Users, TariffStep(w), ~Commits(w),
         ~RollBack(w)
  PROVE  UNCHANGED Alone!vars
<1>1. /\ UNCHANGED tables /\ TariffTypeOK
      /\ SwitchingOff(w) => queue'[w] = queue[w] /\ SwitchingOff(w)'
      /\ SwitchingOff(w)' /\ ~SwitchingOff(w) => InsertTariff(w)
  BY StatementStays DEF SessionsInv, WorkersInv
<1>2. ~(InsertTariff(w) /\ SwitchingOff(w)')
  <2> SUFFICES ASSUME InsertTariff(w), SwitchingOff(w)' PROVE FALSE
    OBVIOUS
  <2>1. /\ stmt[w] = "insert" /\ stmt'[w] = "commit" /\ \E t \in TariffIds : InsertAs(w, t)
        /\ asked'[w] = asked[w]
    BY <1>1 DEF InsertTariff, Proceed, TariffTypeOK
  <2>2. PICK t \in TariffIds : InsertAs(w, t)
    BY <2>1
  <2>3. queue[w] = <<>> /\ asked[w].op = "create"
    BY <1>1, <2>1, ActiveWorker DEF SwitchingOff, AloneInv, AsAlone, CreateAlone, ImportAlone, StepFits
  <2>4. queue'[w] # <<>> => Head(queue'[w]).tariff = t /\ tariff'[t] = Nil
    BY <1>1, <2>2, <2>3 DEF InsertAs, TariffTypeOK, tables
  <2> QED
    BY <2>1, <2>4 DEF SwitchingOff
<1>3. UnfinishedOf(w)' = UnfinishedOf(w)
  BY <1>1, <1>2 DEF UnfinishedOf
<1>4. Unfinished' = Unfinished
  BY <1>3, UnfinishedStep, UnfinishedUnion
<1> QED
  BY <1>1, <1>4 DEF Alone!vars, VisibleTariff, VisibleLogged, tables

\* A request begins: only an edit opens a form.
LEMMA BeginMapped ==
  ASSUME SessionsInv, AloneInv, Separate, Separate', NEW w \in Users, BeginRequest(w)
  PROVE  [Alone!Next]_(Alone!vars)
<1>1. PICK q \in Posted(w) :
        /\ stmt[w] = "idle"
        /\ asked' = [asked EXCEPT ![w] = q]
        /\ stmt' = [stmt EXCEPT ![w] = FirstStep[q.op]]
        /\ IF q.op = "edit" THEN Book!OpenForm(w, q.tariff) ELSE UNCHANGED tables
  BY DEF BeginRequest
<1>2. TariffTypeOK /\ q \in Requests /\ asked'[w] = q /\ stmt'[w] = FirstStep[q.op]
      /\ stmt'[w] \notin {"idle", "commit"} \cup OffSteps
  BY <1>1, RequestFields DEF SessionsInv, WorkersInv, TariffTypeOK, Posted, FirstStep, OffSteps
<1>3. UnfinishedOf(w)' = {} /\ UnfinishedOf(w) = {}
  BY <1>1, <1>2 DEF UnfinishedOf, SwitchingOff, OffSteps
<1>4. Unfinished' = Unfinished
  BY <1>3, UnfinishedStep
<1>5. CASE q.op # "edit"
  BY <1>1, <1>4, <1>5 DEF Alone!vars, VisibleTariff, VisibleLogged, tables
<1>6. CASE q.op = "edit"
  <2>1. Book!OpenForm(w, q.tariff) /\ q.tariff \in TariffIds
    BY <1>1, <1>2, <1>6, RequestFields
  <2>2. q.tariff \notin Unfinished
    <3> SUFFICES ASSUME q.tariff \in Unfinished PROVE FALSE
      OBVIOUS
    <3>1. PICK v \in Users : q.tariff \in UnfinishedOf(v)
      BY UnfinishedUnion
    <3>2. SwitchingOff(v) /\ q.tariff = Head(queue[v]).tariff /\ v # w
      BY <1>3, <3>1 DEF UnfinishedOf
    <3>3. stmt[v] # "idle" /\ asked[v].op = "create" /\ tariff[q.tariff].key = asked[v].key
      BY <3>2, SwitchingOffReady
    <3>4. stmt'[v] = stmt[v] /\ asked'[v] = asked[v] /\ tariff' = tariff
      BY <1>1, <1>2, <2>1, <3>2 DEF Book!OpenForm, TariffTypeOK
    <3>5. asked[v].key \in Concerned(v)'.keys
      BY <3>3, <3>4 DEF Concerned
    <3>6. asked[v].key \in Concerned(w)'.keys
      BY <1>2, <1>6, <3>3, <3>4 DEF Concerned
    <3> QED
      BY <1>2, <3>2, <3>3, <3>4, <3>5, <3>6 DEF Separate
  <2>3. VisibleTariff[q.tariff] = tariff[q.tariff]
    BY <2>1, <2>2 DEF VisibleTariff
  <2>4. UNCHANGED <<VisibleTariff, rates, VisibleLogged>>
    BY <1>4, <2>1 DEF Book!OpenForm, VisibleTariff, VisibleLogged
  <2>5. Alone!OpenForm(w, q.tariff)
    BY <2>1, <2>3, <2>4 DEF Book!OpenForm, Alone!OpenForm, Book!Display, Alone!Display
  <2> QED
    BY <2>1, <2>5 DEF Alone!Next
<1> QED
  BY <1>5, <1>6

\* Breaking off closes the form of an edit, and leaves the tariff of a create
\* that was to be switched off as one in force.
LEMMA RollBackMapped ==
  ASSUME SessionsInv, AloneInv, Separate, NEW w \in Users, RollBack(w), stmt[w] # "idle",
         TariffStep(w) \/ BreakOff(w)
  PROVE  [Alone!Next]_(Alone!vars)
<1>1. /\ TariffTypeOK /\ stmt'[w] = "idle" /\ UNCHANGED <<tariff, rates, logged>>
      /\ forms' = [forms EXCEPT ![w] = Nil]
  BY DEF RollBack, SessionsInv, WorkersInv, TariffTypeOK
<1>2. Unfinished' = Unfinished \ UnfinishedOf(w)
  <2>1. UnfinishedOf(w)' = {}
    BY <1>1 DEF UnfinishedOf, SwitchingOff
  <2> QED
    BY <2>1, UnfinishedStep
<1>3. CASE ~SwitchingOff(w)
  <2>1. UNCHANGED <<VisibleTariff, rates, VisibleLogged>>
    BY <1>1, <1>2, <1>3 DEF UnfinishedOf, VisibleTariff, VisibleLogged
  <2>2. CASE forms[w] = Nil
    <3>1. forms' = forms
      BY <1>1, <2>2 DEF TariffTypeOK, Book!TypeOK
    <3> QED
      BY <2>1, <3>1 DEF Alone!vars
  <2>3. CASE forms[w] # Nil
    BY <1>1, <2>1, <2>3 DEF Alone!CloseForm, Alone!Next
  <2> QED
    BY <2>2, <2>3
<1>4. CASE SwitchingOff(w)
  <2> DEFINE q == asked[w]
             t == Head(queue[w]).tariff
             n == Book!LatestRate(q.currency)
             row == Book!Row(q.key, q.currency, q.price, rates[n].rate_to_eur, n, TRUE)
  <2>1. /\ q \in Requests /\ q.op = "create" /\ RateLatest(w) /\ OffReady(w) /\ forms[w] = Nil
        /\ t \in TariffIds /\ UnfinishedOf(w) = {t} /\ stmt[w] # "idle" /\ tariff[t] # Nil
    BY <1>4, SwitchingOffReady
  <2>2. tariff[t] = row /\ logged[t] = Book!Terms(row)
    <3>1. tariff[t] = row
      BY <2>1 DEF OffReady, NewRow, RateLatest
    <3> QED
      BY <2>1, <3>1 DEF SessionsInv, HistoryFollows, Book!HistoryFollows
  <2>3. t \in Unfinished
    BY <2>1, UnfinishedUnion
  <2>4. /\ VisibleTariff[t] = Nil
        /\ VisibleTariff' = [VisibleTariff EXCEPT ![t] = row]
        /\ VisibleLogged' = [VisibleLogged EXCEPT ![t] = Book!Terms(row)]
    BY <1>1, <1>2, <2>1, <2>2, <2>3 DEF VisibleTariff, VisibleLogged
  <2>5. forms' = forms
    BY <1>1, <2>1 DEF TariffTypeOK, Book!TypeOK
  <2>6. /\ Alone!RatesOf(q.currency) # {} /\ Alone!LatestRate(q.currency) = n
        /\ Alone!FindByIdentity(q.key) = {}
    <3>1. q.key \in Concerned(w).keys /\ Book!TariffsOf(q.key) = {t}
      BY <2>1, ConcernedOf DEF OffReady
    <3> QED
      BY <2>1, <3>1, VisibleTables DEF RateLatest, Alone!FindByIdentity
  <2>7. Alone!Row(q.key, q.currency, q.price, rates[n].rate_to_eur, n, TRUE) = row
        /\ Alone!Terms(row) = Book!Terms(row)
    BY DEF Alone!Row, Book!Row, Alone!EurPrice, Book!EurPrice, Alone!Column, Book!Column,
           Alone!Fine, Book!Fine, Alone!Terms, Book!Terms
  <2> HIDE DEF row, n
  <2>8. Alone!Insert(row)
    BY <2>1, <2>4, <2>7 DEF Alone!Insert
  <2>9. Alone!CreateTariff(q.key, q.currency, q.price, TRUE)
    BY <1>1, <2>5, <2>6, <2>7, <2>8 DEF Alone!CreateTariff
  <2> QED
    BY <2>1, <2>9, RequestFields DEF Alone!Next
<1> QED
  BY <1>3, <1>4

\* What the commit of a request that it finishes shows.
LEMMA CommitShows ==
  ASSUME SessionsInv, AloneInv, Separate, NEW w \in Users, Commits(w), ~SwitchesOff(w)
  PROVE  /\ VisibleTariff' = [t \in TariffIds |-> IF t \in Held(w) THEN wTariff[w][t]
                                                                   ELSE VisibleTariff[t]]
         /\ VisibleLogged' = [t \in TariffIds |-> IF HasHistory(w, t) THEN Book!Terms(wTariff[w][t])
                                                                      ELSE VisibleLogged[t]]
         /\ \A t \in Held(w) \ UnfinishedOf(w) : VisibleTariff[t] = tariff[t]
<1>1. /\ TariffTypeOK /\ stmt[w] # "idle" /\ TariffStep(w) /\ AsAlone(w)
      /\ stmt[w] = "commit" \/ asked[w].op = "import"
      /\ tariff' = [t \in TariffIds |-> IF t \in Held(w) THEN wTariff[w][t] ELSE tariff[t]]
      /\ logged' = [t \in TariffIds |-> IF HasHistory(w, t) THEN Book!Terms(wTariff[w][t])
                                                                  ELSE logged[t]]
  BY Committing DEF Commits, CommitTariffs, StoreRows, SessionsInv, WorkersInv, TariffStep, AloneInv
<1>2. Unfinished' = Unfinished \ UnfinishedOf(w)
  <2>1. UnfinishedOf(w)' = {}
    <3>1. CommitTariffs(w) => stmt'[w] = "idle"
      BY <1>1 DEF CommitTariffs, TariffTypeOK
    <3>2. CommitRow(w) \/ CommitValue(w) => stmt'[w] \in {"exists", "close", "duplicate"}
      BY RowCommitSelf
    <3> QED
      BY <3>1, <3>2 DEF UnfinishedOf, SwitchingOff, Commits
  <2> QED
    BY <1>1, <2>1, UnfinishedStep
<1>3. \A t \in Held(w) : t \in Unfinished => t \in UnfinishedOf(w)
  BY <1>1, HeldConcerned, Elsewhere
<1>4. \A t \in UnfinishedOf(w) : t \in Held(w) /\ t \in Unfinished /\ HasHistory(w, t)
  <2>1. SwitchingOff(w) => Held(w) = {Head(queue[w]).tariff} /\ asked[w].op = "create"
    BY <1>1, SwitchingOffReady DEF OffReady
  <2> QED
    BY <2>1, UnfinishedUnion DEF UnfinishedOf, HasHistory
<1>5. \A t \in TariffIds : HasHistory(w, t) => t \in Held(w)
  BY DEF HasHistory
<1>6. \A t \in Held(w) : t \in TariffIds
  BY DEF Held
<1>7. \A t \in TariffIds : t \in Unfinished' <=> t \in Unfinished /\ t \notin Held(w)
  BY <1>2, <1>3, <1>4
<1>8. \A t \in TariffIds :
        /\ VisibleTariff[t] = IF t \in Unfinished THEN Nil ELSE tariff[t]
        /\ VisibleLogged[t] = IF t \in Unfinished THEN Nil ELSE logged[t]
  BY DEF VisibleTariff, VisibleLogged
<1>9. /\ VisibleTariff' = [t \in TariffIds |-> IF t \in Unfinished' THEN Nil ELSE tariff'[t]]
      /\ VisibleLogged' = [t \in TariffIds |-> IF t \in Unfinished' THEN Nil ELSE logged'[t]]
  BY DEF VisibleTariff, VisibleLogged
<1>10. \A t \in TariffIds :
        /\ (IF t \in Unfinished' THEN Nil ELSE tariff'[t])
             = (IF t \in Held(w) THEN wTariff[w][t] ELSE VisibleTariff[t])
        /\ (IF t \in Unfinished' THEN Nil ELSE logged'[t])
             = (IF HasHistory(w, t) THEN Book!Terms(wTariff[w][t]) ELSE VisibleLogged[t])
  <2> SUFFICES ASSUME NEW t \in TariffIds
               PROVE  /\ (IF t \in Unfinished' THEN Nil ELSE tariff'[t])
                           = (IF t \in Held(w) THEN wTariff[w][t] ELSE VisibleTariff[t])
                      /\ (IF t \in Unfinished' THEN Nil ELSE logged'[t])
                           = (IF HasHistory(w, t) THEN Book!Terms(wTariff[w][t]) ELSE VisibleLogged[t])
    OBVIOUS
  <2>1. CASE t \in Held(w)
    <3>1. t \notin Unfinished' /\ (~HasHistory(w, t) => t \notin Unfinished)
      BY <1>3, <1>4, <1>7, <2>1
    <3> QED
      BY <1>1, <1>8, <2>1, <3>1
  <2>2. CASE t \notin Held(w)
    BY <1>1, <1>5, <1>7, <1>8, <2>2
  <2> QED
    BY <2>1, <2>2
<1>11. \A t \in Held(w) \ UnfinishedOf(w) : VisibleTariff[t] = tariff[t]
  BY <1>3, <1>6, <1>8
<1> QED
  BY <1>9, <1>10, <1>11

\* The forms after a commit.
LEMMA CommitForms ==
  ASSUME SessionsInv, NEW w \in Users, Commits(w)
  PROVE  /\ forms' = [Book!Outdated(Held(w)) EXCEPT ![w] = Nil]
         /\ forms[w] = Nil => forms' = Book!Outdated(Held(w))
         /\ forms[w] = Nil /\ (\A u \in Users : forms[u] # Nil => forms[u].tariff \notin Held(w))
              => forms' = forms
<1>1. TariffTypeOK /\ forms' = [Book!Outdated(Held(w)) EXCEPT ![w] = Nil]
  BY Committing DEF StoreRows, SessionsInv, WorkersInv
<1>2. forms[w] = Nil => Book!Outdated(Held(w))[w] = Nil
  BY DEF Book!Outdated
<1>3. forms[w] = Nil => forms' = Book!Outdated(Held(w))
  BY <1>1, <1>2, OutdatedForms
<1>4. (\A u \in Users : forms[u] # Nil => forms[u].tariff \notin Held(w)) => Book!Outdated(Held(w)) = forms
  BY <1>1 DEF Book!Outdated, TariffTypeOK, Book!TypeOK
<1> QED
  BY <1>1, <1>3, <1>4

\* The first commit of a create "out of force" shows nothing yet.
LEMMA CommitUnshown ==
  ASSUME SessionsInv, AloneInv, Separate, NEW w \in Users, CommitTariffs(w), SwitchesOff(w)
  PROVE  UNCHANGED Alone!vars
<1>1. /\ TariffTypeOK /\ stmt[w] = "commit" /\ stmt'[w] = "offRead" /\ queue'[w] = queue[w]
      /\ TariffStep(w) /\ rates' = rates
      /\ asked[w].op = "create" /\ ~asked[w].current /\ wTariff[w][Head(queue[w]).tariff].is_current
      /\ tariff' = [t \in TariffIds |-> IF t \in Held(w) THEN wTariff[w][t] ELSE tariff[t]]
      /\ logged' = [t \in TariffIds |-> IF HasHistory(w, t) THEN Book!Terms(wTariff[w][t])
                                                                  ELSE logged[t]]
  BY DEF CommitTariffs, StoreRows, SessionsInv, WorkersInv, TariffTypeOK, TariffStep, SwitchesOff
<1>2. CreateAlone(w) /\ StepFits(w) /\ FormTrue(w) /\ forms[w] = Nil
  BY <1>1, ActiveWorker DEF AloneInv, AsAlone, FormTrue
<1>3. InsertReady(w)
  <2>1. Off(NewRow(w)).is_current = FALSE
    BY <1>1 DEF Off, NewRow, Book!Row
  <2>2. OffReady(w) => ~wTariff[w][Head(queue[w]).tariff].is_current
    BY <1>1, <2>1 DEF OffReady
  <2> QED
    BY <1>1, <1>2, <2>2 DEF CreateAlone
<1>4. PICK t \in TariffIds : /\ Held(w) = {t} /\ tariff[t] = Nil
                             /\ queue[w] # <<>> /\ Head(queue[w]).tariff = t
  BY <1>1, <1>3 DEF InsertReady
<1>5. UnfinishedOf(w)' = {t} /\ UnfinishedOf(w) = {}
  BY <1>1, <1>4 DEF UnfinishedOf, SwitchingOff
<1>6. Unfinished' = Unfinished \cup {t}
  BY <1>1, <1>5, UnfinishedStep
<1>7. \A s \in TariffIds \ {t} : /\ tariff'[s] = tariff[s] /\ logged'[s] = logged[s]
                                 /\ s \in Unfinished' <=> s \in Unfinished
  BY <1>1, <1>4, <1>6 DEF HasHistory
<1>8. VisibleTariff[t] = Nil /\ VisibleLogged[t] = Nil /\ t \in TariffIds
  BY <1>4 DEF VisibleTariff, VisibleLogged, AloneInv, LoggedFits
<1>9. VisibleTariff' = VisibleTariff /\ VisibleLogged' = VisibleLogged
  <2>1. \A s \in TariffIds :
          /\ (IF s \in Unfinished' THEN Nil ELSE tariff'[s])
               = (IF s \in Unfinished THEN Nil ELSE tariff[s])
          /\ (IF s \in Unfinished' THEN Nil ELSE logged'[s])
               = (IF s \in Unfinished THEN Nil ELSE logged[s])
    BY <1>6, <1>7, <1>8 DEF VisibleTariff, VisibleLogged
  <2> QED
    BY <2>1 DEF VisibleTariff, VisibleLogged
<1>10. forms' = forms
  <2>1. \A u \in Users : forms[u] # Nil => tariff[forms[u].tariff] # Nil
    BY FormsVisible
  <2> QED
    BY <1>2, <1>4, <2>1, CommitForms DEF Commits
<1> QED
  BY <1>1, <1>9, <1>10 DEF Alone!vars

\* A tariff appears: it has no history yet, and no form shows it.
LEMMA InsertShown ==
  ASSUME SessionsInv, AloneInv, Separate, NEW w \in Users, CommitTariffs(w), ~SwitchesOff(w),
         asked[w].op = "create",
         NEW t \in TariffIds, Held(w) = {t}, tariff[t] = Nil \/ UnfinishedOf(w) = {t}, forms[w] = Nil,
         HasHistory(w, t)
  PROVE  Alone!Insert(wTariff[w][t]) /\ UNCHANGED <<rates, forms>>
<1>1. /\ VisibleTariff' = [s \in TariffIds |-> IF s \in Held(w) THEN wTariff[w][s]
                                                                ELSE VisibleTariff[s]]
      /\ VisibleLogged' = [s \in TariffIds |-> IF HasHistory(w, s) THEN Book!Terms(wTariff[w][s])
                                                                   ELSE VisibleLogged[s]]
  BY CommitShows DEF Commits
<1>2. \A s \in TariffIds : HasHistory(w, s) <=> s = t
  BY DEF HasHistory
<1>3. VisibleTariff[t] = Nil
  BY UnfinishedUnion DEF VisibleTariff
<1>4. /\ VisibleTariff' = [VisibleTariff EXCEPT ![t] = wTariff[w][t]]
      /\ VisibleLogged' = [VisibleLogged EXCEPT ![t] = Book!Terms(wTariff[w][t])]
  BY <1>1, <1>2 DEF VisibleTariff, VisibleLogged
<1>5. \A u \in Users : forms[u] # Nil => forms[u].tariff \notin Held(w)
  <2>1. \A u \in Users : forms[u] # Nil =>
           tariff[forms[u].tariff] # Nil /\ forms[u].tariff \notin Unfinished
    BY FormsVisible
  <2>2. \A s \in UnfinishedOf(w) : s \in Unfinished
    BY UnfinishedUnion
  <2> QED
    BY <2>1, <2>2
<1>6. forms' = forms /\ rates' = rates
  BY <1>5, CommitForms DEF Commits, CommitTariffs
<1> QED
  BY <1>3, <1>4, <1>6 DEF Alone!Insert, Alone!Terms, Book!Terms

LEMMA SameFormulas ==
  /\ \A k, c, p, r, n : \A on : Alone!Row(k, c, p, r, n, on) = Book!Row(k, c, p, r, n, on)
  /\ \A row : Alone!Terms(row) = Book!Terms(row)
  /\ \A row, p, r, n : Alone!Recalculated(row, p, r, n) = Book!Recalculated(row, p, r, n)
  /\ \A row, p, c, on, commented :
        Alone!Changes(row, p, c, on, commented) <=> Book!Changes(row, p, c, on, commented)
  /\ \A ts : Alone!Outdated(ts) = Book!Outdated(ts)
BY DEF Alone!Row, Book!Row, Alone!EurPrice, Book!EurPrice, Alone!Column, Book!Column,
       Alone!Fine, Book!Fine, Alone!Terms, Book!Terms, Alone!Recalculated, Book!Recalculated,
       Alone!Changes, Book!Changes, Alone!Outdated, Book!Outdated

LEMMA CommitCreateMapped ==
  ASSUME SessionsInv, AloneInv, Separate, NEW w \in Users, CommitTariffs(w), ~SwitchesOff(w),
         asked[w].op = "create"
  PROVE  Alone!Next
<1> DEFINE q == asked[w]
           n == Book!LatestRate(q.currency)
<1>1. /\ TariffTypeOK /\ stmt[w] = "commit" /\ CreateAlone(w) /\ RateLatest(w) /\ q \in Requests
      /\ forms[w] = Nil
  BY ActiveWorker DEF CommitTariffs, AloneInv, AsAlone, FormTrue, StepFits, CreateAlone
<1>2. /\ q.key \in Keys /\ q.currency \in Currencies /\ q.price \in Prices /\ q.current \in BOOLEAN
      /\ q.key \in Concerned(w).keys
  BY <1>1, RequestFields, ConcernedOf
<1>3. /\ Alone!RatesOf(q.currency) # {} /\ Alone!LatestRate(q.currency) = n
      /\ Book!TariffsOf(q.key) \subseteq UnfinishedOf(w) => Alone!FindByIdentity(q.key) = {}
  BY <1>1, <1>2, VisibleTables DEF RateLatest, Alone!FindByIdentity
<1>4. n \in RateIds /\ rates[n].rate_to_eur \in RateValues
  <2>1. n \in RateIds /\ rates[n] # Nil
    BY <1>1, <1>2, LatestRateIsRate DEF SessionsInv, RateLatest
  <2> QED
    BY <1>1, <2>1, RowsTyped
<1>5. NewRow(w) = Book!Row(q.key, q.currency, q.price, rates[n].rate_to_eur, n, TRUE)
  BY <1>1 DEF NewRow, RateLatest
<1> HIDE DEF n
<1>6. ASSUME NEW on \in BOOLEAN, NEW t \in TariffIds, Held(w) = {t},
             tariff[t] = Nil \/ UnfinishedOf(w) = {t},
             wTariff[w][t] = Book!Row(q.key, q.currency, q.price, rates[n].rate_to_eur, n, on),
             Book!TariffsOf(q.key) \subseteq UnfinishedOf(w)
      PROVE  Alone!Next
  <2>1. Alone!Insert(wTariff[w][t]) /\ UNCHANGED <<rates, forms>>
    BY <1>1, <1>6, InsertShown DEF HasHistory
  <2>2. wTariff[w][t] = Alone!Row(q.key, q.currency, q.price, rates[n].rate_to_eur, n, on)
    BY <1>6, SameFormulas
  <2>3. Alone!CreateTariff(q.key, q.currency, q.price, on)
    BY <1>3, <1>6, <2>1, <2>2 DEF Alone!CreateTariff
  <2> QED
    BY <1>2, <2>3 DEF Alone!Next
<1>7. CASE InsertReady(w)
  <2>1. PICK t \in TariffIds :
          /\ Held(w) = {t} /\ tariff[t] = Nil /\ wTariff[w][t] = NewRow(w)
          /\ ~q.current => queue[w] # <<>> /\ Head(queue[w]).tariff = t
    BY <1>7 DEF InsertReady
  <2>2. NewRow(w).is_current
    BY DEF NewRow, Book!Row
  <2>3. q.current = TRUE
    BY <1>2, <2>1, <2>2 DEF SwitchesOff
  <2>4. Book!TariffsOf(q.key) = {}
    BY <1>7 DEF InsertReady
  <2> QED
    BY <1>5, <1>6, <2>1, <2>4
<1>8. CASE OffReady(w)
  <2> DEFINE t == Head(queue[w]).tariff
  <2>1. /\ Held(w) = {t} /\ wTariff[w][t] = Off(NewRow(w)) /\ queue[w] # <<>>
        /\ Book!TariffsOf(q.key) = {t}
    BY <1>1, <1>8 DEF OffReady
  <2>2. t \in TariffIds /\ tariff[t] # Nil
    BY <2>1 DEF Book!TariffsOf
  <2>3. UnfinishedOf(w) = {t}
    BY <1>1, <2>1, <2>2 DEF UnfinishedOf, SwitchingOff
  <2>4. Off(NewRow(w)) = Book!Row(q.key, q.currency, q.price, rates[n].rate_to_eur, n, FALSE)
    <3> DEFINE on == Book!Row(q.key, q.currency, q.price, rates[n].rate_to_eur, n, TRUE)
    <3>1. [on EXCEPT !.is_current = FALSE]
            = Book!Row(q.key, q.currency, q.price, rates[n].rate_to_eur, n, FALSE)
      <4>1. n \in RateIds \cup {Nil} /\ rates[n].rate_to_eur \in RateValues
        BY <1>4
      <4>2. q.key \in Keys /\ q.currency \in Currencies /\ q.price \in Prices
        BY <1>2
      <4> HIDE DEF q
      <4> QED
        BY <4>1, <4>2, RowOff DEF on
    <3>2. Off(NewRow(w)) = Off(on)
      BY <1>5
    <3>3. Off(on) = [on EXCEPT !.is_current = FALSE]
      BY Zenon DEF Off
    <3> QED
      BY <3>1, <3>2, <3>3
  <2> QED
    BY <1>6, <2>1, <2>2, <2>3, <2>4
<1> QED
  BY <1>1, <1>7, <1>8 DEF CreateAlone

LEMMA CommitEditMapped ==
  ASSUME SessionsInv, AloneInv, Separate, NEW w \in Users, CommitTariffs(w),
         asked[w].op = "edit"
  PROVE  Alone!Next
<1> DEFINE q == asked[w]
           t == q.tariff
           n == Book!LatestRate(q.currency)
<1>1. /\ TariffTypeOK /\ stmt[w] = "commit" /\ EditAlone(w) /\ RateLatest(w) /\ q \in Requests
      /\ forms[w] # Nil /\ forms[w].tariff = t /\ ~SwitchesOff(w)
  BY ActiveWorker DEF CommitTariffs, AloneInv, AsAlone, FormTrue, StepFits, EditAlone, SwitchesOff
<1>2. /\ t \in TariffIds /\ q.currency \in Currencies /\ q.price \in Prices /\ q.current \in BOOLEAN
      /\ tariff[t] # Nil /\ t \notin Unfinished /\ q.commented \in BOOLEAN
  BY <1>1, RequestFields, FormsVisible DEF Requests
<1>3. UnfinishedOf(w) = {} /\ VisibleTariff[t] = tariff[t]
  BY <1>1, <1>2, SwitchingOffReady DEF UnfinishedOf, VisibleTariff
<1>4. /\ Held(w) = {t} /\ wTariff[w][t] = EditedRow(w) /\ forms[w].fresh
      /\ Book!Changes(tariff[t], q.price, q.currency, q.current, q.commented)
      /\ q.current => Book!CurrentOf(tariff[t].key) \subseteq {t}
  BY <1>1 DEF EditAlone
<1>5. \A s \in TariffIds : HasHistory(w, s) <=> s = t
  BY <1>4 DEF HasHistory
<1>6. /\ VisibleTariff' = [VisibleTariff EXCEPT ![t] = EditedRow(w)]
      /\ VisibleLogged' = [VisibleLogged EXCEPT ![t] = Book!Terms(EditedRow(w))]
  <2>1. /\ VisibleTariff' = [s \in TariffIds |-> IF s = t THEN EditedRow(w) ELSE VisibleTariff[s]]
        /\ VisibleLogged' = [s \in TariffIds |-> IF s = t THEN Book!Terms(EditedRow(w))
                                                          ELSE VisibleLogged[s]]
    BY <1>1, <1>4, <1>5, CommitShows DEF Commits
  <2> QED
    BY <2>1 DEF VisibleTariff, VisibleLogged
<1>7. rates' = rates /\ forms' = [Book!Outdated({t}) EXCEPT ![w] = Nil]
  BY <1>4, CommitForms DEF Commits, CommitTariffs
<1>8. /\ Alone!RatesOf(q.currency) # {} /\ Alone!LatestRate(q.currency) = n
      /\ Alone!CurrentOf(tariff[t].key) = Book!CurrentOf(tariff[t].key)
  <2>1. tariff[t].key \in Concerned(w).keys
    BY ConcernedOf
  <2>2. Alone!CurrentOf(tariff[t].key) = Book!CurrentOf(tariff[t].key) \ UnfinishedOf(w)
    BY <1>1, <2>1, VisibleTables
  <2>3. Alone!RatesOf(q.currency) = Book!RatesOf(q.currency) /\ Alone!LatestRate(q.currency) = n
    BY <1>1, VisibleTables
  <2> QED
    BY <1>1, <1>3, <2>2, <2>3 DEF RateLatest
<1>9. EditedRow(w) = Alone!Row(tariff[t].key, q.currency, q.price, rates[n].rate_to_eur, n, q.current)
  BY <1>1, SameFormulas DEF EditedRow, RateLatest
<1> HIDE DEF n
<1>10. Alone!Rewrite(w, t, EditedRow(w))
  BY <1>6, <1>7, SameFormulas DEF Alone!Rewrite
<1>11. Alone!EditTariff(w, q.currency, q.price, q.current, q.commented)
  BY <1>1, <1>3, <1>4, <1>8, <1>9, <1>10, SameFormulas DEF Alone!EditTariff
<1> QED
  BY <1>2, <1>11 DEF Alone!Next

LEMMA CommitUpsertMapped ==
  ASSUME SessionsInv, AloneInv, Separate, NEW w \in Users, CommitTariffs(w),
         asked[w].op = "upsert"
  PROVE  Alone!Next
<1> DEFINE q == asked[w]
           c == q.currency
           n == stamp[w]
           ts == Book!RateUsers(c)
<1>1. /\ TariffTypeOK /\ stmt[w] = "commit" /\ UpsertAlone(w) /\ q \in Requests
      /\ forms[w] = Nil /\ ~SwitchesOff(w) /\ n \in RateIds
  BY ActiveWorker DEF CommitTariffs, AloneInv, AsAlone, FormTrue, StepFits, SwitchesOff
<1>2. /\ c \in Currencies /\ q.rate \in RateValues /\ UnfinishedOf(w) = {}
      /\ c \in Concerned(w).currencies
  BY <1>1, RequestFields, SwitchingOffReady, ConcernedOf DEF UnfinishedOf
<1>3. rates[n] = Nil /\ \A m \in Alone!RatesOf(c) : m < n
  <2>1. rates[n] = Nil
    BY <1>1, NotNil DEF SessionsInv, StampsNew
  <2> QED
    BY <1>1, <2>1, VisibleTables DEF UpsertAlone
<1>4. /\ Held(w) = ts /\ \A t \in ts : wTariff[w][t] = Book!Recalculated(tariff[t], tariff[t].price, q.rate, n)
  <2>1. queue[w] = <<>> /\ Held(w) \cup Queued(w) = ts
        /\ \A t \in Held(w) : wTariff[w][t] = Book!Recalculated(tariff[t], tariff[t].price, q.rate, n)
    BY <1>1 DEF UpsertAlone
  <2>2. Queued(w) = {}
    BY <2>1 DEF Queued
  <2> QED
    BY <2>1, <2>2
<1>5. Alone!RateUsers(c) = ts /\ \A t \in ts : VisibleTariff[t] = tariff[t] /\ t \in TariffIds
  BY <1>1, <1>2, <1>4, VisibleTables, CommitShows DEF Book!RateUsers, Commits
<1>6. \A s \in TariffIds : HasHistory(w, s) <=> s \in ts
  BY <1>4 DEF HasHistory
<1>7. /\ VisibleTariff' = [s \in TariffIds |-> IF s \in ts THEN wTariff[w][s] ELSE VisibleTariff[s]]
      /\ VisibleLogged' = [s \in TariffIds |-> IF s \in ts THEN Book!Terms(wTariff[w][s])
                                                         ELSE VisibleLogged[s]]
  BY <1>1, <1>4, <1>6, CommitShows DEF Commits
<1>8. /\ rates' = [rates EXCEPT ![n] = [currency |-> c, rate_to_eur |-> q.rate]]
      /\ forms' = Alone!Outdated(ts)
  BY <1>1, <1>4, CommitForms, SameFormulas DEF Commits, CommitTariffs
<1> HIDE DEF ts, n
<1>9. VisibleTariff' = [s \in TariffIds |-> IF s \in Alone!RateUsers(c)
             THEN Alone!Recalculated(VisibleTariff[s], VisibleTariff[s].price, q.rate, n)
             ELSE VisibleTariff[s]]
  BY <1>4, <1>5, <1>7, SameFormulas
<1>10. VisibleLogged' = [s \in TariffIds |-> IF s \in Alone!RateUsers(c)
             THEN Alone!Terms(VisibleTariff'[s]) ELSE VisibleLogged[s]]
  <2>1. \A s \in TariffIds : s \in ts => VisibleTariff'[s] = wTariff[w][s]
    BY <1>7
  <2> QED
    BY <1>5, <1>7, <2>1, SameFormulas
<1>11. Alone!UpsertRate(c, q.rate)
  BY <1>1, <1>3, <1>5, <1>8, <1>9, <1>10 DEF Alone!UpsertRate, n
<1> QED
  BY <1>2, <1>11 DEF Alone!Next

\* The keys of the tariffs that an import has put out of force name these and
\* no others.
LEMMA ClosedKeys ==
  ASSUME SessionsInv, AloneInv, Separate, NEW w \in Users, Commits(w), asked[w].op = "import"
  PROVE  LET ks == {tariff[t].key : t \in ClosedBy(w)} IN
            /\ ks \in SUBSET Keys /\ Alone!CurrentOfKeys(ks) = ClosedBy(w)
            /\ \A t \in ClosedBy(w) : t \in TariffIds /\ VisibleTariff[t] = tariff[t]
<1> DEFINE ks == {tariff[t].key : t \in ClosedBy(w)}
<1>1. /\ TariffTypeOK /\ ImportAlone(w) /\ ~SwitchesOff(w) /\ UnfinishedOf(w) = {}
  <2>1. stmt[w] # "idle"
    BY Committing
  <2> QED
    BY <2>1, ActiveWorker, SwitchingOffReady DEF AloneInv, AsAlone, SwitchesOff, UnfinishedOf
<1>2. \A t \in ClosedBy(w) :
         /\ t \in TariffIds /\ tariff[t] \in Book!Tariffs /\ tariff[t] # Nil /\ tariff[t].is_current
         /\ VisibleTariff[t] = tariff[t]
  <2>1. \A t \in Held(w) : VisibleTariff[t] = tariff[t]
    BY <1>1, CommitShows
  <2> QED
    BY <1>1, <2>1, RowsTyped DEF ClosedBy, Held, ImportAlone, ClosingsReady
<1>3. ks \in SUBSET Keys
  BY <1>2 DEF Book!Tariffs
<1>4. ASSUME NEW t \in ClosedBy(w) PROVE Alone!CurrentOf(tariff[t].key) = {t}
  <2>1. \A s \in Alone!CurrentOf(tariff[t].key) :
          s \in TariffIds /\ tariff[s] # Nil /\ tariff[s].key = tariff[t].key /\ tariff[s].is_current
    BY DEF Alone!CurrentOf, Alone!TariffsOf, VisibleTariff
  <2>2. \A s \in Alone!CurrentOf(tariff[t].key) : s = t
    BY <1>2, <2>1 DEF SessionsInv, CurrentUnique, Book!CurrentUnique
  <2>3. t \in Alone!CurrentOf(tariff[t].key)
    BY <1>2 DEF Alone!CurrentOf, Alone!TariffsOf
  <2> QED
    BY <2>2, <2>3
<1>5. Alone!CurrentOfKeys(ks) = ClosedBy(w)
  BY <1>4 DEF Alone!CurrentOfKeys
<1> QED
  BY <1>2, <1>3, <1>5

\* An import commits the tariffs it has put out of force, and with them the
\* one that it has inserted; or nothing.
LEMMA CommitImportMapped ==
  ASSUME SessionsInv, AloneInv, Separate, NEW w \in Users, Commits(w), asked[w].op = "import"
  PROVE  [Alone!Next]_(Alone!vars)
<1> DEFINE q == asked[w]
           ts == ClosedBy(w)
           ks == {tariff[t].key : t \in ts}
<1>1. /\ TariffTypeOK /\ ImportAlone(w) /\ q \in Requests /\ RowsKeep(w) /\ RowsFew(w)
      /\ forms[w] = Nil /\ ~SwitchesOff(w) /\ rates' = rates /\ stmt[w] # "idle"
  <2>1. stmt[w] # "idle" /\ rates' = rates
    BY Committing DEF CommitTariffs
  <2> QED
    BY <2>1, ActiveWorker DEF AloneInv, AsAlone, FormTrue, StepFits, SwitchesOff
<1>2. /\ q.key \in Keys /\ q.currency \in Currencies /\ q.price \in Prices /\ q.rate \in RateValues
      /\ UnfinishedOf(w) = {} /\ q.key \in Concerned(w).keys
  BY <1>1, RequestFields, SwitchingOffReady, ConcernedOf DEF UnfinishedOf
<1>3. /\ ks \in SUBSET Keys /\ Alone!CurrentOfKeys(ks) = ts
      /\ \A t \in ts : t \in TariffIds /\ VisibleTariff[t] = tariff[t]
  BY ClosedKeys
<1>4. /\ VisibleTariff' = [t \in TariffIds |-> IF t \in Held(w) THEN wTariff[w][t]
                                                                ELSE VisibleTariff[t]]
      /\ VisibleLogged' = [t \in TariffIds |-> IF HasHistory(w, t) THEN Book!Terms(wTariff[w][t])
                                                                   ELSE VisibleLogged[t]]
      /\ forms' = Book!Outdated(Held(w))
  BY <1>1, CommitShows, CommitForms
<1>5. \A t \in TariffIds : HasHistory(w, t) <=> t \in Held(w) \ ts
  BY DEF HasHistory, ClosedBy
<1>6. /\ ts \subseteq Held(w) /\ Held(w) \subseteq TariffIds
      /\ \A t \in ts : wTariff[w][t] = [VisibleTariff[t] EXCEPT !.is_current = FALSE]
  BY <1>1, <1>3 DEF ImportAlone, ClosingsReady, Off, ClosedBy, Held
<1>7. \A t \in TariffIds : Alone!PutOut(ts)[t] = IF t \in ts THEN wTariff[w][t] ELSE VisibleTariff[t]
  BY <1>6 DEF Alone!PutOut
<1> HIDE DEF ts, ks
<1>8. CASE Held(w) = ts
  <2>1. VisibleTariff' = Alone!PutOut(ts)
    BY <1>4, <1>7, <1>8 DEF Alone!PutOut
  <2>2. VisibleLogged' = VisibleLogged
    BY <1>4, <1>5, <1>8 DEF VisibleLogged
  <2>3. CASE ts = {}
    <3>1. VisibleTariff' = VisibleTariff
      BY <1>4, <1>8, <2>3 DEF VisibleTariff
    <3>2. forms' = forms
      BY <1>1, <1>8, <2>3, CommitForms
    <3> QED
      BY <1>1, <2>2, <3>1, <3>2 DEF Alone!vars
  <2>4. CASE ts # {}
    <3>1. Alone!ImportExisting(ks)
      BY <1>1, <1>3, <1>4, <1>8, <2>1, <2>2, <2>4, SameFormulas DEF Alone!ImportExisting
    <3> QED
      BY <1>3, <3>1 DEF Alone!Next
  <2> QED
    BY <2>3, <2>4
<1>9. CASE Held(w) # ts
  <2>1. PICK t \in Held(w) : tariff[t] = Nil /\ wTariff[w][t] = NewRow(w)
    <3>1. stmt[w] = "commit"
      BY <1>1, <1>6, <1>9 DEF RowsKeep, ts, ClosedBy
    <3> QED
      BY <1>1, <1>9, <3>1 DEF ImportAlone, RowReady, ts
  <2>2. Held(w) = ts \cup {t} /\ t \in TariffIds /\ t \notin ts
    BY <1>1, <1>6, <2>1 DEF RowsFew, ts, ClosedBy
  <2>3. VisibleTariff[t] = Nil
    BY <2>1, <2>2 DEF VisibleTariff
  <2>4. VisibleTariff' = [Alone!PutOut(ts) EXCEPT ![t] = NewRow(w)]
    BY <1>4, <1>7, <2>1, <2>2 DEF Alone!PutOut
  <2>5. VisibleLogged' = [VisibleLogged EXCEPT ![t] = Book!Terms(NewRow(w))]
    BY <1>4, <1>5, <2>1, <2>2 DEF VisibleLogged
  <2>6. forms' = Book!Outdated(ts)
    <3>1. \A u \in Users : forms[u] # Nil => forms[u].tariff # t
      BY <2>1, FormsVisible
    <3> QED
      BY <1>4, <2>2, <3>1 DEF Book!Outdated
  <2>7. NewRow(w) = Alone!Row(q.key, q.currency, q.price, q.rate, Nil, TRUE)
    BY SameFormulas DEF NewRow
  <2>8. Alone!FindByIdentity(q.key) = {} /\ Alone!CurrentOf(q.key) = {}
    <3>1. Book!TariffsOf(q.key) = {}
      BY <1>1, <1>6, <1>9, <2>1 DEF ImportAlone, RowReady, RowsKeep, ts, ClosedBy
    <3>2. Alone!TariffsOf(q.key) = {}
      BY <1>1, <1>2, <3>1, VisibleTables
    <3> QED
      BY <3>2 DEF Alone!FindByIdentity, Alone!CurrentOf
  <2>9. Alone!ImportNew(ks, q.key, q.currency, q.price, q.rate)
    BY <1>1, <1>3, <2>2, <2>3, <2>4, <2>5, <2>6, <2>7, <2>8, SameFormulas DEF Alone!ImportNew
  <2> QED
    BY <1>2, <1>3, <2>9 DEF Alone!Next
<1> QED
  BY <1>8, <1>9

LEMMA AloneNext ==
  ASSUME SessionsInv, AloneInv, Separate, Separate', [TariffNext]_tariffVars
  PROVE  [Alone!Next]_(Alone!vars)
<1>1. ASSUME NEW w \in Users, BeginRequest(w)
      PROVE  [Alone!Next]_(Alone!vars)
  BY <1>1, BeginMapped
<1>2. ASSUME NEW w \in Users, TariffStep(w) \/ BreakOff(w), RollBack(w), ~Commits(w)
      PROVE  [Alone!Next]_(Alone!vars)
  <2>1. stmt[w] # "idle"
    BY <1>2 DEF BreakOff, TariffStep, ReadRate, FindDuplicate, InsertTariff, OffRead, OffWrite,
       EditRead, EditWrite, EditIndex, SelectTariffs, Recalculate, ImportExists, ImportClose,
       RefuseRow, Commits
  <2> QED
    BY <1>2, <2>1, RollBackMapped
<1>3. ASSUME NEW w \in Users, TariffStep(w), ~RollBack(w), ~Commits(w)
      PROVE  [Alone!Next]_(Alone!vars)
  BY <1>3, StatementAlone
<1>4. ASSUME NEW w \in Users, Commits(w)
      PROVE  [Alone!Next]_(Alone!vars)
  <2>1. /\ asked[w].op \in {"create", "edit", "upsert", "import"}
        /\ CommitTariffs(w) \/ asked[w].op = "import"
    BY <1>4, Committing, ActiveWorker
  <2> QED
    BY <1>4, <2>1, CommitUnshown, CommitCreateMapped, CommitEditMapped, CommitUpsertMapped,
       CommitImportMapped
<1>5. CASE UNCHANGED tariffVars
  BY <1>5 DEF tariffVars, tables, Alone!vars, VisibleTariff, VisibleLogged, Unfinished, SwitchingOff
<1> QED
  BY <1>1, <1>2, <1>3, <1>4, <1>5 DEF TariffNext, BreakOff

LEMMA AloneStart ==
  ASSUME TariffInit
  PROVE  Alone!Init
<1>1. Unfinished = {}
  BY DEF TariffInit, Unfinished, SwitchingOff
<1> QED
  BY <1>1 DEF TariffInit, Book!Init, Alone!Init, VisibleTariff, VisibleLogged

\* Separate requests, however many there are and however their statements
\* interleave, do what the requests of TariffBook do, each of them in one step:
\* whatever it shows of its requests is true of them.
THEOREM SeparateRunAsAlone == TariffSpec /\ []Separate => Alone!Spec
<1>1. SessionsInv /\ AloneInv /\ Separate /\ Separate' /\ [TariffNext]_tariffVars
        => AloneInv' /\ [Alone!Next]_(Alone!vars)
  BY AloneStep, AloneNext
<1>2. TariffInit => AloneInv /\ Alone!Init
  BY AloneInit, AloneStart
<1> QED
  BY <1>1, <1>2, SessionsInvariant, PTL DEF TariffSpec, Alone!Spec

--------------------------------------------------------------------------------
(* What is true of requests that run alone is true of separate ones.       *)

LEMMA SeparateInvariant == TariffSpec /\ []Separate => [](SessionsInv /\ AloneInv)
<1>1. SessionsInv /\ AloneInv /\ Separate /\ [TariffNext]_tariffVars => AloneInv'
  BY AloneStep
<1> QED
  BY <1>1, AloneInit, SessionsInvariant, PTL DEF TariffSpec

\* The assumptions of TariffBook.
LEMMA BookAssumptions == Alone!NumbersAssumption /\ Alone!AbsentAssumption
BY MoneyAssumption, NilAssumption DEF Alone!NumbersAssumption, Alone!AbsentAssumption,
   Alone!Rates, Book!Rates, Alone!Tariffs, Book!Tariffs, Alone!TermRows, Book!TermRows,
   Alone!OpenForms, Book!OpenForms, Alone!Displays, Book!Displays

\* Unfinished tariffs are as they were inserted.
LEMMA UnfinishedRows ==
  ASSUME SessionsInv, AloneInv, NEW t \in Unfinished
  PROVE  \E w \in Users :
            /\ asked[w] \in Requests /\ asked[w].op = "create" /\ RateLatest(w)
            /\ tariff[t] = NewRow(w) /\ Book!TariffsOf(asked[w].key) = {t}
<1>1. PICK w \in Users : t \in UnfinishedOf(w)
  BY UnfinishedUnion
<1>2. SwitchingOff(w) /\ t = Head(queue[w]).tariff
  BY <1>1 DEF UnfinishedOf
<1> QED
  BY <1>2, SwitchingOffReady DEF OffReady

\* Separate requests keep every tariff in force that was priced by the rate
\* table at the latest rate of its currency; overlapping ones need not.
THEOREM SeparateUseLatestRate == TariffSpec /\ []Separate => []CurrentUsesLatest
<1>1. SessionsInv /\ AloneInv /\ Alone!CurrentUsesLatest => CurrentUsesLatest
  <2> SUFFICES ASSUME SessionsInv, AloneInv, Alone!CurrentUsesLatest,
                      NEW t \in TariffIds, tariff[t] # Nil, tariff[t].is_current, tariff[t].rate_id # Nil
               PROVE  LET n == Book!LatestRate(tariff[t].currency) IN
                         tariff[t].rate_id = n /\ tariff[t].rate = rates[n].rate_to_eur
    BY DEF CurrentUsesLatest, Book!CurrentUsesLatest
  <2>1. CASE t \notin Unfinished
    <3>1. VisibleTariff[t] = tariff[t]
      BY <2>1 DEF VisibleTariff
    <3>2. Alone!LatestRate(tariff[t].currency) = Book!LatestRate(tariff[t].currency)
      BY DEF Alone!LatestRate, Book!LatestRate, Alone!RatesOf, Book!RatesOf
    <3> QED
      BY <3>1, <3>2 DEF Alone!CurrentUsesLatest
  <2>2. CASE t \in Unfinished
    <3>1. PICK w \in Users : asked[w].op = "create" /\ RateLatest(w) /\ tariff[t] = NewRow(w)
      BY <2>2, UnfinishedRows
    <3> QED
      BY <3>1 DEF RateLatest, NewRow, Book!Row
  <2> QED
    BY <2>1, <2>2
<1>2. Alone!Spec => []Alone!CurrentUsesLatest
  BY BookAssumptions, Alone!LatestRateUsed
<1> QED
  BY <1>1, <1>2, SeparateInvariant, SeparateRunAsAlone, PTL

\* Separate requests never give a key a second tariff, in force or not.
THEOREM SeparateKeysUnique == TariffSpec /\ []Separate => []Book!KeyUnique
<1>1. SessionsInv /\ AloneInv /\ Alone!KeyUnique => Book!KeyUnique
  <2> SUFFICES ASSUME SessionsInv, AloneInv, Alone!KeyUnique,
                      NEW s \in TariffIds, NEW t \in TariffIds,
                      tariff[s] # Nil, tariff[t] # Nil, tariff[s].key = tariff[t].key
               PROVE  s = t
    BY DEF Book!KeyUnique
  <2>1. CASE s \notin Unfinished /\ t \notin Unfinished
    <3>1. VisibleTariff[s] = tariff[s] /\ VisibleTariff[t] = tariff[t]
      BY <2>1 DEF VisibleTariff
    <3> QED
      BY <3>1 DEF Alone!KeyUnique
  <2>2. ASSUME NEW x \in Unfinished, NEW y \in TariffIds, tariff[y] # Nil, tariff[x].key = tariff[y].key
        PROVE  y = x
    <3>1. PICK w \in Users : /\ asked[w].op = "create" /\ tariff[x] = NewRow(w)
                             /\ Book!TariffsOf(asked[w].key) = {x}
      BY UnfinishedRows
    <3>2. tariff[y].key = asked[w].key
      BY <2>2, <3>1 DEF NewRow, Book!Row
    <3> QED
      BY <2>2, <3>1, <3>2 DEF Book!TariffsOf
  <2> QED
    BY <2>1, <2>2
<1>2. Alone!Spec => []Alone!KeyUnique
  BY BookAssumptions, Alone!OneTariffPerKey
<1> QED
  BY <1>1, <1>2, SeparateInvariant, SeparateRunAsAlone, PTL

\* With prices in whole units, separate requests keep the EUR price of every
\* tariff at its price times its rate; overlapping ones need not.
THEOREM SeparatePricesExact ==
  ASSUME Alone!WholePrices
  PROVE  TariffSpec /\ []Separate => []EurPriceExact
<1>1. SessionsInv /\ AloneInv /\ Alone!EurPriceExact => EurPriceExact
  <2> SUFFICES ASSUME SessionsInv, AloneInv, Alone!EurPriceExact, NEW t \in TariffIds, tariff[t] # Nil
               PROVE  tariff[t].eur_price = tariff[t].price * tariff[t].rate
    BY DEF EurPriceExact, Book!EurPriceExact
  <2>1. CASE t \notin Unfinished
    <3>1. VisibleTariff[t] = tariff[t]
      BY <2>1 DEF VisibleTariff
    <3> QED
      BY <3>1 DEF Alone!EurPriceExact
  <2>2. CASE t \in Unfinished
    <3>1. PICK w \in Users : /\ asked[w] \in Requests /\ asked[w].op = "create" /\ RateLatest(w)
                             /\ tariff[t] = NewRow(w)
      BY <2>2, UnfinishedRows
    <3> DEFINE q == asked[w]
               n == Book!LatestRate(q.currency)
    <3>2. q.price \in Prices /\ rates[n].rate_to_eur \in RateValues
      <4>1. q.price \in Prices /\ q.currency \in Currencies
        BY <3>1, RequestFields
      <4>2. n \in RateIds /\ rates[n] # Nil
        BY <3>1, <4>1, LatestRateIsRate DEF SessionsInv, RateLatest
      <4> QED
        BY <4>1, <4>2, RowsTyped DEF SessionsInv, WorkersInv
    <3>3. tariff[t] = Alone!Row(q.key, q.currency, q.price, rates[n].rate_to_eur, n, TRUE)
      BY <3>1, SameFormulas DEF NewRow, RateLatest
    <3> DEFINE row(on) == Alone!Row(q.key, q.currency, q.price, rates[n].rate_to_eur, n, on)
    <3>4. \A on : row(on).eur_price = row(on).price * row(on).rate
      <4>1. \A k, c, m, on : \A p \in Prices, r \in RateValues :
               Alone!Row(k, c, p, r, m, on).eur_price
                 = Alone!Row(k, c, p, r, m, on).price * Alone!Row(k, c, p, r, m, on).rate
        BY BookAssumptions, Alone!RowExact
      <4> QED
        BY <3>2, <4>1
    <3> QED
      BY <3>3, <3>4, Zenon
  <2> QED
    BY <2>1, <2>2
<1>2. Alone!Spec => []Alone!EurPriceExact
  BY BookAssumptions, Alone!EurPricesExact
<1> QED
  BY <1>1, <1>2, SeparateInvariant, SeparateRunAsAlone, PTL
================================================================================
