---------------------------- MODULE TariffBookProofs ----------------------------
(***************************************************************************)
(* Proofs about TariffBook: one tariff per key, its latest rate, the       *)
(* history that follows it and the edits that are not lost, for any sets   *)
(* of users, tariffs, currencies, rates and prices.                        *)
(***************************************************************************)
EXTENDS TariffBook, TLAPS

\* Every currency that has a rate has a latest one.
LatestExists ==
    \A c \in Currencies : RatesOf(c) # {} =>
        \E n \in RatesOf(c) : \A m \in RatesOf(c) : m <= n

\* A tariff priced by a rate of the table names a rate of its own currency.
RateKnown ==
    \A t \in TariffIds : tariff[t] # Absent /\ tariff[t].rate_id # Absent =>
        tariff[t].rate_id \in RatesOf(tariff[t].currency)

\* A form is about a tariff that exists, and while its updated_at is that of
\* the row it shows the row.
FormsTrue ==
    \A u \in Users : forms[u] # Absent =>
        /\ tariff[forms[u].tariff] # Absent
        /\ forms[u].fresh => forms[u].shown = Display(tariff[forms[u].tariff])

BookInv ==
    /\ TypeOK
    /\ LatestExists
    /\ RateKnown
    /\ CurrentUsesLatest
    /\ KeyUnique
    /\ HistoryFollows
    /\ FormsTrue

--------------------------------------------------------------------------------
\* Rounding to a whole number of stored units.
LEMMA ColumnType == ASSUME NEW x \in Nat PROVE Column(x) \in Nat
  BY DEF Column, Fine

\* A column of whole units is exact for whole units.
LEMMA ColumnExact == ASSUME NEW x \in Nat PROVE Column(x * Fine) = x
  BY DEF Column, Fine

\* An EUR price is a natural number of column units.
LEMMA EurPriceType ==
  ASSUME NEW p \in Nat, NEW r \in Nat PROVE EurPrice(p, r) \in Nat
<1>1. p * r \in Nat
  OBVIOUS
<1> QED
  BY <1>1, ColumnType DEF EurPrice

\* The latest rate of a currency that has rates is one of them.
LEMMA LatestRateIsRate ==
  ASSUME BookInv, NEW c \in Currencies, RatesOf(c) # {}
  PROVE  /\ LatestRate(c) \in RatesOf(c)
         /\ LatestRate(c) \in RateIds
         /\ rates[LatestRate(c)].rate_to_eur \in RateValues
<1>1. \E n \in RatesOf(c) : \A m \in RatesOf(c) : m <= n
  BY DEF BookInv, LatestExists
<1>2. LatestRate(c) \in RatesOf(c)
  BY <1>1 DEF LatestRate
<1>3. LatestRate(c) \in RateIds /\ rates[LatestRate(c)] \in Rates
  BY <1>2 DEF RatesOf, BookInv, TypeOK
<1> QED
  BY <1>2, <1>3 DEF Rates

\* A row built from a submitted price and a rate of the table is well typed.
LEMMA RowType ==
  ASSUME NEW k \in Keys, NEW c \in Currencies, NEW p \in Prices, NEW r \in RateValues,
         NEW n \in RateIds \cup {Absent}, NEW on \in BOOLEAN
  PROVE  Row(k, c, p, r, n, on) \in Tariffs
<1>1. p \in Nat /\ r \in Nat
  BY NumbersAssumption
<1>2. Column(p) \in Nat /\ EurPrice(p, r) \in Nat
  BY <1>1, ColumnType, EurPriceType
<1> QED
  BY <1>2 DEF Row, Tariffs

\* A stored row is never the absent one.
LEMMA NotAbsent ==
  /\ \A row \in Tariffs : row # Absent
  /\ \A row \in TermRows : row # Absent
  /\ \A row \in Rates : row # Absent
  /\ \A f \in OpenForms : f # Absent
  /\ \A n \in RateIds : n # Absent
  BY AbsentAssumption

\* The terms of a row are terms.
LEMMA TermsType == ASSUME NEW row \in Tariffs PROVE Terms(row) \in TermRows
  BY DEF Terms, TermRows, Tariffs

\* What a form shows of a row is well typed.
LEMMA DisplayType == ASSUME NEW row \in Tariffs PROVE Display(row) \in Displays
  BY DEF Display, Displays, Tariffs

\* Outdating forms keeps their type, their tariff and what they show.
LEMMA OutdatedForms ==
  ASSUME TypeOK, NEW ts
  PROVE  /\ Outdated(ts) \in [Users -> OpenForms \cup {Absent}]
         /\ \A u \in Users : (Outdated(ts)[u] = Absent) <=> (forms[u] = Absent)
         /\ \A u \in Users : forms[u] # Absent =>
              /\ Outdated(ts)[u].tariff = forms[u].tariff
              /\ Outdated(ts)[u].shown = forms[u].shown
              /\ Outdated(ts)[u].fresh => forms[u].fresh /\ forms[u].tariff \notin ts
<1> SUFFICES ASSUME NEW u \in Users
             PROVE  /\ Outdated(ts)[u] \in OpenForms \cup {Absent}
                    /\ (Outdated(ts)[u] = Absent) <=> (forms[u] = Absent)
                    /\ forms[u] # Absent =>
                        /\ Outdated(ts)[u].tariff = forms[u].tariff
                        /\ Outdated(ts)[u].shown = forms[u].shown
                        /\ Outdated(ts)[u].fresh => forms[u].fresh /\ forms[u].tariff \notin ts
  BY DEF Outdated
<1>1. CASE forms[u] = Absent
  BY <1>1 DEF Outdated
<1>2. CASE forms[u] # Absent
  <2>1. forms[u] \in OpenForms
    BY <1>2 DEF TypeOK
  <2> QED
    BY <1>2, <2>1, NotAbsent DEF Outdated, OpenForms
<1> QED
  BY <1>1, <1>2

--------------------------------------------------------------------------------
\* A request that changes one tariff and no rate: what is left to show is a
\* matter of the row it writes.
LEMMA WriteRow ==
  ASSUME BookInv,
         NEW t \in TariffIds, NEW row \in Tariffs,
         tariff' = [tariff EXCEPT ![t] = row],
         logged' = [logged EXCEPT ![t] = Terms(row)],
         rates' = rates,
         forms' \in [Users -> OpenForms \cup {Absent}],
         \A u \in Users : forms'[u] # Absent =>
             /\ forms[u] # Absent
             /\ forms'[u].tariff = forms[u].tariff
             /\ forms'[u].shown = forms[u].shown
             /\ forms'[u].fresh => forms[u].fresh /\ forms[u].tariff # t,
         \A s \in TariffsOf(row.key) : s = t,
         row.rate_id # Absent =>
             /\ row.rate_id \in RatesOf(row.currency)
             /\ row.rate_id = LatestRate(row.currency)
             /\ row.rate = rates[row.rate_id].rate_to_eur
  PROVE  BookInv'
<1>1. TypeOK'
  BY TermsType DEF BookInv, TypeOK
<1>2. /\ tariff'[t] = row
      /\ logged'[t] = Terms(row)
      /\ \A s \in TariffIds \ {t} : tariff'[s] = tariff[s] /\ logged'[s] = logged[s]
  BY DEF BookInv, TypeOK
<1>3. \A c : RatesOf(c)' = RatesOf(c) /\ LatestRate(c)' = LatestRate(c)
  BY DEF RatesOf, LatestRate
<1>4. LatestExists'
  BY <1>3 DEF BookInv, LatestExists
<1>5. RateKnown'
  BY <1>2, <1>3 DEF BookInv, RateKnown
<1>6. CurrentUsesLatest'
  <2> SUFFICES ASSUME NEW s \in TariffIds, tariff'[s] # Absent,
                      tariff'[s].is_current, tariff'[s].rate_id # Absent
               PROVE  /\ tariff'[s].rate_id = LatestRate(tariff'[s].currency)
                      /\ tariff'[s].rate = rates[LatestRate(tariff'[s].currency)].rate_to_eur
    BY <1>3 DEF CurrentUsesLatest
  <2>1. CASE s = t
    BY <2>1, <1>2
  <2>2. CASE s # t
    BY <2>2, <1>2 DEF BookInv, CurrentUsesLatest
  <2> QED
    BY <2>1, <2>2
<1>7. KeyUnique'
  BY <1>2 DEF BookInv, KeyUnique, TariffsOf
<1>8. HistoryFollows'
  BY <1>2 DEF BookInv, HistoryFollows
<1>9. FormsTrue'
  BY <1>2, NotAbsent DEF BookInv, FormsTrue
<1> QED
  BY <1>1, <1>4, <1>5, <1>6, <1>7, <1>8, <1>9 DEF BookInv

\* Inserting a tariff priced by the latest rate keeps the invariant.
LEMMA InsertSafe ==
  ASSUME BookInv, NEW row \in Tariffs, Insert(row), TariffsOf(row.key) = {},
         UNCHANGED <<rates, forms>>,
         row.rate_id # Absent =>
             /\ row.rate_id \in RatesOf(row.currency)
             /\ row.rate_id = LatestRate(row.currency)
             /\ row.rate = rates[row.rate_id].rate_to_eur
  PROVE  BookInv'
<1>1. PICK t \in TariffIds :
        /\ tariff[t] = Absent
        /\ tariff' = [tariff EXCEPT ![t] = row]
        /\ logged' = [logged EXCEPT ![t] = Terms(row)]
  BY DEF Insert
<1>2. \A u \in Users : forms[u] # Absent => forms[u].tariff # t
  BY <1>1 DEF BookInv, FormsTrue
<1>3. forms' \in [Users -> OpenForms \cup {Absent}]
  BY DEF BookInv, TypeOK
<1> QED
  BY <1>1, <1>2, <1>3, WriteRow

\* create_tariff keeps the invariant.
LEMMA CreateSafe ==
  ASSUME BookInv, NEW k \in Keys, NEW c \in Currencies, NEW p \in Prices, NEW on \in BOOLEAN,
         CreateTariff(k, c, p, on)
  PROVE  BookInv'
<1> DEFINE n == LatestRate(c)
           row == Row(k, c, p, rates[n].rate_to_eur, n, on)
<1>1. /\ n \in RatesOf(c) /\ n \in RateIds
      /\ rates[n].rate_to_eur \in RateValues
  BY LatestRateIsRate DEF CreateTariff
<1>2. row \in Tariffs
  BY <1>1, RowType
<1>3. /\ row.key = k /\ row.currency = c /\ row.rate_id = n
      /\ row.rate = rates[n].rate_to_eur
  BY DEF Row
<1>4. /\ Insert(row)
      /\ TariffsOf(k) = {}
      /\ UNCHANGED <<rates, forms>>
  BY DEF CreateTariff, FindByIdentity
<1> HIDE DEF row
<1> QED
  BY <1>1, <1>2, <1>3, <1>4, InsertSafe

\* An accepted edit keeps the invariant.
LEMMA EditSafe ==
  ASSUME BookInv, NEW u \in Users, NEW c \in Currencies, NEW p \in Prices,
         NEW on \in BOOLEAN, NEW commented \in BOOLEAN,
         EditTariff(u, c, p, on, commented)
  PROVE  BookInv'
<1> DEFINE n == LatestRate(c)
           t == forms[u].tariff
           row == Row(tariff[t].key, c, p, rates[n].rate_to_eur, n, on)
<1>1. /\ n \in RatesOf(c) /\ n \in RateIds
      /\ rates[n].rate_to_eur \in RateValues
  BY LatestRateIsRate DEF EditTariff
<1>2. t \in TariffIds /\ tariff[t] # Absent
  BY DEF EditTariff, BookInv, FormsTrue, TypeOK, OpenForms
<1>3. tariff[t] \in Tariffs
  BY <1>2 DEF BookInv, TypeOK
<1>4. tariff[t].key \in Keys
  BY <1>3 DEF Tariffs
<1>5. row \in Tariffs
  BY <1>1, <1>4, RowType
<1>6. /\ row.key = tariff[t].key /\ row.currency = c /\ row.rate_id = n
      /\ row.rate = rates[n].rate_to_eur
  BY DEF Row
<1>7. \A s \in TariffsOf(tariff[t].key) : s = t
  BY <1>2 DEF TariffsOf, BookInv, KeyUnique
<1>8. /\ tariff' = [tariff EXCEPT ![t] = row]
      /\ logged' = [logged EXCEPT ![t] = Terms(row)]
      /\ rates' = rates
      /\ forms' = [Outdated({t}) EXCEPT ![u] = Absent]
  BY DEF EditTariff, Rewrite
<1>9. TypeOK
  BY DEF BookInv
<1>10. /\ forms' \in [Users -> OpenForms \cup {Absent}]
       /\ \A v \in Users : forms'[v] # Absent => forms'[v] = Outdated({t})[v]
  <2> DEFINE out == Outdated({t})
  <2>1. out \in [Users -> OpenForms \cup {Absent}]
    BY <1>9, OutdatedForms
  <2>2. forms' = [out EXCEPT ![u] = Absent]
    BY <1>8
  <2> HIDE DEF out
  <2>3. /\ forms' \in [Users -> OpenForms \cup {Absent}]
        /\ \A v \in Users : forms'[v] # Absent => forms'[v] = out[v]
    BY <2>1, <2>2
  <2> QED
    BY <2>3 DEF out
<1>11. \A v \in Users : forms'[v] # Absent =>
             /\ forms[v] # Absent
             /\ forms'[v].tariff = forms[v].tariff
             /\ forms'[v].shown = forms[v].shown
             /\ forms'[v].fresh => forms[v].fresh /\ forms[v].tariff # t
  BY <1>9, <1>10, OutdatedForms
<1> HIDE DEF row, t, n
<1>12. \A s \in TariffsOf(row.key) : s = t
  BY <1>6, <1>7
<1>13. /\ row.rate_id \in RatesOf(row.currency)
       /\ row.rate_id = LatestRate(row.currency)
       /\ row.rate = rates[row.rate_id].rate_to_eur
  BY <1>1, <1>6 DEF n
<1>14. PICK tid \in TariffIds : tid = t
  BY <1>2
<1> QED
  BY <1>2, <1>5, <1>8, <1>10, <1>11, <1>12, <1>13, <1>14, WriteRow

\* A new rate: the tariffs in force of its currency get it, all others keep
\* the latest rate of theirs.
LEMMA UpsertSafe ==
  ASSUME BookInv, NEW c \in Currencies, NEW r \in RateValues, UpsertRate(c, r)
  PROVE  BookInv'
<1> DEFINE Of(d) == {m \in RateIds : rates'[m] # Absent /\ rates'[m].currency = d}
           Latest(d) == CHOOSE k \in Of(d) : \A m \in Of(d) : m <= k
<1>1. PICK n \in RateIds :
        /\ rates[n] = Absent /\ \A m \in RatesOf(c) : m < n
        /\ rates' = [rates EXCEPT ![n] = [currency |-> c, rate_to_eur |-> r]]
        /\ tariff' = [t \in TariffIds |-> IF t \in RateUsers(c)
                         THEN Recalculated(tariff[t], tariff[t].price, r, n) ELSE tariff[t]]
        /\ logged' = [t \in TariffIds |-> IF t \in RateUsers(c)
                         THEN Terms(tariff'[t]) ELSE logged[t]]
        /\ forms' = Outdated(RateUsers(c))
  BY DEF UpsertRate
<1>2. TypeOK
  BY DEF BookInv
<1>3. n # Absent /\ RateIds \subseteq Nat
  BY NotAbsent, NumbersAssumption
<1>4. /\ [currency |-> c, rate_to_eur |-> r] \in Rates
      /\ [currency |-> c, rate_to_eur |-> r] # Absent
  BY NotAbsent DEF Rates
<1>5. /\ rates' \in [RateIds -> Rates \cup {Absent}]
      /\ rates'[n] = [currency |-> c, rate_to_eur |-> r]
      /\ \A m \in RateIds \ {n} : rates'[m] = rates[m]
  BY <1>1, <1>2, <1>4 DEF TypeOK
<1>6. \A m \in Of(c) : m <= n
  BY <1>1, <1>3, <1>5 DEF RatesOf
<1>7. n \in Of(c)
  BY <1>4, <1>5
<1>8. Latest(c) = n
  <2>1. \A m \in Of(c) : m \in Nat
    BY <1>3
  <2>2. \A m \in Of(c) : (\A k \in Of(c) : k <= m) => m = n
    BY <1>3, <1>6, <1>7, <2>1
  <2> QED
    BY <1>6, <1>7, <2>2
<1>9. \A d \in Currencies \ {c} : Of(d) = RatesOf(d)
  <2>1. rates[n] = Absent
    BY <1>1, <1>3
  <2> QED
    BY <1>5, <2>1, <1>4 DEF RatesOf
<1>10. \A d \in Currencies \ {c} : Latest(d) = LatestRate(d)
  BY <1>9 DEF LatestRate
<1> HIDE DEF Latest
<1>11. \A t \in RateUsers(c) :
         /\ tariff[t] \in Tariffs
         /\ tariff'[t] = Recalculated(tariff[t], tariff[t].price, r, n)
         /\ logged'[t] = Terms(tariff'[t])
         /\ tariff[t].currency = c
  BY <1>1, <1>2 DEF RateUsers, TypeOK
<1>12. \A t \in TariffIds \ RateUsers(c) : tariff'[t] = tariff[t] /\ logged'[t] = logged[t]
  BY <1>1
<1>13. \A t \in RateUsers(c) :
         /\ tariff'[t] \in Tariffs
         /\ tariff'[t].key = tariff[t].key
         /\ tariff'[t].currency = c
         /\ tariff'[t].rate = r
         /\ tariff'[t].rate_id = n
  <2> SUFFICES ASSUME NEW t \in RateUsers(c)
               PROVE  /\ tariff'[t] \in Tariffs
                      /\ tariff'[t].key = tariff[t].key
                      /\ tariff'[t].currency = c
                      /\ tariff'[t].rate = r
                      /\ tariff'[t].rate_id = n
    OBVIOUS
  <2>1. tariff[t].price \in Nat /\ r \in Nat
    BY <1>11, NumbersAssumption DEF Tariffs
  <2>2. tariff[t].price * Fine \in Nat
    BY <2>1 DEF Fine
  <2>3. EurPrice(tariff[t].price * Fine, r) \in Nat
    BY <2>1, <2>2, EurPriceType
  <2> DEFINE row == tariff[t]
             eur == EurPrice(row.price * Fine, r)
  <2>4. row \in Tariffs /\ row.currency = c /\ eur \in Nat
    BY <1>11, <2>3
  <2>5. tariff'[t] = [row EXCEPT !.rate = r, !.rate_id = n, !.eur_price = eur]
    BY <1>11 DEF Recalculated
  <2> HIDE DEF row, eur
  <2>6. /\ tariff'[t] \in Tariffs /\ tariff'[t].key = row.key /\ tariff'[t].currency = c
        /\ tariff'[t].rate = r /\ tariff'[t].rate_id = n
    BY <2>4, <2>5 DEF Tariffs
  <2> QED
    BY <2>6 DEF row
<1>14. TypeOK'
  <2>1. \A t \in TariffIds : tariff'[t] \in Tariffs \cup {Absent}
    BY <1>2, <1>12, <1>13 DEF TypeOK
  <2>2. \A t \in TariffIds : logged'[t] \in TermRows \cup {Absent}
    BY <1>2, <1>11, <1>12, <1>13, TermsType DEF TypeOK
  <2>3. tariff' = [t \in TariffIds |-> tariff'[t]] /\ logged' = [t \in TariffIds |-> logged'[t]]
    BY <1>1
  <2>4. forms' \in [Users -> OpenForms \cup {Absent}]
    BY <1>1, <1>2, OutdatedForms
  <2> QED
    BY <1>5, <2>1, <2>2, <2>3, <2>4 DEF TypeOK
<1>15. LatestExists'
  <2> SUFFICES ASSUME NEW d \in Currencies, Of(d) # {}
               PROVE  \E k \in Of(d) : \A m \in Of(d) : m <= k
    BY DEF LatestExists, RatesOf
  <2>1. CASE d = c
    BY <2>1, <1>6, <1>7
  <2>2. CASE d # c
    BY <2>2, <1>9 DEF BookInv, LatestExists
  <2> QED
    BY <2>1, <2>2
<1>16. RateKnown' /\ CurrentUsesLatest'
  <2> SUFFICES ASSUME NEW t \in TariffIds, tariff'[t] # Absent, tariff'[t].rate_id # Absent
               PROVE  /\ tariff'[t].rate_id \in Of(tariff'[t].currency)
                      /\ tariff'[t].is_current =>
                           /\ tariff'[t].rate_id = Latest(tariff'[t].currency)
                           /\ tariff'[t].rate = rates'[tariff'[t].rate_id].rate_to_eur
    BY DEF RateKnown, CurrentUsesLatest, RatesOf, LatestRate, Latest
  <2>1. CASE t \in RateUsers(c)
    BY <2>1, <1>5, <1>7, <1>8, <1>13
  <2>2. CASE t \notin RateUsers(c)
    <3> DEFINE d == tariff[t].currency
    <3>1. tariff'[t] = tariff[t]
      BY <2>2, <1>12
    <3>2. tariff[t] \in Tariffs
      BY <3>1, <1>2 DEF TypeOK
    <3>3. d \in Currencies /\ tariff[t].is_current \in BOOLEAN
      BY <3>2 DEF Tariffs
    <3>4. tariff[t].rate_id \in RatesOf(d)
      BY <3>1 DEF BookInv, RateKnown
    <3>5. rates[tariff[t].rate_id] # Absent /\ tariff[t].rate_id \in RateIds
      BY <3>4 DEF RatesOf
    <3>6. tariff[t].rate_id # n
      BY <3>5, <1>1, <1>3
    <3>7. rates'[tariff[t].rate_id] = rates[tariff[t].rate_id]
      BY <3>5, <3>6, <1>5
    <3>8. tariff[t].rate_id \in Of(d)
      BY <3>4, <3>5, <3>7 DEF RatesOf
    <3>9. tariff[t].is_current => d # c
      BY <2>2, <3>1 DEF RateUsers
    <3>10. tariff[t].is_current =>
             /\ tariff[t].rate_id = LatestRate(d)
             /\ tariff[t].rate = rates[tariff[t].rate_id].rate_to_eur
      BY <3>1 DEF BookInv, CurrentUsesLatest
    <3> QED
      BY <3>1, <3>3, <3>7, <3>8, <3>9, <3>10, <1>10
  <2> QED
    BY <2>1, <2>2
<1>17. \A t \in TariffIds : tariff'[t] # Absent =>
         tariff[t] # Absent /\ tariff'[t].key = tariff[t].key
  BY <1>12, <1>13 DEF RateUsers
<1>18. KeyUnique'
  BY <1>17 DEF BookInv, KeyUnique
<1>19. HistoryFollows'
  BY <1>11, <1>12 DEF BookInv, HistoryFollows
<1>20. FormsTrue'
  <2> SUFFICES ASSUME NEW u \in Users, forms'[u] # Absent
               PROVE  /\ tariff'[forms'[u].tariff] # Absent
                      /\ forms'[u].fresh => forms'[u].shown = Display(tariff'[forms'[u].tariff])
    BY DEF FormsTrue
  <2>1. /\ forms[u] # Absent
        /\ forms'[u].tariff = forms[u].tariff
        /\ forms'[u].shown = forms[u].shown
        /\ forms'[u].fresh => forms[u].fresh /\ forms[u].tariff \notin RateUsers(c)
    BY <1>1, <1>2, OutdatedForms
  <2>2. forms[u].tariff \in TariffIds
    BY <2>1, <1>2 DEF TypeOK, OpenForms
  <2>3. tariff'[forms[u].tariff] # Absent
    BY <2>1, <2>2, <1>12, <1>13, NotAbsent DEF BookInv, FormsTrue
  <2> QED
    BY <2>1, <2>2, <2>3, <1>12 DEF BookInv, FormsTrue
<1> QED
  BY <1>14, <1>15, <1>16, <1>18, <1>19, <1>20 DEF BookInv

\* So does an import: it puts tariffs out of force and inserts one at most, of
\* a key that has none.
LEMMA ImportSafe ==
  ASSUME BookInv, NEW ts \in SUBSET TariffIds, NEW news \in SUBSET TariffIds,
         \A t \in ts : tariff[t] # Absent,
         \A t \in news :
            /\ tariff[t] = Absent /\ tariff'[t] \in Tariffs
            /\ tariff'[t].rate_id = Absent /\ TariffsOf(tariff'[t].key) = {}
            /\ logged'[t] = Terms(tariff'[t]),
         \A s, t \in news : s = t,
         \A t \in TariffIds \ news : tariff'[t] = PutOut(ts)[t] /\ logged'[t] = logged[t],
         tariff' = [t \in TariffIds |-> tariff'[t]], logged' = [t \in TariffIds |-> logged'[t]],
         forms' = Outdated(ts), rates' = rates
  PROVE  BookInv'
<1> DEFINE Of(d) == {m \in RateIds : rates'[m] # Absent /\ rates'[m].currency = d}
           Latest(d) == CHOOSE m \in Of(d) : \A j \in Of(d) : j <= m
<1>1. TypeOK
  BY DEF BookInv
<1>2. \A t \in TariffIds \ news : t \notin ts => tariff'[t] = tariff[t]
  BY DEF PutOut
<1>3. \A t \in ts :
        /\ t \in TariffIds \ news
        /\ tariff[t] \in Tariffs
        /\ tariff'[t] = [tariff[t] EXCEPT !.is_current = FALSE]
  BY <1>1 DEF PutOut, TypeOK
<1>4. \A t \in ts :
        /\ tariff'[t] \in Tariffs
        /\ tariff'[t].key = tariff[t].key
        /\ tariff'[t].currency = tariff[t].currency
        /\ tariff'[t].rate_id = tariff[t].rate_id
        /\ tariff'[t].rate = tariff[t].rate
        /\ tariff'[t].is_current = FALSE
        /\ Terms(tariff'[t]) = Terms(tariff[t])
  <2> TAKE t \in ts
  <2> DEFINE row == tariff[t]
             off == tariff'[t]
  <2>1. row \in Tariffs /\ off = [row EXCEPT !.is_current = FALSE]
    BY <1>3
  <2> HIDE DEF row, off
  <2>2. /\ off \in Tariffs /\ off.key = row.key /\ off.currency = row.currency
        /\ off.rate_id = row.rate_id /\ off.rate = row.rate /\ off.is_current = FALSE
        /\ off.price = row.price /\ off.eur_price = row.eur_price
    BY <2>1 DEF Tariffs
  <2>3. Terms(off) = Terms(row)
    BY <2>2 DEF Terms
  <2> QED
    BY <2>2, <2>3 DEF row, off
<1>5. \A t \in TariffIds : tariff'[t] # Absent /\ t \notin news =>
         tariff[t] # Absent /\ tariff'[t].key = tariff[t].key
  BY <1>2, <1>3, <1>4, NotAbsent
<1>6. \A c : Of(c) = RatesOf(c) /\ Latest(c) = LatestRate(c)
  BY DEF RatesOf, LatestRate
<1>7. TypeOK'
  <2>1. \A t \in TariffIds : tariff'[t] \in Tariffs \cup {Absent}
    BY <1>1, <1>2, <1>4 DEF TypeOK
  <2>2. \A t \in TariffIds : logged'[t] \in TermRows \cup {Absent}
    BY <1>1, TermsType DEF TypeOK
  <2>3. forms' \in [Users -> OpenForms \cup {Absent}]
    BY <1>1, OutdatedForms
  <2> QED
    BY <1>1, <2>1, <2>2, <2>3 DEF TypeOK
<1>8. LatestExists'
  BY DEF BookInv, LatestExists, RatesOf
<1> HIDE DEF Latest
<1>9. RateKnown' /\ CurrentUsesLatest'
  <2> SUFFICES ASSUME NEW t \in TariffIds, tariff'[t] # Absent, tariff'[t].rate_id # Absent
               PROVE  /\ tariff'[t].rate_id \in Of(tariff'[t].currency)
                      /\ tariff'[t].is_current =>
                           /\ tariff'[t].rate_id = Latest(tariff'[t].currency)
                           /\ tariff'[t].rate = rates'[tariff'[t].rate_id].rate_to_eur
    BY DEF RateKnown, CurrentUsesLatest, RatesOf, LatestRate, Latest
  <2> HIDE DEF Of
  <2>1. CASE t \in ts
    BY <2>1, <1>3, <1>4, <1>6, NotAbsent DEF BookInv, RateKnown
  <2>2. CASE t \notin ts
    BY <2>2, <1>2, <1>6 DEF BookInv, RateKnown, CurrentUsesLatest
  <2> QED
    BY <2>1, <2>2
<1>10. KeyUnique'
  <2> SUFFICES ASSUME NEW s \in TariffIds, NEW t \in TariffIds, tariff'[s] # Absent,
                      tariff'[t] # Absent, tariff'[s].key = tariff'[t].key
               PROVE  s = t
    BY DEF KeyUnique
  <2>1. ASSUME NEW x \in news, NEW y \in TariffIds \ news, tariff'[y] # Absent
        PROVE  tariff'[x].key # tariff'[y].key
    BY <1>5, <2>1 DEF TariffsOf
  <2> QED
    BY <1>5, <2>1 DEF BookInv, KeyUnique
<1>11. HistoryFollows'
  <2> SUFFICES ASSUME NEW t \in TariffIds, t \notin news, tariff'[t] # Absent
               PROVE  logged[t] = Terms(tariff'[t])
    BY DEF HistoryFollows, Terms
  <2>1. logged[t] = Terms(tariff[t])
    BY <1>5 DEF BookInv, HistoryFollows
  <2>2. tariff'[t] = tariff[t] \/ t \in ts
    BY <1>2
  <2> QED
    BY <2>1, <2>2, <1>4
<1>12. FormsTrue'
  <2> SUFFICES ASSUME NEW u \in Users, forms'[u] # Absent
               PROVE  /\ tariff'[forms'[u].tariff] # Absent
                      /\ forms'[u].fresh => forms'[u].shown = Display(tariff'[forms'[u].tariff])
    BY DEF FormsTrue, Display
  <2>1. /\ forms[u] # Absent
        /\ forms'[u].tariff = forms[u].tariff
        /\ forms'[u].shown = forms[u].shown
        /\ forms'[u].fresh => forms[u].fresh /\ forms[u].tariff \notin ts
    BY <1>1, OutdatedForms
  <2>2. /\ forms[u].tariff \in TariffIds \ news /\ tariff[forms[u].tariff] # Absent
        /\ forms[u].fresh => forms[u].shown = Display(tariff[forms[u].tariff])
    BY <2>1, <1>1 DEF TypeOK, OpenForms, BookInv, FormsTrue
  <2>3. tariff'[forms[u].tariff] # Absent
    BY <2>2, <1>2, <1>4, NotAbsent
  <2> QED
    BY <2>1, <2>2, <2>3, <1>2
<1> QED
  BY <1>7, <1>8, <1>9, <1>10, <1>11, <1>12 DEF BookInv

\* The tariffs that the rows of a file put out of force exist.
LEMMA CurrentExist ==
  ASSUME NEW ks
  PROVE  CurrentOfKeys(ks) \in SUBSET TariffIds /\ \A t \in CurrentOfKeys(ks) : tariff[t] # Absent
BY DEF CurrentOfKeys, CurrentOf, TariffsOf

LEMMA ImportExistingSafe ==
  ASSUME BookInv, NEW ks, ImportExisting(ks)
  PROVE  BookInv'
<1> DEFINE ts == CurrentOfKeys(ks)
<1>1. /\ tariff' = PutOut(ts) /\ forms' = Outdated(ts) /\ rates' = rates /\ logged' = logged
  BY DEF ImportExisting
<1>2. /\ tariff' = [t \in TariffIds |-> tariff'[t]]
      /\ logged' = [t \in TariffIds |-> logged'[t]]
  BY <1>1 DEF PutOut, BookInv, TypeOK
<1> HIDE DEF ts
<1>3. ts \in SUBSET TariffIds /\ \A t \in ts : tariff[t] # Absent
  BY CurrentExist DEF ts
<1> DEFINE news == {t \in TariffIds : FALSE}
<1>4. /\ news \in SUBSET TariffIds /\ \A t \in TariffIds : t \notin news
      /\ \A t \in TariffIds \ news : tariff'[t] = PutOut(ts)[t] /\ logged'[t] = logged[t]
  BY <1>1
<1> HIDE DEF news
<1> QED
  BY <1>1, <1>2, <1>3, <1>4, ImportSafe

LEMMA ImportNewSafe ==
  ASSUME BookInv, NEW ks, NEW k \in Keys, NEW c \in Currencies, NEW p \in Prices,
         NEW r \in RateValues, ImportNew(ks, k, c, p, r)
  PROVE  BookInv'
<1> DEFINE ts == CurrentOfKeys(ks)
           row == Row(k, c, p, r, Absent, TRUE)
<1>1. row \in Tariffs /\ row.key = k /\ row.rate_id = Absent
  <2>1. row \in Tariffs
    BY RowType
  <2> QED
    BY <2>1 DEF Row
<1>2. PICK n \in TariffIds :
        /\ tariff[n] = Absent
        /\ tariff' = [PutOut(ts) EXCEPT ![n] = row]
        /\ logged' = [logged EXCEPT ![n] = Terms(row)]
  BY DEF ImportNew
<1>3. TariffsOf(k) = {} /\ forms' = Outdated(ts) /\ rates' = rates
  BY DEF ImportNew, FindByIdentity
<1> HIDE DEF ts, row
<1>4. ts \in SUBSET TariffIds /\ \A t \in ts : tariff[t] # Absent
  BY CurrentExist DEF ts
<1>5. /\ tariff' = [t \in TariffIds |-> tariff'[t]] /\ tariff'[n] = row
      /\ \A t \in TariffIds \ {n} : tariff'[t] = PutOut(ts)[t]
  BY <1>2 DEF PutOut
<1>6. /\ logged' = [t \in TariffIds |-> logged'[t]] /\ logged'[n] = Terms(row)
      /\ \A t \in TariffIds \ {n} : logged'[t] = logged[t]
  BY <1>2 DEF BookInv, TypeOK
<1> DEFINE news == {n}
<1>7. /\ news \in SUBSET TariffIds /\ \A s, t \in news : s = t
      /\ \A t \in news :
            /\ tariff[t] = Absent /\ tariff'[t] \in Tariffs
            /\ tariff'[t].rate_id = Absent /\ TariffsOf(tariff'[t].key) = {}
            /\ logged'[t] = Terms(tariff'[t])
      /\ \A t \in TariffIds \ news : tariff'[t] = PutOut(ts)[t] /\ logged'[t] = logged[t]
  BY <1>1, <1>2, <1>3, <1>5, <1>6
<1> HIDE DEF news
<1> QED
  BY <1>3, <1>4, <1>5, <1>6, <1>7, ImportSafe

\* A request that touches only forms keeps the invariant, if the forms stay true.
LEMMA FormsSafe ==
  ASSUME BookInv, UNCHANGED <<tariff, rates, logged>>,
         forms' \in [Users -> OpenForms \cup {Absent}],
         FormsTrue'
  PROVE  BookInv'
<1> DEFINE Of(d) == {m \in RateIds : rates'[m] # Absent /\ rates'[m].currency = d}
           Latest(d) == CHOOSE m \in Of(d) : \A j \in Of(d) : j <= m
<1>1. /\ TypeOK' /\ KeyUnique' /\ HistoryFollows'
  BY DEF BookInv, TypeOK, KeyUnique, HistoryFollows
<1>2. \A c : Of(c) = RatesOf(c) /\ Latest(c) = LatestRate(c)
  BY DEF RatesOf, LatestRate
<1>3. LatestExists' /\ RateKnown'
  BY <1>2 DEF BookInv, LatestExists, RateKnown, RatesOf
<1> HIDE DEF Latest
<1>4. CurrentUsesLatest'
  <2> SUFFICES ASSUME NEW t \in TariffIds, tariff'[t] # Absent, tariff'[t].rate_id # Absent,
                      tariff'[t].is_current
               PROVE  /\ tariff'[t].rate_id = Latest(tariff'[t].currency)
                      /\ tariff'[t].rate = rates'[tariff'[t].rate_id].rate_to_eur
    BY DEF CurrentUsesLatest, RatesOf, LatestRate, Latest
  <2> QED
    BY <1>2 DEF BookInv, CurrentUsesLatest
<1> QED
  BY <1>1, <1>3, <1>4 DEF BookInv

\* Opening a form keeps the invariant.
LEMMA OpenSafe ==
  ASSUME BookInv, NEW u \in Users, NEW t \in TariffIds, OpenForm(u, t)
  PROVE  BookInv'
<1> DEFINE f == [tariff |-> t, shown |-> Display(tariff[t]), fresh |-> TRUE]
<1>1. /\ tariff[t] \in Tariffs /\ tariff[t] # Absent
      /\ forms \in [Users -> OpenForms \cup {Absent}]
      /\ forms' = [forms EXCEPT ![u] = f]
      /\ UNCHANGED <<tariff, rates, logged>>
  BY DEF BookInv, TypeOK, OpenForm
<1>2. f \in OpenForms
  BY <1>1, DisplayType DEF OpenForms
<1>3. forms' \in [Users -> OpenForms \cup {Absent}]
  BY <1>1, <1>2
<1>4. FormsTrue'
  <2> SUFFICES ASSUME NEW v \in Users, forms'[v] # Absent
               PROVE  /\ tariff[forms'[v].tariff] # Absent
                      /\ forms'[v].fresh => forms'[v].shown = Display(tariff[forms'[v].tariff])
    BY <1>1 DEF FormsTrue, Display
  <2>1. CASE v = u
    BY <2>1, <1>1
  <2>2. CASE v # u
    BY <2>2, <1>1 DEF BookInv, FormsTrue
  <2> QED
    BY <2>1, <2>2
<1> QED
  BY <1>1, <1>3, <1>4, FormsSafe

\* Closing a form keeps the invariant.
LEMMA CloseSafe ==
  ASSUME BookInv, NEW u \in Users, CloseForm(u)
  PROVE  BookInv'
<1>1. /\ forms' = [forms EXCEPT ![u] = Absent]
      /\ UNCHANGED <<tariff, rates, logged>>
      /\ forms \in [Users -> OpenForms \cup {Absent}]
  BY DEF CloseForm, BookInv, TypeOK
<1>2. forms' \in [Users -> OpenForms \cup {Absent}]
  BY <1>1
<1>3. FormsTrue'
  BY <1>1 DEF BookInv, FormsTrue, Display
<1> QED
  BY <1>1, <1>2, <1>3, FormsSafe

--------------------------------------------------------------------------------
\* No rates, no tariffs, no forms: everything holds.
LEMMA BookInit == Init => BookInv
<1> SUFFICES ASSUME Init PROVE BookInv
  OBVIOUS
<1>1. TypeOK
  BY DEF Init, TypeOK
<1>2. \A c : RatesOf(c) = {}
  BY DEF Init, RatesOf
<1> QED
  BY <1>1, <1>2 DEF Init, BookInv, LatestExists, RateKnown, CurrentUsesLatest, KeyUnique,
                    HistoryFollows, FormsTrue

\* Every request keeps the invariant.
LEMMA BookStep == BookInv /\ [Next]_vars => BookInv'
<1> SUFFICES ASSUME BookInv, [Next]_vars PROVE BookInv'
  OBVIOUS
<1>1. CASE UNCHANGED vars
  <2>1. /\ UNCHANGED <<tariff, rates, logged>>
        /\ forms' \in [Users -> OpenForms \cup {Absent}]
        /\ FormsTrue'
    BY <1>1 DEF vars, BookInv, TypeOK, FormsTrue, Display
  <2> QED
    BY <2>1, FormsSafe
<1>2. ASSUME NEW u \in Users, NEW t \in TariffIds, OpenForm(u, t) PROVE BookInv'
  BY <1>2, OpenSafe
<1>3. ASSUME NEW u \in Users, CloseForm(u) PROVE BookInv'
  BY <1>3, CloseSafe
<1>4. ASSUME NEW k \in Keys, NEW c \in Currencies, NEW p \in Prices, NEW on \in BOOLEAN,
             CreateTariff(k, c, p, on)
      PROVE  BookInv'
  BY <1>4, CreateSafe
<1>5. ASSUME NEW u \in Users, NEW c \in Currencies, NEW p \in Prices,
             NEW on \in BOOLEAN, NEW commented \in BOOLEAN,
             EditTariff(u, c, p, on, commented)
      PROVE  BookInv'
  BY <1>5, EditSafe
<1>6. ASSUME NEW c \in Currencies, NEW r \in RateValues, UpsertRate(c, r) PROVE BookInv'
  BY <1>6, UpsertSafe
<1>7. ASSUME NEW ks, NEW k \in Keys, NEW c \in Currencies, NEW p \in Prices,
             NEW r \in RateValues, ImportNew(ks, k, c, p, r)
      PROVE  BookInv'
  BY <1>7, ImportNewSafe
<1>8. ASSUME NEW ks, ImportExisting(ks) PROVE BookInv'
  BY <1>8, ImportExistingSafe
<1> QED
  BY <1>1, <1>2, <1>3, <1>4, <1>5, <1>6, <1>7, <1>8 DEF Next

\* The inductive invariant holds in every reachable state.
LEMMA BookInvariant == Spec => []BookInv
  BY BookInit, BookStep, PTL DEF Spec

\* Rows, rates, history and open forms keep their types under create, edit,
\* import and recalculation.
THEOREM BookTypeCorrect == Spec => []TypeOK
<1>1. BookInv => TypeOK
  BY DEF BookInv
<1> QED
  BY <1>1, BookInvariant, PTL

\* Run one at a time, requests keep every tariff in force that was priced by
\* a rate at the latest rate of its currency.
THEOREM LatestRateUsed == Spec => []CurrentUsesLatest
<1>1. BookInv => CurrentUsesLatest
  BY DEF BookInv
<1> QED
  BY <1>1, BookInvariant, PTL

\* Run one at a time, requests never give a key a second tariff, in force or
\* not, whatever mix of forms and imports creates them.
THEOREM OneTariffPerKey == Spec => []KeyUnique
<1>1. BookInv => KeyUnique
  BY DEF BookInv
<1> QED
  BY <1>1, BookInvariant, PTL

\* Every path that changes the terms of a tariff records them in its history.
THEOREM HistoryRecordsTerms == Spec => []HistoryFollows
<1>1. BookInv => HistoryFollows
  BY DEF BookInv
<1> QED
  BY <1>1, BookInvariant, PTL

\* The updated_at of a form protects what was saved after it was opened, for
\* any number of users: a form that may still be saved shows the row.
THEOREM EditsAreNotLost == Spec => EditsNotLost
<1> DEFINE Safe ==
      \A u \in Users, t \in TariffIds :
          forms[u] # Absent /\ forms[u].tariff = t /\ tariff[t] # Absent
            /\ forms'[u] = Absent /\ tariff'[t] # tariff[t]
              => forms[u].shown = Display(tariff[t])
<1>1. BookInv /\ [Next]_vars => [Safe]_vars
  <2> SUFFICES ASSUME BookInv, Next PROVE Safe
    OBVIOUS
  <2> SUFFICES ASSUME NEW u \in Users, forms[u] # Absent, forms'[u] = Absent,
                      tariff'[forms[u].tariff] # tariff[forms[u].tariff]
               PROVE  forms[u].shown = Display(tariff[forms[u].tariff])
    OBVIOUS
  <2>1. forms[u].tariff \in TariffIds /\ TypeOK
    BY DEF BookInv, TypeOK, OpenForms
  <2>2. ASSUME NEW v \in Users, NEW t \in TariffIds, OpenForm(v, t) PROVE FALSE
    BY <2>2 DEF OpenForm
  <2>3. ASSUME NEW v \in Users, CloseForm(v) PROVE FALSE
    BY <2>3 DEF CloseForm
  <2>4. ASSUME NEW k \in Keys, NEW c \in Currencies, NEW p \in Prices, NEW on \in BOOLEAN,
               CreateTariff(k, c, p, on)
        PROVE  FALSE
    BY <2>4 DEF CreateTariff
  <2>5. ASSUME NEW v \in Users, NEW c \in Currencies, NEW p \in Prices,
               NEW on \in BOOLEAN, NEW commented \in BOOLEAN,
               EditTariff(v, c, p, on, commented)
        PROVE  forms[u].shown = Display(tariff[forms[u].tariff])
    <3>1. /\ forms[v].fresh
          /\ forms' = [Outdated({forms[v].tariff}) EXCEPT ![v] = Absent]
      BY <2>5 DEF EditTariff, Rewrite
    <3>2. u = v
      <4> SUFFICES ASSUME u # v PROVE FALSE
        OBVIOUS
      <4>1. forms'[u] = Outdated({forms[v].tariff})[u]
        BY <3>1, <2>1, OutdatedForms
      <4> QED
        BY <4>1, <2>1, OutdatedForms
    <3> QED
      BY <3>1, <3>2 DEF BookInv, FormsTrue
  <2>6. ASSUME NEW c \in Currencies, NEW r \in RateValues, UpsertRate(c, r) PROVE FALSE
    BY <2>6, <2>1, OutdatedForms DEF UpsertRate
  <2>7. ASSUME NEW ks, NEW k \in Keys, NEW c \in Currencies, NEW p \in Prices,
               NEW r \in RateValues, ImportNew(ks, k, c, p, r)
        PROVE  FALSE
    BY <2>7, <2>1, OutdatedForms DEF ImportNew
  <2>8. ASSUME NEW ks, ImportExisting(ks) PROVE FALSE
    BY <2>8, <2>1, OutdatedForms DEF ImportExisting
  <2> QED
    BY <2>2, <2>3, <2>4, <2>5, <2>6, <2>7, <2>8 DEF Next
<1> QED
  BY <1>1, BookInvariant, PTL DEF Spec, EditsNotLost

(***************************************************************************)
(* Exact EUR prices.  A price that has more decimals than its column is    *)
(* multiplied before it is rounded, so prices are whole units here.        *)
(***************************************************************************)
WholePrices == \A p \in Prices : Column(p) * Fine = p

\* A price in whole column units is converted without rounding.
LEMMA EurPriceWhole ==
  ASSUME NEW x \in Nat, NEW r \in Nat PROVE EurPrice(x * Fine, r) = x * r
<1>1. x * Fine * r = (x * r) * Fine /\ x * r \in Nat
  BY DEF Fine
<1> QED
  BY <1>1, ColumnExact DEF EurPrice

\* A row written with whole numbers has an exact EUR price.
LEMMA RowExact ==
  ASSUME WholePrices, NEW k, NEW c, NEW p \in Prices, NEW r \in RateValues, NEW n, NEW on
  PROVE  Row(k, c, p, r, n, on).eur_price
           = Row(k, c, p, r, n, on).price * Row(k, c, p, r, n, on).rate
<1>1. p \in Nat /\ r \in Nat /\ Column(p) \in Nat /\ Column(p) * Fine = p
  BY NumbersAssumption, ColumnType DEF WholePrices
<1>2. EurPrice(p, r) = Column(p) * r
  BY <1>1, EurPriceWhole
<1> QED
  BY <1>2 DEF Row

\* The EUR price of every tariff is its price times its rate, whichever of
\* create_tariff, update_tariff, _apply_tariff and the recalculation wrote it.
THEOREM EurPricesExact == ASSUME WholePrices PROVE Spec => []EurPriceExact
<1>1. Init => EurPriceExact
  BY DEF Init, EurPriceExact
<1>2. BookInv /\ EurPriceExact /\ [Next]_vars => EurPriceExact'
  <2> SUFFICES ASSUME BookInv, EurPriceExact, Next,
                      NEW t \in TariffIds, tariff'[t] # Absent
               PROVE  tariff'[t].eur_price = tariff'[t].price * tariff'[t].rate
    BY DEF EurPriceExact, vars
  <2> DEFINE Exact(row) == row.eur_price = row.price * row.rate
  <2>1. tariff[t] # Absent => Exact(tariff[t])
    BY DEF EurPriceExact
  <2>2. TypeOK
    BY DEF BookInv
  <2>3. ASSUME NEW row, Exact(row), Insert(row) PROVE Exact(tariff'[t])
    BY <2>1, <2>2, <2>3 DEF Insert, TypeOK
  <2>4. ASSUME NEW u \in Users, NEW s \in TariffIds, OpenForm(u, s) PROVE Exact(tariff'[t])
    BY <2>1, <2>4 DEF OpenForm
  <2>5. ASSUME NEW u \in Users, CloseForm(u) PROVE Exact(tariff'[t])
    BY <2>1, <2>5 DEF CloseForm
  <2>6. ASSUME NEW k \in Keys, NEW c \in Currencies, NEW p \in Prices, NEW on \in BOOLEAN,
               CreateTariff(k, c, p, on)
        PROVE  Exact(tariff'[t])
    <3>1. rates[LatestRate(c)].rate_to_eur \in RateValues
      BY <2>2, <2>6, LatestRateIsRate DEF CreateTariff, RatesOf, TypeOK, Rates
    <3> QED
      BY <2>3, <2>6, <3>1, RowExact DEF CreateTariff
  <2>7. ASSUME NEW u \in Users, NEW c \in Currencies, NEW p \in Prices,
               NEW on \in BOOLEAN, NEW commented \in BOOLEAN,
               EditTariff(u, c, p, on, commented)
        PROVE  Exact(tariff'[t])
    <3> DEFINE s == forms[u].tariff
               row == Row(tariff[s].key, c, p, rates[LatestRate(c)].rate_to_eur,
                          LatestRate(c), on)
    <3>1. rates[LatestRate(c)].rate_to_eur \in RateValues
      BY <2>2, <2>7, LatestRateIsRate DEF EditTariff, RatesOf, TypeOK, Rates
    <3>2. Exact(row)
      BY <3>1, RowExact
    <3>3. tariff' = [tariff EXCEPT ![s] = row]
      BY <2>7 DEF EditTariff, Rewrite
    <3> HIDE DEF row
    <3> QED
      BY <2>1, <2>2, <3>2, <3>3 DEF TypeOK
  <2>8. ASSUME NEW c \in Currencies, NEW r \in RateValues, UpsertRate(c, r)
        PROVE  Exact(tariff'[t])
    <3>1. PICK n \in RateIds :
            tariff' = [s \in TariffIds |-> IF s \in RateUsers(c)
                         THEN Recalculated(tariff[s], tariff[s].price, r, n) ELSE tariff[s]]
      BY <2>8 DEF UpsertRate
    <3>2. CASE t \in RateUsers(c)
      <4>1. tariff[t] \in Tariffs /\ tariff[t].price \in Nat /\ r \in Nat
        BY <2>2, <3>2, NumbersAssumption DEF RateUsers, TypeOK, Tariffs
      <4>2. EurPrice(tariff[t].price * Fine, r) = tariff[t].price * r
        BY <4>1, EurPriceWhole
      <4> QED
        BY <3>1, <3>2, <4>1, <4>2 DEF Recalculated, Tariffs
    <3>3. CASE t \notin RateUsers(c)
      BY <2>1, <3>1, <3>3
    <3> QED
      BY <3>2, <3>3
  <2>9. ASSUME NEW ks PROVE tariff[t] # Absent => Exact(PutOut(CurrentOfKeys(ks))[t])
    <3> SUFFICES ASSUME tariff[t] # Absent PROVE Exact(PutOut(CurrentOfKeys(ks))[t])
      OBVIOUS
    <3>1. tariff[t] \in Tariffs
      BY <2>2 DEF TypeOK
    <3> QED
      BY <2>1, <3>1 DEF PutOut, Tariffs
  <2>10. ASSUME NEW ks, NEW k \in Keys, NEW c \in Currencies, NEW p \in Prices,
                NEW r \in RateValues, ImportNew(ks, k, c, p, r)
        PROVE  Exact(tariff'[t])
    <3> DEFINE row == Row(k, c, p, r, Absent, TRUE)
    <3>1. Exact(row)
      <4>1. ASSUME NEW on PROVE Exact(Row(k, c, p, r, Absent, on))
        BY RowExact
      <4> QED
        BY <4>1
    <3>2. PICK n \in TariffIds : tariff' = [PutOut(CurrentOfKeys(ks)) EXCEPT ![n] = row]
      BY <2>10 DEF ImportNew
    <3> HIDE DEF row
    <3>3. tariff'[t] = row \/ tariff'[t] = PutOut(CurrentOfKeys(ks))[t]
      BY <3>2 DEF PutOut
    <3>4. tariff[t] = Absent => PutOut(CurrentOfKeys(ks))[t] = Absent
      BY CurrentExist DEF PutOut
    <3> QED
      BY <2>9, <3>1, <3>3, <3>4
  <2>11. ASSUME NEW ks, ImportExisting(ks) PROVE Exact(tariff'[t])
    <3>1. tariff'[t] = PutOut(CurrentOfKeys(ks))[t]
      BY <2>11 DEF ImportExisting
    <3>2. tariff[t] = Absent => PutOut(CurrentOfKeys(ks))[t] = Absent
      BY CurrentExist DEF PutOut
    <3> QED
      BY <2>9, <3>1, <3>2
  <2> QED
    BY <2>4, <2>5, <2>6, <2>7, <2>8, <2>10, <2>11 DEF Next
<1> QED
  BY <1>1, <1>2, BookInvariant, PTL DEF Spec
================================================================================
