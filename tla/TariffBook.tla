------------------------------- MODULE TariffBook -------------------------------
(***************************************************************************)
(* Tariffs, the EUR rates of their currencies and the edit forms that      *)
(* users have open, as requests change them when every request runs alone. *)
(* Money is counted in the last decimal of its column, NUMERIC(18,6); a    *)
(* submitted price may be finer than that.                                 *)
(***************************************************************************)
EXTENDS Naturals

CONSTANTS Users, TariffIds, Currencies, Absent,
          Keys,        \* (country, provider, prefix): the identity of a tariff
          RateIds,     \* created_at of currency_rates rows, also their identity
          Prices,      \* submitted prices, Fine units to one stored unit
          RateValues   \* EUR for one unit of a currency (whole numbers)

ASSUME NumbersAssumption ==
    RateIds \subseteq Nat \ {0} /\ Prices \subseteq Nat \ {0} /\ RateValues \subseteq Nat \ {0}

Fine == 10

\* ROUND_HALF_UP to the six decimals that are stored.
Column(x) == (x + Fine \div 2) \div Fine

EurPrice(price, rate) == Column(price * rate)

Rates == [currency: Currencies, rate_to_eur: RateValues]

Tariffs == [key: Keys, currency: Currencies, price: Nat, rate: RateValues,
            rate_id: RateIds \cup {Absent}, eur_price: Nat, is_current: BOOLEAN]

\* What a row of tariff_change_history records as the new terms.
TermRows == [currency: Currencies, price: Nat, rate: RateValues, eur_price: Nat]

\* What an edit form displays and posts back.
Displays == [currency: Currencies, price: Nat, is_current: BOOLEAN]

\* "fresh": the updated_at the form carries is still that of the row.
OpenForms == [tariff: TariffIds, shown: Displays, fresh: BOOLEAN]

ASSUME AbsentAssumption == Absent \notin RateIds \cup Rates \cup Tariffs \cup TermRows \cup OpenForms

VARIABLES tariff,  \* TariffIds -> row or Absent
          rates,   \* RateIds -> rate or Absent
          logged,  \* per tariff, the terms its latest history row records
          forms    \* the edit form each user has open, or Absent

vars == <<tariff, rates, logged, forms>>

(***************************************************************************)
(* Reading the tables                                                      *)
(***************************************************************************)
RatesOf(c) == {n \in RateIds : rates[n] # Absent /\ rates[n].currency = c}

\* ORDER BY rate_date DESC, created_at DESC, id DESC
LatestRate(c) == CHOOSE n \in RatesOf(c) : \A m \in RatesOf(c) : m <= n

\* Tariffs of one key, whether in force or not.
TariffsOf(k) == {t \in TariffIds : tariff[t] # Absent /\ tariff[t].key = k}
CurrentOf(k) == {t \in TariffsOf(k) : tariff[t].is_current}

\* Fault: only a tariff in force counts as a duplicate.
FindCurrentByIdentity(k) == CurrentOf(k)

FindByIdentity(k) == TariffsOf(k)

Terms(row) == [currency |-> row.currency, price |-> row.price,
               rate |-> row.rate, eur_price |-> row.eur_price]

Display(row) == [currency |-> row.currency, price |-> row.price,
                 is_current |-> row.is_current]

(***************************************************************************)
(* Rows written                                                            *)
(***************************************************************************)
Row(k, c, p, r, n, current) ==
    [key |-> k, currency |-> c, price |-> Column(p), rate |-> r, rate_id |-> n,
     eur_price |-> EurPrice(p, r), is_current |-> current]

\* Fault: the EUR price is not computed again.
RecalculatedRateOnly(row, price, r, n) == [row EXCEPT !.rate = r, !.rate_id = n]

\* "price" is the one the recalculation selected; rate n is r.
Recalculated(row, price, r, n) ==
    [row EXCEPT !.rate = r, !.rate_id = n, !.eur_price = EurPrice(price * Fine, r)]

\* Every write sets updated_at: the forms opened before it are out of date.
Outdated(ts) ==
    [u \in Users |-> IF forms[u] # Absent /\ forms[u].tariff \in ts
                     THEN [forms[u] EXCEPT !.fresh = FALSE] ELSE forms[u]]

Changes(row, p, c, current, commented) ==
    row.price * Fine # p \/ row.currency # c \/ row.is_current # current \/ commented

(***************************************************************************)
(* Requests                                                                *)
(***************************************************************************)
Init ==
    /\ tariff = [t \in TariffIds |-> Absent]
    /\ rates = [n \in RateIds |-> Absent]
    /\ logged = [t \in TariffIds |-> Absent]
    /\ forms = [u \in Users |-> Absent]

\* tariff_edit_form: the page shows the row and hides its updated_at.
OpenForm(u, t) ==
    /\ tariff[t] # Absent
    /\ forms' = [forms EXCEPT ![u] = [tariff |-> t, shown |-> Display(tariff[t]), fresh |-> TRUE]]
    /\ UNCHANGED <<tariff, rates, logged>>

\* The form is left, or saved without a change.
CloseForm(u) ==
    /\ forms[u] # Absent
    /\ forms' = [forms EXCEPT ![u] = Absent]
    /\ UNCHANGED <<tariff, rates, logged>>

Insert(row) ==
    \E t \in TariffIds :
        /\ tariff[t] = Absent
        /\ tariff' = [tariff EXCEPT ![t] = row]
        /\ logged' = [logged EXCEPT ![t] = Terms(row)]

\* /tariffs/create.  A tariff wanted out of force is created in force and
\* switched off by a second transaction, whose history row repeats the terms;
\* if that one is lost, the outcome is that of "current".
CreateTariff(k, c, p, current) ==
    /\ RatesOf(c) # {}
    /\ FindByIdentity(k) = {}
    /\ Insert(Row(k, c, p, rates[LatestRate(c)].rate_to_eur, LatestRate(c), current))
    /\ UNCHANGED <<rates, forms>>

Rewrite(u, t, row) ==
    /\ tariff' = [tariff EXCEPT ![t] = row]
    /\ logged' = [logged EXCEPT ![t] = Terms(row)]
    /\ forms' = [Outdated({t}) EXCEPT ![u] = Absent]
    /\ UNCHANGED rates

\* Fault: the updated_at the form posts back is not compared.
EditTariffBlind(u, c, p, current, commented) ==
    LET t == forms[u].tariff
        n == LatestRate(c)
    IN
    /\ forms[u] # Absent
    /\ RatesOf(c) # {}
    /\ Changes(tariff[t], p, c, current, commented)
    /\ current => CurrentOf(tariff[t].key) \subseteq {t}
    /\ Rewrite(u, t, Row(tariff[t].key, c, p, rates[n].rate_to_eur, n, current))

\* /tariffs/{id}/update; another tariff of the key in force makes the unique
\* index refuse the write.
EditTariff(u, c, p, current, commented) ==
    LET t == forms[u].tariff
        n == LatestRate(c)
    IN
    /\ forms[u] # Absent
    /\ RatesOf(c) # {}
    /\ forms[u].fresh
    /\ Changes(tariff[t], p, c, current, commented)
    /\ current => CurrentOf(tariff[t].key) \subseteq {t}
    /\ Rewrite(u, t, Row(tariff[t].key, c, p, rates[n].rate_to_eur, n, current))

\* Fault: one row of the selection is fetched.
RateUsersOne(c) ==
    LET users == {t \in TariffIds : tariff[t] # Absent /\ tariff[t].currency = c
                                                     /\ tariff[t].is_current}
    IN  IF users = {} THEN {} ELSE {CHOOSE t \in users : TRUE}

\* The tariffs that a new rate of c recalculates.
RateUsers(c) == {t \in TariffIds : tariff[t] # Absent /\ tariff[t].currency = c
                                               /\ tariff[t].is_current}

\* Fault: the recalculation writes no history.
UpsertRateUnlogged(c, r) ==
    \E n \in RateIds :
        /\ rates[n] = Absent /\ \A m \in RatesOf(c) : m < n
        /\ rates' = [rates EXCEPT ![n] = [currency |-> c, rate_to_eur |-> r]]
        /\ tariff' = [t \in TariffIds |-> IF t \in RateUsers(c)
                         THEN Recalculated(tariff[t], tariff[t].price, r, n) ELSE tariff[t]]
        /\ forms' = Outdated(RateUsers(c))
        /\ UNCHANGED logged

\* /admin/currency-rates/upsert: a rate of c newer than its others (rates of
\* different currencies are never compared) and the recalculation of the
\* tariffs in force, in one transaction.
UpsertRate(c, r) ==
    \E n \in RateIds :
        /\ rates[n] = Absent /\ \A m \in RatesOf(c) : m < n
        /\ rates' = [rates EXCEPT ![n] = [currency |-> c, rate_to_eur |-> r]]
        /\ tariff' = [t \in TariffIds |-> IF t \in RateUsers(c)
                         THEN Recalculated(tariff[t], tariff[t].price, r, n) ELSE tariff[t]]
        /\ logged' = [t \in TariffIds |-> IF t \in RateUsers(c)
                         THEN Terms(tariff'[t]) ELSE logged[t]]
        /\ forms' = Outdated(RateUsers(c))

\* The tariffs that the rows of a file put out of force, by their keys.
CurrentOfKeys(ks) == UNION {CurrentOf(k) : k \in ks}
PutOut(ts) == [t \in TariffIds |-> IF t \in ts THEN [tariff[t] EXCEPT !.is_current = FALSE]
                                               ELSE tariff[t]]

\* Fault: a missing rate is stored as zero.
ImportNewUnrated(ks, k, c, p, r) ==
    /\ CurrentOf(k) = {}
    /\ FindByIdentity(k) = {}
    /\ Insert(Row(k, c, p, 0, Absent, TRUE))
    /\ UNCHANGED <<rates, forms>>

\* A CSV row whose key has no tariff yet: the rate comes from the file.  Its
\* commit is also that of the tariffs ks, which refused rows put out of force.
ImportNew(ks, k, c, p, r) ==
    LET row == Row(k, c, p, r, Absent, TRUE) IN
    /\ CurrentOf(k) = {}
    /\ FindByIdentity(k) = {}
    /\ \E t \in TariffIds :
          /\ tariff[t] = Absent
          /\ tariff' = [PutOut(CurrentOfKeys(ks)) EXCEPT ![t] = row]
          /\ logged' = [logged EXCEPT ![t] = Terms(row)]
    /\ forms' = Outdated(CurrentOfKeys(ks))
    /\ UNCHANGED rates

\* CSV rows whose keys have a tariff in force: it is put out of force, then
\* create_tariff refuses the key as a duplicate; the row is reported as
\* skipped and the import goes on to commit.
ImportExisting(ks) ==
    /\ CurrentOfKeys(ks) # {}
    /\ tariff' = PutOut(CurrentOfKeys(ks))
    /\ forms' = Outdated(CurrentOfKeys(ks))
    /\ UNCHANGED <<rates, logged>>

Next ==
    \/ \E u \in Users, t \in TariffIds : OpenForm(u, t)
    \/ \E u \in Users : CloseForm(u)
    \/ \E k \in Keys, c \in Currencies, p \in Prices, on \in BOOLEAN : CreateTariff(k, c, p, on)
    \/ \E u \in Users, c \in Currencies, p \in Prices, on, commented \in BOOLEAN :
          EditTariff(u, c, p, on, commented)
    \/ \E c \in Currencies, r \in RateValues : UpsertRate(c, r)
    \/ \E ks \in SUBSET Keys, k \in Keys, c \in Currencies, p \in Prices, r \in RateValues :
          ImportNew(ks, k, c, p, r)
    \/ \E ks \in SUBSET Keys : ImportExisting(ks)

Spec == Init /\ [][Next]_vars

(***************************************************************************)
(* Properties                                                              *)
(***************************************************************************)
TypeOK ==
    /\ tariff \in [TariffIds -> Tariffs \cup {Absent}]
    /\ rates \in [RateIds -> Rates \cup {Absent}]
    /\ logged \in [TariffIds -> TermRows \cup {Absent}]
    /\ forms \in [Users -> OpenForms \cup {Absent}]

\* The EUR price of a tariff is its price times its rate, whichever of the
\* create, edit, import and recalculation paths wrote each of the three.
EurPriceExact ==
    \A t \in TariffIds : tariff[t] # Absent => tariff[t].eur_price = tariff[t].price * tariff[t].rate

\* A tariff in force that was priced by a rate of the table uses the latest
\* rate of its currency: also after it was out of force while rates changed,
\* or moved to another currency.
CurrentUsesLatest ==
    \A t \in TariffIds : tariff[t] # Absent /\ tariff[t].is_current /\ tariff[t].rate_id # Absent =>
        LET n == LatestRate(tariff[t].currency) IN
            tariff[t].rate_id = n /\ tariff[t].rate = rates[n].rate_to_eur

\* A (country, provider, prefix) has one tariff at most, in force or not:
\* find_tariff_by_identity refuses a second one.
KeyUnique ==
    \A s, t \in TariffIds :
        tariff[s] # Absent /\ tariff[t] # Absent /\ tariff[s].key = tariff[t].key => s = t

\* At most one tariff of a key is in force (ux_tariffs_current_business_key).
CurrentUnique ==
    \A s, t \in TariffIds :
        /\ tariff[s] # Absent /\ tariff[s].is_current
        /\ tariff[t] # Absent /\ tariff[t].is_current
        /\ tariff[s].key = tariff[t].key
        => s = t

\* The latest history row of a tariff records the terms it now has.
HistoryFollows ==
    \A t \in TariffIds : tariff[t] # Absent => logged[t] = Terms(tariff[t])

\* A saved edit replaces the row that its form displayed, never one that
\* another request has changed in between.
EditsNotLost ==
    [][\A u \in Users, t \in TariffIds :
          forms[u] # Absent /\ forms[u].tariff = t /\ tariff[t] # Absent
            /\ forms'[u] = Absent /\ tariff'[t] # tariff[t]
              => forms[u].shown = Display(tariff[t])]_vars

\* A price is positive, as validate_tariff_price demands.
PricePositive == \A t \in TariffIds : tariff[t] # Absent => tariff[t].price > 0

\* An import never leaves a key without a tariff in force that had one: the
\* old one is closed "before creating a replacement tariff".
ImportReplaces ==
    [][\A k \in Keys : CurrentOf(k) # {} /\ ImportExisting({k}) => CurrentOf(k)' # {}]_vars
================================================================================
