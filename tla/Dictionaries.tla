------------------------------ MODULE Dictionaries -----------------------------
(***************************************************************************)
(* Dictionary values and what hangs on them, statement by statement.  A    *)
(* purchased number stores the name its GEO had when the number was saved, *)
(* beside the reference to it; a rename may carry the new name to these    *)
(* copies.  A change reason has a set of scopes that a save replaces.      *)
(*                                                                         *)
(* The dictionaries share the check for duplicates and the order of the    *)
(* statements.  GEOs stand for those whose names are copied, and a         *)
(* behaviour follows one kind; what a transaction writes is kept in the    *)
(* save of its worker until the commit.                                    *)
(***************************************************************************)
EXTENDS Naturals

CONSTANTS DictWorkers,    \* requests that can be in progress together
          LastValue,      \* bound: ids of the values
          Labels,         \* what a value may be called
          Folded,         \* Labels -> what is left when case and spaces are folded
          Scopes,         \* CHANGE_REASON_SCOPES
          Phones          \* purchased numbers, there or not

\* "unborn" stands for the name of a value that is not there.
ASSUME DictAssumption ==
    LastValue \in Nat /\ DOMAIN Folded = Labels /\ "unborn" \notin Labels

VARIABLES kind,          \* the dictionary that is followed
          label,         \* id -> name of the value, or Unborn
          scopes,        \* id -> scopes of the reason
          copied,        \* Phones -> [value, label] of the number, or NoPhone
          save,          \* DictWorkers -> the request in progress
          unguarded,     \* values whose name was not checked against all others
          unfollowed     \* numbers that were left with a name that was replaced

dictVars == <<kind, label, scopes, copied, save, unguarded, unfollowed>>

Values == 1 .. LastValue

Unborn == "unborn"
NoPhone == [value |-> 0, label |-> Unborn]
NoSave == [step |-> "idle"]

SaveAt(w, step) == save[w].step = step

Drop(w) == save' = [save EXCEPT ![w] = NoSave]
GoTo(w, step) == save' = [save EXCEPT ![w].step = step]

\* The row of the value is locked from its UPDATE to the end of the transaction.
WritingSteps == {"dependents", "rows", "commit"}

Writing(w) == save[w].step \in WritingSteps
Storing(w) == SaveAt(w, "stored")

\* Row locks of numbers, by a save of the number or by a linked rename.
PhoneLocked(w, m) ==
    \E v \in DictWorkers \ {w} :
        \/ Storing(v) /\ save[v].phone = m
        \/ Writing(v) /\ m \in save[v].done

DictInit ==
    /\ kind \in {"countries", "reasons"}
    /\ label = [v \in Values |-> Unborn]
    /\ scopes = [v \in Values |-> {}]
    /\ copied = [m \in Phones |-> NoPhone]
    /\ save = [w \in DictWorkers |-> NoSave]
    /\ unguarded = {} /\ unfollowed = {}

(***************************************************************************)
(* POST /admin/dictionaries/countries/..., /admin/change-reasons/...       *)
(***************************************************************************)
NewSave == [step |-> "check", value |-> 0, label |-> Unborn, before |-> Unborn, linked |-> FALSE,
            scopes |-> {}, todo |-> {}, done |-> {}, late |-> FALSE]

ScopeSets == IF kind = "reasons" THEN SUBSET Scopes \ {{}} ELSE {{}}

SubmitCreate(w) ==
    /\ SaveAt(w, "idle")
    /\ \E n \in Labels, s \in ScopeSets :
         save' = [save EXCEPT ![w] = [NewSave EXCEPT !.label = n, !.scopes = s]]
    /\ UNCHANGED <<kind, label, scopes, copied, unguarded, unfollowed>>

\* The older forms of GEOs do not look for duplicates.
SubmitDirect(w) ==
    /\ SaveAt(w, "idle") /\ kind = "countries"
    /\ \E n \in Labels :
         save' = [save EXCEPT ![w] = [NewSave EXCEPT !.step = "write", !.label = n, !.late = TRUE]]
    /\ UNCHANGED <<kind, label, scopes, copied, unguarded, unfollowed>>

SubmitUpdate(w) ==
    /\ SaveAt(w, "idle")
    /\ \E v \in Values, n \in Labels, linked \in BOOLEAN, s \in ScopeSets :
         /\ label[v] # Unborn
         /\ kind = "reasons" => ~linked
         /\ save' = [save EXCEPT ![w] = [NewSave EXCEPT !.step = "before", !.value = v, !.label = n,
                                                        !.linked = linked, !.scopes = s]]
    /\ UNCHANGED <<kind, label, scopes, copied, unguarded, unfollowed>>

ReadBefore(w) ==
    /\ SaveAt(w, "before")
    /\ save' = [save EXCEPT ![w].step = "check", ![w].before = label[save[w].value]]
    /\ UNCHANGED <<kind, label, scopes, copied, unguarded, unfollowed>>

Alike(n, m) == n # Unborn /\ m # Unborn /\ Folded[n] = Folded[m]

\* Fault: the names are compared as they are typed.
CheckNameExact(w) ==
    /\ SaveAt(w, "check")
    /\ IF \E v \in Values \ {save[w].value} : label[v] = save[w].label
       THEN Drop(w) ELSE GoTo(w, "write")
    /\ UNCHANGED <<kind, label, scopes, copied, unguarded, unfollowed>>

\* ensure_dictionary_value_unique, and the query of the reasons.
CheckName(w) ==
    /\ SaveAt(w, "check")
    /\ IF \E v \in Values \ {save[w].value} : Alike(label[v], save[w].label)
       THEN Drop(w) ELSE GoTo(w, "write")
    /\ UNCHANGED <<kind, label, scopes, copied, unguarded, unfollowed>>

\* A transaction that is writing the name, or replacing it.
NameBusy(w) ==
    \E v \in DictWorkers \ {w} :
        /\ Writing(v)
        /\ \/ save[v].label = save[w].label
           \/ save[v].value # 0 /\ label[save[v].value] = save[w].label

\* Fault: the country of a number is not a foreign key.
KeySharedNever(v) == FALSE

\* The foreign key holds the row for a number that has come to refer to it.
KeyShared(v) == \E w \in DictWorkers : Storing(w) /\ save[w].value = v /\ save[w].refers

\* Fault: the scopes of a reason are replaced before its row is updated.
RowFreeScopes(w) ==
    \/ kind = "reasons"
    \/ \A u \in DictWorkers \ {w} : Writing(u) => save[u].value # save[w].value

\* A new value has no row yet.
RowFree(w) ==
    save[w].value # 0 => \A u \in DictWorkers \ {w} : Writing(u) => save[u].value # save[w].value

\* INSERT, or UPDATE ... WHERE id: it waits for the row, for numbers that hold
\* its key if the name changes, and for the unique index, which refuses a name
\* that is taken.
WriteName(w) ==
    LET q == save[w] IN
    /\ SaveAt(w, "write")
    /\ RowFree(w) /\ ~NameBusy(w)
    /\ q.value # 0 /\ label[q.value] # q.label => ~KeyShared(q.value)
    /\ IF \E v \in Values \ {q.value} : label[v] = q.label
       THEN Drop(w)
       ELSE GoTo(w, "dependents")
    /\ UNCHANGED <<kind, label, scopes, copied, unguarded, unfollowed>>

\* Only a name that was different when the request read it is carried on.
Linked(q) == q.linked /\ q.before # q.label

\* Fault: the copies are found by the name they had.
CopiesOfByName(q) == {m \in Phones : copied[m].value = q.value /\ copied[m].label = q.before}

CopiesOf(q) == {m \in Phones : copied[m].value = q.value}

\* update_dictionary_snapshots: UPDATE phone_numbers ... WHERE country_id.
StartRelabel(w) ==
    /\ SaveAt(w, "dependents") /\ Linked(save[w])
    /\ save' = [save EXCEPT ![w].step = "rows", ![w].todo = CopiesOf(save[w])]
    /\ UNCHANGED <<kind, label, scopes, copied, unguarded, unfollowed>>

\* A row that another transaction has changed is looked at again.
RelabelRow(w) ==
    /\ SaveAt(w, "rows")
    /\ \E m \in save[w].todo :
         /\ ~PhoneLocked(w, m)
         /\ save' = [save EXCEPT ![w].todo = @ \ {m},
                                 ![w].done = IF copied[m].value = save[w].value THEN @ \cup {m} ELSE @]
    /\ UNCHANGED <<kind, label, scopes, copied, unguarded, unfollowed>>

EndRelabel(w) ==
    /\ SaveAt(w, "rows") /\ save[w].todo = {}
    /\ GoTo(w, "commit")
    /\ UNCHANGED <<kind, label, scopes, copied, unguarded, unfollowed>>

\* The scopes that are there are deleted and those of the form inserted.
ReplaceScopes(w) ==
    /\ SaveAt(w, "dependents") /\ ~Linked(save[w])
    /\ save' = [save EXCEPT ![w].step = "commit",
                            ![w].todo = IF save[w].value = 0 THEN {} ELSE scopes[save[w].value]]
    /\ UNCHANGED <<kind, label, scopes, copied, unguarded, unfollowed>>

\* What the commit of name n for value v, carried on or not, means to request q.
Overtaken(q, v, n, linked) ==
    CASE q.step \in {"write"} \cup WritingSteps /\ q.value # v /\ Alike(q.label, n) ->
           [q EXCEPT !.late = TRUE]
      [] q.step \in {"store"} \cup (IF linked THEN {} ELSE {"stored"}) /\ q.value = v /\ label[v] # n ->
           [q EXCEPT !.outdated = TRUE]
      [] OTHER -> q

CommitValue(w) ==
    LET q == save[w] IN
    /\ SaveAt(w, "commit")
    /\ \E v \in Values :
         /\ IF q.value # 0 THEN v = q.value
            ELSE label[v] = Unborn /\ \A u \in 1 .. v - 1 : label[u] # Unborn
         /\ label' = [label EXCEPT ![v] = q.label]
         /\ scopes' = [scopes EXCEPT ![v] = (@ \ q.todo) \cup q.scopes]
         /\ copied' = [m \in Phones |-> IF m \in q.done THEN [value |-> v, label |-> q.label]
                                        ELSE copied[m]]
         /\ unguarded' = IF q.late THEN unguarded \cup {v} ELSE unguarded \ {v}
         /\ unfollowed' = IF Linked(q) THEN unfollowed \ q.done
                          ELSE IF label[v] # q.label
                               THEN unfollowed \cup {m \in Phones : copied[m].value = v}
                               ELSE unfollowed
         /\ save' = [u \in DictWorkers |-> IF u = w THEN NoSave
                                           ELSE Overtaken(save[u], v, q.label, Linked(q))]
    /\ UNCHANGED kind

(***************************************************************************)
(* create_phone_number and update_phone_number, for the copied name        *)
(***************************************************************************)
SubmitPhone(w) ==
    /\ SaveAt(w, "idle") /\ kind = "countries"
    /\ \E m \in Phones, v \in Values :
         /\ label[v] # Unborn
         /\ save' = [save EXCEPT ![w] = [step |-> "labels", phone |-> m, value |-> v, label |-> Unborn,
                                         new |-> copied[m] = NoPhone, refers |-> FALSE,
                                         outdated |-> FALSE]]
    /\ UNCHANGED <<kind, label, scopes, copied, unguarded, unfollowed>>

\* _phone_snapshot_labels
ReadLabel(w) ==
    /\ SaveAt(w, "labels")
    /\ save' = [save EXCEPT ![w].step = "store", ![w].label = label[save[w].value]]
    /\ UNCHANGED <<kind, label, scopes, copied, unguarded, unfollowed>>

\* INSERT or UPDATE: a number whose GEO is new or another one holds the key of
\* the GEO, and waits for a rename that is replacing it.
StorePhone(w) ==
    LET q == save[w]
        refers == copied[q.phone].value # q.value
    IN
    /\ SaveAt(w, "store") /\ ~PhoneLocked(w, q.phone)
    /\ refers => \A u \in DictWorkers :
                   Writing(u) /\ save[u].value = q.value => save[u].label = label[q.value]
    /\ IF q.new /\ copied[q.phone] # NoPhone THEN Drop(w)
       ELSE save' = [save EXCEPT ![w].step = "stored", ![w].refers = refers]
    /\ UNCHANGED <<kind, label, scopes, copied, unguarded, unfollowed>>

CommitPhone(w) ==
    LET q == save[w] IN
    /\ SaveAt(w, "stored")
    /\ copied' = [copied EXCEPT ![q.phone] = [value |-> q.value, label |-> q.label]]
    /\ unfollowed' = IF q.outdated THEN unfollowed \cup {q.phone} ELSE unfollowed \ {q.phone}
    /\ Drop(w)
    /\ UNCHANGED <<kind, label, scopes, unguarded>>

\* A refused form (a linked rename is not confirmed), an error, a deadlock: the
\* transaction is rolled back.
LeaveSave(w) ==
    /\ ~SaveAt(w, "idle")
    /\ Drop(w)
    /\ UNCHANGED <<kind, label, scopes, copied, unguarded, unfollowed>>

DictNext ==
    \E w \in DictWorkers :
        \/ SubmitCreate(w) \/ SubmitDirect(w) \/ SubmitUpdate(w) \/ ReadBefore(w) \/ CheckName(w)
        \/ WriteName(w) \/ StartRelabel(w) \/ RelabelRow(w) \/ EndRelabel(w) \/ ReplaceScopes(w)
        \/ CommitValue(w) \/ SubmitPhone(w) \/ ReadLabel(w) \/ StorePhone(w) \/ CommitPhone(w)
        \/ LeaveSave(w)

DictSpec == DictInit /\ [][DictNext]_dictVars

(***************************************************************************)
(* Properties                                                              *)
(***************************************************************************)
DictTypeOK ==
    /\ label \in [Values -> Labels \cup {Unborn}]
    /\ scopes \in [Values -> SUBSET Scopes]
    /\ \A m \in Phones : copied[m] = NoPhone \/ copied[m] \in [value: Values, label: Labels]
    /\ \A w \in DictWorkers :
         save[w].step \in {"idle", "before", "check", "write", "labels", "store", "stored"}
                          \cup WritingSteps
    /\ unguarded \subseteq Values /\ unfollowed \subseteq Phones

\* Two values have names that differ in case or spaces only if one of them was
\* saved while the other was, or by a form that does not look.
NamesApart ==
    \A v, u \in Values : v # u /\ Alike(label[v], label[u]) => v \in unguarded \/ u \in unguarded

\* A linked rename that is about to commit has every number of the GEO, those
\* included that had kept an older name or were saved while it ran; unless
\* another request has given the GEO that name already, and a number whose form
\* was read before came after the numbers were looked for.
RenameReaches ==
    \A w \in DictWorkers : SaveAt(w, "commit") /\ Linked(save[w]) =>
        \A m \in Phones : copied[m].value = save[w].value =>
            \/ m \in save[w].done
            \/ label[save[w].value] = save[w].label
                 /\ (copied[m].label = save[w].label \/ m \in unfollowed)

\* A number shows the name of its GEO, unless a rename was told to leave it, or
\* committed between the moment the number's form read the name and stored it.
LabelsFollow ==
    \A m \in Phones : copied[m] # NoPhone =>
        copied[m].label = label[copied[m].value] \/ m \in unfollowed

\* The scopes of a reason are those of one form, never a mixture of two.
ScopesWhole ==
    [][\A v \in Values : scopes'[v] # scopes[v] =>
         \E w \in DictWorkers : SaveAt(w, "commit") /\ save[w].value \in {0, v}
                                /\ scopes'[v] = save[w].scopes]_dictVars
================================================================================
