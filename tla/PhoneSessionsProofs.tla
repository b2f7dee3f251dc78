-------------------------- MODULE PhoneSessionsProofs --------------------------
(***************************************************************************)
(* Overlapping requests about numbers, for every number of workers,        *)
(* numbers, routes, links and forms.                                       *)
(***************************************************************************)
EXTENDS PhoneSessions, FiniteSetTheorems, SequenceTheorems, TLAPS

AddSteps == {"addLookup", "addRead", "addCheck", "addPromote", "addLink"}
RemoveSteps == {"remSelect", "remClose", "remLog"}
ImportSteps == {"impRead", "impLinks"}
UpdateSteps == {"updRead", "updWrite", "updCollect", "updClose"}
SpamSteps == {"spamLock", "spamFlag"}
ReadSteps == {"impLinks", "addCheck", "addPromote", "addLink", "updWrite", "spamFlag"}
KnownSteps == ReadSteps \cup {"addRead"}

Elements(list) == {list[i] : i \in 1 .. Len(list)}

\* What FlagsSettled says of one row.
Settled(row) ==
    /\ row.is_problematic \/ ~row.provider_id => row.review_required
    /\ ~row.is_active => row.deactivated_at

\* A worker without a request has no transaction.
Resting(w) ==
    /\ req[w] = Absent /\ seen[w] = Absent /\ todo[w] = <<>>
    /\ wPhone[w] = Absent /\ wLink[w] = Absent /\ wClosed[w] = {}

\* The statement of a worker belongs to its request.
StepFits(w) ==
    /\ req[w] \in Requests
    /\ pc[w] = "insert" => req[w].op = "create"
    /\ pc[w] \in AddSteps => req[w].op = "add"
    /\ pc[w] \in RemoveSteps => req[w].op = "remove"
    /\ pc[w] \in ImportSteps => req[w].op = "import"
    /\ pc[w] \in UpdateSteps => req[w].op \in {"update", "import"}
    /\ pc[w] \in SpamSteps => req[w].op = "spam"

\* What a request has found out when it has come to its step.
Found(w) ==
    /\ pc[w] = "insert" => req[w].form.provider_id \/ req[w].form.review_required
    /\ pc[w] \in KnownSteps => phone[req[w].phone] # Absent
    /\ pc[w] \in ReadSteps => seen[w] \in Pool!PhoneRows
    /\ pc[w] = "updWrite" => Pool!UpdateAccepted(seen[w], req[w].form)
    /\ pc[w] = "spamFlag" => Settled(seen[w]) /\ wPhone[w] # Absent
    /\ pc[w] \in {"remClose", "remLog"} => todo[w] # <<>>
    /\ \A i \in 1 .. Len(todo[w]) : link[todo[w][i]] # Absent

\* What it has written and not committed.
Written(w) ==
    /\ wPhone[w] # Absent =>
          /\ pc[w] \in {"addLink", "updCollect", "updClose", "spamFlag", "commit"}
          /\ req[w].op # "remove" /\ Settled(wPhone[w])
    /\ wLink[w] # Absent =>
          /\ pc[w] = "commit" /\ req[w].op = "add" /\ link[wLink[w]] = Absent
          /\ Pool!LinksBetween(req[w].route, req[w].phone) = {}
    /\ \A l \in wClosed[w] : link[l] # Absent

WorkerOK(w) == IF pc[w] = "idle" THEN Resting(w) ELSE StepFits(w) /\ Found(w) /\ Written(w)

\* Two transactions never write the same row, nor insert the same link twice.
Apart(v, w) ==
    /\ wPhone[v] # Absent /\ wPhone[w] # Absent => req[v].phone # req[w].phone
    /\ wClosed[v] \cap wClosed[w] = {}
    /\ wLink[v] # Absent /\ wLink[w] # Absent =>
          wLink[v] # wLink[w] /\ <<req[v].route, req[v].phone>> # <<req[w].route, req[w].phone>>

RowsApart == \A v, w \in Workers : v # w => Apart(v, w)

WorkersInv == TypeOK /\ (\A w \in Workers : WorkerOK(w)) /\ RowsApart

SessionsInv == WorkersInv /\ ActiveLinkUnique /\ FlagsSettled /\ ClosingsLogged

--------------------------------------------------------------------------------
(* Operators of PhonePool and of the lists of links.                       *)

LEMMA StatusType ==
  ASSUME NEW f \in Pool!PhoneForms
  PROVE  Pool!StoredStatus(f) \in Pool!Statuses
BY DEF Pool!StoredStatus, Pool!NormalizeStatus, Pool!Statuses, Pool!PhoneForms

\* The rows that update_phone_number and create_phone_number write.
LEMMA UpdatedType ==
  ASSUME NEW f \in Pool!PhoneForms, NEW old \in Pool!PhoneRows, NEW row \in Pool!PhoneRows
  PROVE  Pool!UpdatedRow(old, row, f) \in Pool!PhoneRows
<1>1. Pool!StoredStatus(f) \in Pool!Statuses
  BY StatusType
<1>2. Pool!FinalReview(old, f) \in BOOLEAN /\ Pool!Problematic(f) \in BOOLEAN
  BY DEF Pool!FinalReview, Pool!Problematic, Pool!IsLegacyProblem
<1> QED
  BY <1>1, <1>2 DEF Pool!UpdatedRow, Pool!PhoneRows, Pool!PhoneForms

LEMMA CreatedType ==
  ASSUME NEW f \in Pool!PhoneForms
  PROVE  Pool!CreatedRow(f) \in Pool!PhoneRows
<1>1. Pool!Problematic(f) \in BOOLEAN
  BY DEF Pool!Problematic, Pool!IsLegacyProblem
<1> QED
  BY <1>1, StatusType DEF Pool!CreatedRow, Pool!PhoneRows, Pool!PhoneForms

LEMMA CreatedSettled ==
  ASSUME NEW f \in Pool!PhoneForms, f.provider_id \/ f.review_required
  PROVE  Settled(Pool!CreatedRow(f))
BY DEF Settled, Pool!CreatedRow, Pool!PhoneForms

LEMMA UpdatedSettled ==
  ASSUME NEW f \in Pool!PhoneForms, NEW old, NEW row, Pool!UpdateAccepted(old, f)
  PROVE  Settled(Pool!UpdatedRow(old, row, f))
BY DEF Settled, Pool!UpdatedRow, Pool!UpdateAccepted, Pool!FinalReview, Pool!PhoneForms

\* A promotion and a spam flag keep a row settled.
LEMMA PromotedType ==
  ASSUME NEW row \in Pool!PhoneRows, Settled(row)
  PROVE  /\ [row EXCEPT !.status = "used"] \in Pool!PhoneRows
         /\ Settled([row EXCEPT !.status = "used"])
         /\ Pool!SpamFlagged(row) \in Pool!PhoneRows
         /\ Settled(Pool!SpamFlagged(row))
BY DEF Pool!PhoneRows, Pool!Statuses, Pool!SpamFlagged, Settled

LEMMA MergedForm ==
  ASSUME NEW f \in Pool!PhoneForms, NEW row \in Pool!PhoneRows, NEW linked \in BOOLEAN
  PROVE  Pool!ImportForm(row, linked, f) \in Pool!PhoneForms
<1>1. "used" \in Pool!RawStatuses
  BY DEF Pool!RawStatuses, Pool!Statuses
<1> DEFINE problem == f.is_problematic \/ row.is_problematic
           status == IF problem /\ f.is_active /\ linked THEN "used" ELSE f.status
           review == f.review_required \/ row.review_required
<1>2. problem \in BOOLEAN /\ status \in Pool!RawStatuses /\ review \in BOOLEAN
  BY <1>1 DEF Pool!PhoneForms, Pool!PhoneRows
<1>3. Pool!ImportForm(row, linked, f)
        = [f EXCEPT !.is_problematic = problem, !.status = status,
                    !.review_required = review, !.renumber = FALSE]
  BY DEF Pool!ImportForm
<1> HIDE DEF problem, status, review
<1> QED
  BY <1>2, <1>3 DEF Pool!PhoneForms

\* What a request carries.
LEMMA RequestFields ==
  ASSUME NEW q \in Requests
  PROVE  /\ q.op \in {"create", "update", "import", "add", "remove", "spam"}
         /\ q.op # "remove" => q.phone \in Phones
         /\ q.op \in {"create", "update", "import"} => q.form \in Pool!PhoneForms
         /\ q.op \in {"add", "remove"} => q.route \in Routes
         /\ q.op = "remove" => q.ids \in LinkLists
BY DEF Requests

LEMMA ListType ==
  ASSUME NEW S \in SUBSET LinkIds, NEW list \in Orders(S)
  PROVE  /\ list \in Seq(S) /\ list \in Seq(LinkIds) /\ list \in LinkLists
         /\ IsFiniteSet(S) /\ Len(list) = Cardinality(S)
         /\ \A i, j \in 1 .. Len(list) : i # j => list[i] # list[j]
<1>1. IsFiniteSet(S)
  BY LinkIdsAssumption, FS_Subset
<1>2. Cardinality(S) \in Nat
  BY <1>1, FS_CardinalityType
<1>3. list \in [1 .. Cardinality(S) -> S]
  BY DEF Orders
<1>4. list \in Seq(S) /\ list \in Seq(LinkIds) /\ Len(list) = Cardinality(S)
  BY <1>2, <1>3
<1>5. \A i, j \in 1 .. Len(list) : i # j => list[i] # list[j]
  BY <1>4 DEF Orders
<1>6. list \in LinkLists
  BY DEF LinkLists
<1> QED
  BY <1>1, <1>4, <1>5, <1>6

LEMMA LinkListType ==
  ASSUME NEW list \in LinkLists
  PROVE  /\ list \in Seq(LinkIds)
         /\ \A i \in 1 .. Len(list) : list[i] \in LinkIds
<1>1. PICK S \in SUBSET LinkIds : list \in Orders(S)
  BY DEF LinkLists
<1>2. list \in Seq(LinkIds)
  BY <1>1, ListType
<1> QED
  BY <1>2

\* The rest of a list of links is a list of links.
LEMMA TailOfList ==
  ASSUME NEW list \in LinkLists, list # <<>>
  PROVE  /\ Head(list) \in LinkIds
         /\ Tail(list) \in LinkLists
         /\ \A i \in 1 .. Len(Tail(list)) : Tail(list)[i] = list[i + 1] /\ i + 1 \in 1 .. Len(list)
<1>1. PICK S \in SUBSET LinkIds : list \in Orders(S)
  BY DEF LinkLists
<1>2. /\ list \in Seq(S) /\ IsFiniteSet(S) /\ Len(list) = Cardinality(S)
      /\ \A i, j \in 1 .. Len(list) : i # j => list[i] # list[j]
  BY <1>1, ListType
<1>3. Len(list) \in Nat \ {0} /\ Head(list) = list[1] /\ Head(list) \in S
  BY <1>2
<1>4. /\ Tail(list) \in Seq(S) /\ Len(Tail(list)) = Len(list) - 1
      /\ \A i \in 1 .. Len(Tail(list)) : Tail(list)[i] = list[i + 1] /\ i + 1 \in 1 .. Len(list)
  BY <1>2, <1>3
<1> DEFINE R == S \ {Head(list)}
<1>5. Cardinality(R) = Len(list) - 1
  <2>1. Cardinality(S \ {Head(list)}) = Cardinality(S) - 1
    BY <1>2, <1>3, FS_RemoveElement
  <2> QED
    BY <1>2, <2>1
<1>6. Tail(list) \in [1 .. Cardinality(R) -> R]
  <2>1. \A i \in 1 .. Len(Tail(list)) : Tail(list)[i] \in R
    BY <1>2, <1>3, <1>4
  <2>2. Tail(list) \in [1 .. Len(Tail(list)) -> S]
    BY <1>4, LenProperties
  <2> QED
    BY <1>4, <1>5, <2>1, <2>2
<1>7. \A i, j \in 1 .. Cardinality(R) : i # j => Tail(list)[i] # Tail(list)[j]
  <2> SUFFICES ASSUME NEW i \in 1 .. Cardinality(R), NEW j \in 1 .. Cardinality(R), i # j
               PROVE  Tail(list)[i] # Tail(list)[j]
    OBVIOUS
  <2>1. i + 1 # j + 1 /\ i + 1 \in 1 .. Len(list) /\ j + 1 \in 1 .. Len(list)
    BY <1>3, <1>5
  <2> QED
    BY <1>2, <1>4, <1>5, <2>1
<1>8. Tail(list) \in Orders(R)
  BY <1>6, <1>7 DEF Orders
<1>9. Tail(list) \in LinkLists
  BY <1>8 DEF LinkLists
<1> QED
  BY <1>3, <1>4, <1>9

\* A worker that has come to the next of the links that it knows of.
LEMMA ListOfKnown ==
  ASSUME NEW list \in LinkLists, list # <<>>, \A i \in 1 .. Len(list) : link[list[i]] # Absent
  PROVE  /\ Head(list) \in LinkIds /\ link[Head(list)] # Absent
         /\ Tail(list) \in LinkLists
         /\ \A i \in 1 .. Len(Tail(list)) : link[Tail(list)[i]] # Absent
<1>1. 1 \in 1 .. Len(list) /\ Head(list) = list[1]
  BY LinkListType
<1> QED
  BY <1>1, TailOfList

--------------------------------------------------------------------------------
(* Steps of one worker.                                                    *)

\* Nothing of the other workers changes.
Others(w) ==
    \A v \in Workers \ {w} :
        /\ pc'[v] = pc[v] /\ req'[v] = req[v] /\ seen'[v] = seen[v] /\ todo'[v] = todo[v]
        /\ wPhone'[v] = wPhone[v] /\ wLink'[v] = wLink[v] /\ wClosed'[v] = wClosed[v]

\* A statement changes no committed row: the invariant has to be shown of the
\* worker that executes it.
LEMMA LocalStep ==
  ASSUME WorkersInv, TypeOK', NEW w \in Workers, UNCHANGED db, Others(w),
         WorkerOK(w)', \A v \in Workers \ {w} : Apart(v, w)'
  PROVE  WorkersInv'
<1>1. \A v \in Workers \ {w} : WorkerOK(v)'
  <2> SUFFICES ASSUME NEW v \in Workers \ {w}
               PROVE  WorkerOK(v)'
    OBVIOUS
  <2>1. WorkerOK(v) /\ UNCHANGED <<phone, link>>
    BY DEF WorkersInv, db
  <2>2. /\ pc'[v] = pc[v] /\ req'[v] = req[v] /\ seen'[v] = seen[v] /\ todo'[v] = todo[v]
        /\ wPhone'[v] = wPhone[v] /\ wLink'[v] = wLink[v] /\ wClosed'[v] = wClosed[v]
    BY DEF Others
  <2>3. CASE pc[v] = "idle"
    BY <2>1, <2>2, <2>3 DEF WorkerOK, Resting
  <2>4. CASE pc[v] # "idle"
    <3>1. StepFits(v)'
      BY <2>1, <2>2, <2>4 DEF WorkerOK, StepFits
    <3>2. Found(v)'
      BY <2>1, <2>2, <2>4 DEF WorkerOK, Found
    <3>3. Written(v)'
      BY <2>1, <2>2, <2>4 DEF WorkerOK, Written, Pool!LinksBetween, Pool!LinksOfPhone, Pool!ActiveLinks
    <3> QED
      BY <2>2, <2>4, <3>1, <3>2, <3>3 DEF WorkerOK
  <2> QED
    BY <2>3, <2>4
<1>2. \A u, v \in Workers \ {w} : u # v => Apart(u, v)'
  BY DEF WorkersInv, RowsApart, Apart, Others
<1>3. \A v \in Workers \ {w} : Apart(w, v)'
  BY DEF Apart
<1>4. RowsApart'
  BY <1>2, <1>3 DEF RowsApart
<1> QED
  BY <1>1, <1>4 DEF WorkersInv

\* A step that writes no row.
LEMMA ReadingStep ==
  ASSUME WorkersInv, TypeOK', NEW w \in Workers, UNCHANGED <<db, wPhone, wLink, wClosed>>,
         Others(w), wPhone[w] # Absent \/ wLink[w] # Absent => req'[w] = req[w],
         WorkerOK(w)'
  PROVE  WorkersInv'
<1>1. \A v \in Workers \ {w} : Apart(v, w)'
  BY DEF WorkersInv, RowsApart, Apart, Others
<1> QED
  BY <1>1, LocalStep

\* The end of a request, committed or not.
LEMMA EndEffect ==
  ASSUME TypeOK, Pool!TypeOK', NEW w \in Workers, EndSession(w)
  PROVE  TypeOK' /\ Others(w) /\ WorkerOK(w)' /\ \A v \in Workers \ {w} : Apart(v, w)'
<1>1. TypeOK'
  <2>1. "idle" \in Steps
    BY DEF Steps
  <2>2. <<>> \in LinkLists
    BY LinkIdsAssumption, FS_EmptySet DEF LinkLists, Orders
  <2> QED
    BY <2>1, <2>2 DEF EndSession, TypeOK
<1>2. Others(w)
  BY DEF EndSession, TypeOK, Others
<1>3. pc'[w] = "idle" /\ Resting(w)'
  BY DEF EndSession, TypeOK, Resting
<1> QED
  BY <1>1, <1>2, <1>3 DEF WorkerOK, Resting, Apart

LEMMA RollbackInv ==
  ASSUME WorkersInv, NEW w \in Workers, Rollback(w)
  PROVE  WorkersInv'
<1>1. UNCHANGED db /\ EndSession(w)
  BY DEF Rollback
<1>2. Pool!TypeOK'
  BY <1>1 DEF WorkersInv, TypeOK, Pool!TypeOK, db
<1> QED
  BY <1>1, <1>2, EndEffect, LocalStep DEF WorkersInv

LEMMA BeginInv ==
  ASSUME WorkersInv, NEW w \in Workers, Begin(w)
  PROVE  WorkersInv'
<1>1. PICK q \in Posted(w) :
        /\ req' = [req EXCEPT ![w] = q]
        /\ pc' = [pc EXCEPT ![w] = FirstStep[q.op]]
        /\ todo' = [todo EXCEPT ![w] = IF q.op = "remove" THEN q.ids ELSE <<>>]
  BY DEF Begin
<1>2. /\ pc[w] = "idle" /\ UNCHANGED <<db, seen, wPhone, wLink, wClosed>>
      /\ TypeOK /\ Resting(w)
  BY DEF Begin, WorkersInv, WorkerOK
<1>3. Reach[w] \subseteq Phones /\ Ops \subseteq DOMAIN FirstStep /\ Forms \subseteq Pool!PhoneForms
  BY ReachAssumption, OpsAssumption, FormsAssumption
<1>4. /\ q \in Requests
      /\ q.op = "create" => q.form.provider_id \/ q.form.review_required
      /\ q.op = "remove" => \A i \in DOMAIN q.ids : link[q.ids[i]] # Absent
  BY <1>3 DEF Posted, Requests
<1>5. q.op \in {"create", "update", "import", "add", "remove", "spam"}
  BY <1>4, RequestFields
<1>6. FirstStep[q.op] =
        CASE q.op = "create" -> "insert" [] q.op = "update" -> "updRead"
          [] q.op = "import" -> "impRead" [] q.op = "add" -> "addLookup"
          [] q.op = "remove" -> "remSelect" [] q.op = "spam" -> "spamLock"
  BY <1>5 DEF FirstStep
<1>7. (IF q.op = "remove" THEN q.ids ELSE <<>>) \in LinkLists
  <2>1. <<>> \in LinkLists
    BY LinkIdsAssumption, FS_EmptySet DEF LinkLists, Orders
  <2> QED
    BY <1>4, <2>1, RequestFields
<1>8. pc'[w] = FirstStep[q.op] /\ req'[w] = q /\ FirstStep[q.op] \in Steps
  BY <1>1, <1>2, <1>5, <1>6 DEF TypeOK, Steps
<1>9. TypeOK'
  BY <1>1, <1>2, <1>4, <1>7, <1>8 DEF TypeOK, Pool!TypeOK, db
<1>10. Others(w)
  BY <1>1, <1>2 DEF Others, TypeOK
<1>11. StepFits(w)'
  BY <1>4, <1>5, <1>6, <1>8
     DEF StepFits, AddSteps, RemoveSteps, ImportSteps, UpdateSteps, SpamSteps
<1>12. Found(w)'
  <2>1. pc'[w] \notin KnownSteps \cup {"remClose", "remLog"} /\ (pc'[w] = "insert" => q.op = "create")
    BY <1>5, <1>6, <1>8 DEF KnownSteps, ReadSteps
  <2>2. \A i \in 1 .. Len(todo'[w]) : link[todo'[w][i]] # Absent
    <3>1. CASE q.op = "remove"
      <4>1. todo'[w] = q.ids /\ DOMAIN q.ids = 1 .. Len(q.ids)
        BY <1>1, <1>2, <1>4, <3>1, RequestFields, LinkListType DEF TypeOK
      <4> QED
        BY <1>4, <3>1, <4>1
    <3>2. CASE q.op # "remove"
      BY <1>1, <1>2, <3>2 DEF TypeOK
    <3> QED
      BY <3>1, <3>2
  <2> QED
    BY <1>2, <1>4, <1>8, <2>1, <2>2 DEF Found, KnownSteps, ReadSteps, db
<1>13. Written(w)' /\ pc'[w] # "idle"
  BY <1>2, <1>5, <1>6, <1>8 DEF Written, Resting
<1>14. WorkerOK(w)'
  BY <1>11, <1>12, <1>13 DEF WorkerOK
<1> QED
  BY <1>2, <1>9, <1>10, <1>14, ReadingStep DEF Resting

LEMMA InsertPhoneInv ==
  ASSUME WorkersInv, NEW w \in Workers, InsertPhone(w)
  PROVE  WorkersInv'
<1>1. pc[w] = "insert" /\ Granted(w) /\ TypeOK /\ StepFits(w) /\ Found(w) /\ Written(w)
  BY DEF InsertPhone, WorkersInv, WorkerOK
<1>2. CASE phone[req[w].phone] # Absent
  BY <1>2, RollbackInv DEF InsertPhone
<1>3. CASE phone[req[w].phone] = Absent
  <2>1. /\ wPhone' = [wPhone EXCEPT ![w] = Pool!CreatedRow(req[w].form)]
        /\ pc' = [pc EXCEPT ![w] = "commit"]
        /\ UNCHANGED <<db, req, seen, todo, wLink, wClosed>>
    BY <1>3 DEF InsertPhone, WritePhone, Goto
  <2>2. req[w].op = "create" /\ req[w].form \in Pool!PhoneForms
    BY <1>1, RequestFields DEF StepFits
  <2>3. Pool!CreatedRow(req[w].form) \in Pool!PhoneRows /\ Settled(Pool!CreatedRow(req[w].form))
    BY <1>1, <2>2, CreatedType, CreatedSettled DEF Found
  <2>4. TypeOK'
    BY <1>1, <2>1, <2>3 DEF TypeOK, Pool!TypeOK, Steps, db
  <2>5. Others(w)
    BY <1>1, <2>1 DEF TypeOK, Others
  <2>6. WorkerOK(w)'
    BY <1>1, <2>1, <2>2, <2>3 DEF TypeOK, WorkerOK, StepFits, Found, Written, KnownSteps, ReadSteps,
       AddSteps, RemoveSteps, ImportSteps, UpdateSteps, SpamSteps, db
  <2>7. \A v \in Workers \ {w} : Apart(v, w)'
    BY <1>1, <2>1, <2>5 DEF Granted, WaitsFor, PhoneWriters, Writes, WorkersInv, RowsApart, Apart
  <2> QED
    BY <2>1, <2>4, <2>5, <2>6, <2>7, LocalStep
<1> QED
  BY <1>2, <1>3

LEMMA AddLookupInv ==
  ASSUME WorkersInv, NEW w \in Workers, AddLookup(w)
  PROVE  WorkersInv'
<1>1. pc[w] = "addLookup" /\ TypeOK /\ StepFits(w) /\ Found(w) /\ Written(w)
  BY DEF AddLookup, WorkersInv, WorkerOK
<1>2. CASE phone[req[w].phone] = Absent \/ LinkedTo(w)
  BY <1>2, RollbackInv DEF AddLookup
<1>3. CASE ~(phone[req[w].phone] = Absent \/ LinkedTo(w))
  <2>1. /\ pc' = [pc EXCEPT ![w] = "addRead"]
        /\ UNCHANGED <<db, req, seen, todo, wPhone, wLink, wClosed>>
    BY <1>3 DEF AddLookup, Goto
  <2>2. TypeOK' /\ Others(w)
    BY <1>1, <2>1 DEF TypeOK, Pool!TypeOK, Steps, db, Others
  <2>3. WorkerOK(w)'
    BY <1>1, <1>3, <2>1 DEF TypeOK, WorkerOK, StepFits, Found, Written,
       KnownSteps, ReadSteps, AddSteps, RemoveSteps, ImportSteps, UpdateSteps, SpamSteps, db
  <2> QED
    BY <2>1, <2>2, <2>3, ReadingStep
<1> QED
  BY <1>2, <1>3

LEMMA AddCheckInv ==
  ASSUME WorkersInv, NEW w \in Workers, AddCheck(w)
  PROVE  WorkersInv'
<1>1. pc[w] = "addCheck" /\ TypeOK /\ StepFits(w) /\ Found(w) /\ Written(w)
  BY DEF AddCheck, WorkersInv, WorkerOK
<1>2. CASE LinkedTo(w)
  BY <1>2, RollbackInv DEF AddCheck
<1>3. CASE ~(LinkedTo(w))
  <2>1. /\ pc' = [pc EXCEPT ![w] = "addPromote"]
        /\ UNCHANGED <<db, req, seen, todo, wPhone, wLink, wClosed>>
    BY <1>3 DEF AddCheck, Goto
  <2>2. TypeOK' /\ Others(w)
    BY <1>1, <2>1 DEF TypeOK, Pool!TypeOK, Steps, db, Others
  <2>3. WorkerOK(w)'
    BY <1>1, <1>3, <2>1 DEF TypeOK, WorkerOK, StepFits, Found, Written,
       KnownSteps, ReadSteps, AddSteps, RemoveSteps, ImportSteps, UpdateSteps, SpamSteps, db
  <2> QED
    BY <2>1, <2>2, <2>3, ReadingStep
<1> QED
  BY <1>2, <1>3

LEMMA AddReadInv ==
  ASSUME WorkersInv, NEW w \in Workers, AddRead(w)
  PROVE  WorkersInv'
<1>1. pc[w] = "addRead" /\ TypeOK /\ StepFits(w) /\ Found(w) /\ Written(w)
  BY DEF AddRead, WorkersInv, WorkerOK
<1>2. CASE ~phone[req[w].phone].is_active
  BY <1>2, RollbackInv DEF AddRead
<1>3. CASE ~(~phone[req[w].phone].is_active)
  <2>1. /\ pc' = [pc EXCEPT ![w] = "addCheck"]
        /\ seen' = [seen EXCEPT ![w] = phone[req[w].phone]]
        /\ UNCHANGED <<db, req, todo, wPhone, wLink, wClosed>>
    BY <1>3 DEF AddRead, Goto, Read
  <2>2. phone[req[w].phone] \in Pool!PhoneRows /\ phone[req[w].phone] # Absent
    BY <1>1, <1>3, RequestFields DEF TypeOK, Pool!TypeOK, StepFits, Found, Written,
       KnownSteps, ReadSteps, AddSteps, RemoveSteps, ImportSteps, UpdateSteps, SpamSteps, db
  <2>3. TypeOK' /\ Others(w)
    BY <1>1, <2>1, <2>2 DEF TypeOK, Pool!TypeOK, Steps, db, Others
  <2>4. WorkerOK(w)'
    BY <1>1, <1>3, <2>1, <2>2 DEF TypeOK, WorkerOK, StepFits, Found, Written,
       KnownSteps, ReadSteps, AddSteps, RemoveSteps, ImportSteps, UpdateSteps, SpamSteps, db
  <2> QED
    BY <2>1, <2>3, <2>4, ReadingStep
<1> QED
  BY <1>2, <1>3

LEMMA ImportReadInv ==
  ASSUME WorkersInv, NEW w \in Workers, ImportRead(w)
  PROVE  WorkersInv'
<1>1. pc[w] = "impRead" /\ TypeOK /\ StepFits(w) /\ Found(w) /\ Written(w)
  BY DEF ImportRead, WorkersInv, WorkerOK
<1>2. CASE phone[req[w].phone] = Absent
  BY <1>2, RollbackInv DEF ImportRead
<1>3. CASE ~(phone[req[w].phone] = Absent)
  <2>1. /\ pc' = [pc EXCEPT ![w] = "impLinks"]
        /\ seen' = [seen EXCEPT ![w] = phone[req[w].phone]]
        /\ UNCHANGED <<db, req, todo, wPhone, wLink, wClosed>>
    BY <1>3 DEF ImportRead, Goto, Read
  <2>2. phone[req[w].phone] \in Pool!PhoneRows /\ phone[req[w].phone] # Absent
    BY <1>1, <1>3, RequestFields DEF TypeOK, Pool!TypeOK, StepFits, Found, Written,
       KnownSteps, ReadSteps, AddSteps, RemoveSteps, ImportSteps, UpdateSteps, SpamSteps, db
  <2>3. TypeOK' /\ Others(w)
    BY <1>1, <2>1, <2>2 DEF TypeOK, Pool!TypeOK, Steps, db, Others
  <2>4. WorkerOK(w)'
    BY <1>1, <1>3, <2>1, <2>2 DEF TypeOK, WorkerOK, StepFits, Found, Written,
       KnownSteps, ReadSteps, AddSteps, RemoveSteps, ImportSteps, UpdateSteps, SpamSteps, db
  <2> QED
    BY <2>1, <2>3, <2>4, ReadingStep
<1> QED
  BY <1>2, <1>3

LEMMA UpdateReadInv ==
  ASSUME WorkersInv, NEW w \in Workers, UpdateRead(w)
  PROVE  WorkersInv'
<1>1. pc[w] = "updRead" /\ TypeOK /\ StepFits(w) /\ Found(w) /\ Written(w)
  BY DEF UpdateRead, WorkersInv, WorkerOK
<1>2. CASE phone[req[w].phone] = Absent \/ ~Pool!UpdateAccepted(phone[req[w].phone], req[w].form)
  BY <1>2, RollbackInv DEF UpdateRead
<1>3. CASE ~(phone[req[w].phone] = Absent \/ ~Pool!UpdateAccepted(phone[req[w].phone], req[w].form))
  <2>1. /\ pc' = [pc EXCEPT ![w] = "updWrite"]
        /\ seen' = [seen EXCEPT ![w] = phone[req[w].phone]]
        /\ UNCHANGED <<db, req, todo, wPhone, wLink, wClosed>>
    BY <1>3 DEF UpdateRead, Goto, Read
  <2>2. phone[req[w].phone] \in Pool!PhoneRows /\ phone[req[w].phone] # Absent
    BY <1>1, <1>3, RequestFields DEF TypeOK, Pool!TypeOK, StepFits, Found, Written,
       KnownSteps, ReadSteps, AddSteps, RemoveSteps, ImportSteps, UpdateSteps, SpamSteps, db
  <2>3. TypeOK' /\ Others(w)
    BY <1>1, <2>1, <2>2 DEF TypeOK, Pool!TypeOK, Steps, db, Others
  <2>4. WorkerOK(w)'
    BY <1>1, <1>3, <2>1, <2>2 DEF TypeOK, WorkerOK, StepFits, Found, Written,
       KnownSteps, ReadSteps, AddSteps, RemoveSteps, ImportSteps, UpdateSteps, SpamSteps, db
  <2> QED
    BY <2>1, <2>3, <2>4, ReadingStep
<1> QED
  BY <1>2, <1>3

LEMMA ImportLinksInv ==
  ASSUME WorkersInv, NEW w \in Workers, ImportLinks(w)
  PROVE  WorkersInv'
<1>1. pc[w] = "impLinks" /\ TypeOK /\ StepFits(w) /\ Found(w) /\ Written(w)
  BY DEF ImportLinks, WorkersInv, WorkerOK
<1> DEFINE p == req[w].phone
           merged == Pool!ImportForm(seen[w], Pool!LinksOfPhone(p) # {}, req[w].form)
<1>2. req[w].op = "import" /\ p \in Phones /\ req[w].form \in Pool!PhoneForms
  BY <1>1, RequestFields DEF StepFits, ImportSteps
<1>3. seen[w] \in Pool!PhoneRows /\ merged \in Pool!PhoneForms
  BY <1>1, <1>2, MergedForm DEF Found, ReadSteps
<1>4. /\ req' = [req EXCEPT ![w] = [req[w] EXCEPT !.form = merged]]
      /\ pc' = [pc EXCEPT ![w] = "updRead"]
      /\ UNCHANGED <<db, seen, todo, wPhone, wLink, wClosed>>
  BY DEF ImportLinks, Goto
<1>5. req[w] \in [op : {"create", "update", "import"}, phone : Phones, form : Pool!PhoneForms]
  BY <1>1, <1>2 DEF StepFits, Requests
<1> HIDE DEF merged, p
<1>6. /\ [req[w] EXCEPT !.form = merged]
           \in [op : {"create", "update", "import"}, phone : Phones, form : Pool!PhoneForms]
      /\ [req[w] EXCEPT !.form = merged].op = "import"
      /\ [req[w] EXCEPT !.form = merged].phone = req[w].phone
  BY <1>2, <1>3, <1>5
<1>7. [req[w] EXCEPT !.form = merged] \in Requests
  BY <1>6 DEF Requests
<1>8. req'[w] = [req[w] EXCEPT !.form = merged]
  BY <1>1, <1>4 DEF TypeOK
<1>9. TypeOK' /\ Others(w)
  BY <1>1, <1>4, <1>7 DEF TypeOK, Pool!TypeOK, Steps, db, Others
<1>10. WorkerOK(w)'
  BY <1>1, <1>4, <1>6, <1>7, <1>8 DEF TypeOK, WorkerOK, StepFits, Found, Written,
       KnownSteps, ReadSteps, AddSteps, RemoveSteps, ImportSteps, UpdateSteps, SpamSteps, db
<1>11. wPhone[w] = Absent /\ wLink[w] = Absent
  BY <1>1 DEF Written
<1> QED
  BY <1>4, <1>9, <1>10, <1>11, ReadingStep

LEMMA AddPromoteInv ==
  ASSUME WorkersInv, FlagsSettled, NEW w \in Workers, AddPromote(w)
  PROVE  WorkersInv'
<1>1. pc[w] = "addPromote" /\ TypeOK /\ StepFits(w) /\ Found(w) /\ Written(w)
  BY DEF AddPromote, WorkersInv, WorkerOK
<1> DEFINE p == req[w].phone
           row == [phone[p] EXCEPT !.status = "used"]
<1>2. req[w].op = "add" /\ p \in Phones /\ phone[p] # Absent
  BY <1>1, RequestFields DEF StepFits, Found, Written,
       KnownSteps, ReadSteps, AddSteps, RemoveSteps, ImportSteps, UpdateSteps, SpamSteps, db
<1>3. phone[p] \in Pool!PhoneRows /\ Settled(phone[p])
  BY <1>1, <1>2 DEF TypeOK, Pool!TypeOK, SessionsInv, FlagsSettled, Settled
<1>4. row \in Pool!PhoneRows /\ Settled(row)
  BY <1>3, PromotedType
<1>5. /\ pc' = [pc EXCEPT ![w] = "addLink"]
      /\ UNCHANGED <<db, req, seen, todo, wLink, wClosed>>
  BY DEF AddPromote, Goto
<1> HIDE DEF row, p
<1>6. CASE seen[w].status = "used"
  <2>1. UNCHANGED wPhone
    BY <1>6 DEF AddPromote
  <2>2. TypeOK' /\ Others(w)
    BY <1>1, <1>5, <2>1 DEF TypeOK, Pool!TypeOK, Steps, db, Others
  <2>3. WorkerOK(w)'
    BY <1>1, <1>5, <2>1 DEF TypeOK, WorkerOK, StepFits, Found, Written,
       KnownSteps, ReadSteps, AddSteps, RemoveSteps, ImportSteps, UpdateSteps, SpamSteps, db
  <2> QED
    BY <1>5, <2>1, <2>2, <2>3, ReadingStep
<1>7. CASE seen[w].status # "used"
  <2>1. wPhone' = [wPhone EXCEPT ![w] = row]
    BY <1>7 DEF AddPromote, WritePhone, row, p
  <2>2. TypeOK' /\ Others(w)
    BY <1>1, <1>4, <1>5, <2>1 DEF TypeOK, Pool!TypeOK, Steps, db, Others
  <2>3. WorkerOK(w)'
    BY <1>1, <1>2, <1>4, <1>5, <2>1 DEF TypeOK, WorkerOK, StepFits, Found, Written,
       KnownSteps, ReadSteps, AddSteps, RemoveSteps, ImportSteps, UpdateSteps, SpamSteps, db
  <2>4. Granted(w)
    BY DEF AddPromote
  <2>5. \A v \in Workers \ {w} : Apart(v, w)'
    BY <1>1, <1>5, <1>7, <2>1, <2>2, <2>4 DEF TypeOK, Others, Granted, WaitsFor, PhoneWriters, Writes, WorkersInv, RowsApart, Apart
  <2> QED
    BY <1>5, <2>2, <2>3, <2>5, LocalStep
<1> QED
  BY <1>6, <1>7

LEMMA AddLinkInv ==
  ASSUME WorkersInv, NEW w \in Workers, AddLink(w)
  PROVE  WorkersInv'
<1>1. pc[w] = "addLink" /\ TypeOK /\ StepFits(w) /\ Found(w) /\ Written(w)
  BY DEF AddLink, WorkersInv, WorkerOK
<1> DEFINE between == Pool!LinksBetween(req[w].route, req[w].phone)
<1>2. CASE between # {}
  BY <1>2, RollbackInv DEF AddLink
<1>3. CASE between = {}
  <2>1. PICK l \in LinkIds :
          /\ link[l] = Absent
          /\ \A v \in Workers : wLink[v] # l
          /\ wLink' = [wLink EXCEPT ![w] = l]
    BY <1>3 DEF AddLink
  <2>2. /\ pc' = [pc EXCEPT ![w] = "commit"]
        /\ UNCHANGED <<db, req, seen, todo, wPhone, wClosed>>
    BY <1>3 DEF AddLink, Goto
  <2>3. TypeOK' /\ Others(w)
    BY <1>1, <2>1, <2>2 DEF TypeOK, Pool!TypeOK, Steps, db, Others
  <2>4. between' = {}
    BY <1>3, <2>2 DEF Pool!LinksBetween, Pool!LinksOfPhone, Pool!ActiveLinks, db
  <2>5. WorkerOK(w)'
    BY <1>1, <2>1, <2>2, <2>4 DEF TypeOK, WorkerOK, StepFits, Found, Written,
       KnownSteps, ReadSteps, AddSteps, RemoveSteps, ImportSteps, UpdateSteps, SpamSteps, db
  <2>6. IndexHolders(w, req[w].route, req[w].phone) = {}
    BY <1>1 DEF AddLink, Granted, WaitsFor
  <2>7. \A v \in Workers \ {w} : Apart(v, w)'
    BY <1>1, <2>1, <2>2, <2>3, <2>6 DEF TypeOK, Others, IndexHolders, WorkersInv, RowsApart, Apart
  <2> QED
    BY <2>2, <2>3, <2>5, <2>7, LocalStep
<1> QED
  BY <1>2, <1>3

LEMMA RemoveSelectInv ==
  ASSUME WorkersInv, NEW w \in Workers, RemoveSelect(w)
  PROVE  WorkersInv'
<1>1. pc[w] = "remSelect" /\ TypeOK /\ StepFits(w) /\ Found(w) /\ Written(w)
  BY DEF RemoveSelect, WorkersInv, WorkerOK
<1>2. todo[w] # <<>> =>
        /\ Head(todo[w]) \in LinkIds /\ link[Head(todo[w])] # Absent
        /\ Tail(todo[w]) \in LinkLists
        /\ \A i \in 1 .. Len(Tail(todo[w])) : link[Tail(todo[w])[i]] # Absent
  BY <1>1, ListOfKnown DEF TypeOK, Found
<1>3. UNCHANGED <<db, req, seen, wPhone, wLink, wClosed>>
  BY DEF RemoveSelect
<1>4. \/ pc' = [pc EXCEPT ![w] = "commit"] /\ UNCHANGED todo
      \/ todo[w] # <<>> /\ pc' = [pc EXCEPT ![w] = "remClose"] /\ UNCHANGED todo
      \/ todo[w] # <<>> /\ todo' = [todo EXCEPT ![w] = Tail(todo[w])] /\ UNCHANGED pc
  BY DEF RemoveSelect, Goto
<1>5. TypeOK' /\ Others(w)
  BY <1>1, <1>2, <1>3, <1>4 DEF TypeOK, Pool!TypeOK, Steps, db, Others
<1>6. WorkerOK(w)'
  <2>1. CASE UNCHANGED todo
    BY <1>1, <1>3, <1>4, <2>1 DEF TypeOK, WorkerOK, StepFits, Found, Written,
       KnownSteps, ReadSteps, AddSteps, RemoveSteps, ImportSteps, UpdateSteps, SpamSteps, db
  <2>2. CASE todo[w] # <<>> /\ todo' = [todo EXCEPT ![w] = Tail(todo[w])] /\ UNCHANGED pc
    BY <1>1, <1>2, <1>3, <2>2 DEF TypeOK, WorkerOK, StepFits, Found, Written,
       KnownSteps, ReadSteps, AddSteps, RemoveSteps, ImportSteps, UpdateSteps, SpamSteps, db
  <2> QED
    BY <1>4, <2>1, <2>2
<1> QED
  BY <1>3, <1>5, <1>6, ReadingStep

LEMMA RemoveLogInv ==
  ASSUME WorkersInv, NEW w \in Workers, RemoveLog(w)
  PROVE  WorkersInv'
<1>1. pc[w] = "remLog" /\ TypeOK /\ StepFits(w) /\ Found(w) /\ Written(w)
  BY DEF RemoveLog, WorkersInv, WorkerOK
<1>2. todo[w] # <<>> =>
        /\ Head(todo[w]) \in LinkIds /\ link[Head(todo[w])] # Absent
        /\ Tail(todo[w]) \in LinkLists
        /\ \A i \in 1 .. Len(Tail(todo[w])) : link[Tail(todo[w])[i]] # Absent
  BY <1>1, ListOfKnown DEF TypeOK, Found
<1>3. /\ todo' = [todo EXCEPT ![w] = Tail(todo[w])]
      /\ pc' = [pc EXCEPT ![w] = "remSelect"]
      /\ UNCHANGED <<db, req, seen, wPhone, wLink, wClosed>>
  BY DEF RemoveLog, Goto
<1>4. todo[w] # <<>>
  BY <1>1 DEF Found
<1>5. TypeOK' /\ Others(w)
  BY <1>1, <1>2, <1>3, <1>4 DEF TypeOK, Pool!TypeOK, Steps, db, Others
<1>6. WorkerOK(w)'
  BY <1>1, <1>2, <1>3, <1>4 DEF TypeOK, WorkerOK, StepFits, Found, Written,
       KnownSteps, ReadSteps, AddSteps, RemoveSteps, ImportSteps, UpdateSteps, SpamSteps, db
<1> QED
  BY <1>3, <1>5, <1>6, ReadingStep

LEMMA RemoveCloseInv ==
  ASSUME WorkersInv, NEW w \in Workers, RemoveClose(w)
  PROVE  WorkersInv'
<1>1. pc[w] = "remClose" /\ TypeOK /\ StepFits(w) /\ Found(w) /\ Written(w)
  BY DEF RemoveClose, WorkersInv, WorkerOK
<1>2. todo[w] # <<>> =>
        /\ Head(todo[w]) \in LinkIds /\ link[Head(todo[w])] # Absent
        /\ Tail(todo[w]) \in LinkLists
        /\ \A i \in 1 .. Len(Tail(todo[w])) : link[Tail(todo[w])[i]] # Absent
  BY <1>1, ListOfKnown DEF TypeOK, Found
<1>3. /\ wClosed' = [wClosed EXCEPT ![w] = wClosed[w] \cup {Head(todo[w])}]
      /\ pc' = [pc EXCEPT ![w] = "remLog"]
      /\ UNCHANGED <<db, req, seen, todo, wPhone, wLink>>
  BY DEF RemoveClose, Goto
<1>4. todo[w] # <<>>
  BY <1>1 DEF Found
<1>5. TypeOK' /\ Others(w)
  BY <1>1, <1>2, <1>3, <1>4 DEF TypeOK, Pool!TypeOK, Steps, db, Others
<1>6. WorkerOK(w)'
  BY <1>1, <1>2, <1>3, <1>4 DEF TypeOK, WorkerOK, StepFits, Found, Written,
       KnownSteps, ReadSteps, AddSteps, RemoveSteps, ImportSteps, UpdateSteps, SpamSteps, db
<1>7. LinkHolders(w, Head(todo[w])) = {}
  BY <1>1, <1>4 DEF RemoveClose, Granted, WaitsFor
<1>8. \A v \in Workers \ {w} : Apart(v, w)'
  BY <1>1, <1>3, <1>5, <1>7 DEF TypeOK, Others, LinkHolders, WorkersInv, RowsApart, Apart
<1> QED
  BY <1>3, <1>5, <1>6, <1>8, LocalStep

LEMMA UpdateWriteInv ==
  ASSUME WorkersInv, NEW w \in Workers, UpdateWrite(w)
  PROVE  WorkersInv'
<1>1. pc[w] = "updWrite" /\ TypeOK /\ StepFits(w) /\ Found(w) /\ Written(w)
  BY DEF UpdateWrite, WorkersInv, WorkerOK
<1> DEFINE p == req[w].phone
           row == Pool!UpdatedRow(seen[w], phone[p], req[w].form)
<1>2. /\ req[w].op \in {"update", "import"} /\ p \in Phones /\ phone[p] \in Pool!PhoneRows
      /\ req[w].form \in Pool!PhoneForms
  BY <1>1, RequestFields DEF TypeOK, Pool!TypeOK, StepFits, Found, Written,
       KnownSteps, ReadSteps, AddSteps, RemoveSteps, ImportSteps, UpdateSteps, SpamSteps, db
<1>3. row \in Pool!PhoneRows /\ Settled(row)
  BY <1>1, <1>2, UpdatedType, UpdatedSettled DEF Found, ReadSteps
<1>4. /\ wPhone' = [wPhone EXCEPT ![w] = row]
      /\ \E step \in {"updCollect", "commit"} : pc' = [pc EXCEPT ![w] = step]
      /\ UNCHANGED <<db, req, seen, todo, wLink, wClosed>>
  BY DEF UpdateWrite, WritePhone, Goto
<1> HIDE DEF row, p
<1>5. TypeOK' /\ Others(w)
  BY <1>1, <1>3, <1>4 DEF TypeOK, Pool!TypeOK, Steps, db, Others
<1>6. WorkerOK(w)'
  BY <1>1, <1>2, <1>3, <1>4 DEF TypeOK, WorkerOK, StepFits, Found, Written,
       KnownSteps, ReadSteps, AddSteps, RemoveSteps, ImportSteps, UpdateSteps, SpamSteps, db
<1>7. Granted(w)
  BY DEF UpdateWrite
<1>8. \A v \in Workers \ {w} : Apart(v, w)'
  BY <1>1, <1>4, <1>5, <1>7 DEF TypeOK, Others, Granted, WaitsFor, PhoneWriters, Writes, WorkersInv, RowsApart, Apart
<1> QED
  BY <1>4, <1>5, <1>6, <1>8, LocalStep

LEMMA UpdateCollectInv ==
  ASSUME WorkersInv, NEW w \in Workers, UpdateCollect(w)
  PROVE  WorkersInv'
<1>1. pc[w] = "updCollect" /\ TypeOK /\ StepFits(w) /\ Found(w) /\ Written(w)
  BY DEF UpdateCollect, WorkersInv, WorkerOK
<1>2. PICK list \in Orders(Pool!LinksOfPhone(req[w].phone)) :
        todo' = [todo EXCEPT ![w] = list]
  BY DEF UpdateCollect
<1>3. /\ pc' = [pc EXCEPT ![w] = "updClose"]
      /\ UNCHANGED <<db, req, seen, wPhone, wLink, wClosed>>
  BY DEF UpdateCollect, Goto
<1>4. \A l \in Pool!LinksOfPhone(req[w].phone) : l \in LinkIds /\ link[l] # Absent
  BY DEF Pool!LinksOfPhone, Pool!ActiveLinks
<1>5. list \in LinkLists /\ \A i \in 1 .. Len(list) : link[list[i]] # Absent
  <2>1. Pool!LinksOfPhone(req[w].phone) \in SUBSET LinkIds
    BY <1>4
  <2>2. list \in LinkLists /\ list \in Seq(Pool!LinksOfPhone(req[w].phone))
    BY <2>1, ListType
  <2> QED
    BY <1>4, <2>2
<1>6. TypeOK' /\ Others(w)
  BY <1>1, <1>2, <1>3, <1>5 DEF TypeOK, Pool!TypeOK, Steps, db, Others
<1>7. WorkerOK(w)'
  BY <1>1, <1>2, <1>3, <1>5 DEF TypeOK, WorkerOK, StepFits, Found, Written,
       KnownSteps, ReadSteps, AddSteps, RemoveSteps, ImportSteps, UpdateSteps, SpamSteps, db
<1> QED
  BY <1>3, <1>6, <1>7, ReadingStep

LEMMA UpdateCloseInv ==
  ASSUME WorkersInv, NEW w \in Workers, UpdateClose(w)
  PROVE  WorkersInv'
<1>1. pc[w] = "updClose" /\ TypeOK /\ StepFits(w) /\ Found(w) /\ Written(w)
  BY DEF UpdateClose, WorkersInv, WorkerOK
<1>2. todo[w] # <<>> =>
        /\ Head(todo[w]) \in LinkIds /\ link[Head(todo[w])] # Absent
        /\ Tail(todo[w]) \in LinkLists
        /\ \A i \in 1 .. Len(Tail(todo[w])) : link[Tail(todo[w])[i]] # Absent
  BY <1>1, ListOfKnown DEF TypeOK, Found
<1>3. UNCHANGED <<db, req, seen, wPhone, wLink>>
  BY DEF UpdateClose
<1>4. CASE todo[w] = <<>>
  <2>1. pc' = [pc EXCEPT ![w] = "commit"] /\ UNCHANGED <<todo, wClosed>>
    BY <1>4 DEF UpdateClose, Goto
  <2>2. TypeOK' /\ Others(w)
    BY <1>1, <1>3, <2>1 DEF TypeOK, Pool!TypeOK, Steps, db, Others
  <2>3. WorkerOK(w)'
    BY <1>1, <1>3, <2>1 DEF TypeOK, WorkerOK, StepFits, Found, Written,
       KnownSteps, ReadSteps, AddSteps, RemoveSteps, ImportSteps, UpdateSteps, SpamSteps, db
  <2> QED
    BY <1>3, <2>1, <2>2, <2>3, ReadingStep
<1>5. CASE todo[w] # <<>>
  <2>1. /\ wClosed' = [wClosed EXCEPT ![w] = wClosed[w] \cup {Head(todo[w])}]
        /\ todo' = [todo EXCEPT ![w] = Tail(todo[w])]
        /\ UNCHANGED pc /\ Granted(w)
    BY <1>5 DEF UpdateClose
  <2>2. TypeOK' /\ Others(w)
    BY <1>1, <1>2, <1>3, <1>5, <2>1 DEF TypeOK, Pool!TypeOK, Steps, db, Others
  <2>3. WorkerOK(w)'
    BY <1>1, <1>2, <1>3, <1>5, <2>1 DEF TypeOK, WorkerOK, StepFits, Found, Written,
       KnownSteps, ReadSteps, AddSteps, RemoveSteps, ImportSteps, UpdateSteps, SpamSteps, db
  <2>4. LinkHolders(w, Head(todo[w])) = {}
    BY <1>1, <1>5, <2>1 DEF Granted, WaitsFor
  <2>5. \A v \in Workers \ {w} : Apart(v, w)'
    BY <1>1, <1>3, <2>1, <2>2, <2>4 DEF TypeOK, Others, LinkHolders, WorkersInv, RowsApart, Apart
  <2> QED
    BY <1>3, <2>2, <2>3, <2>5, LocalStep
<1> QED
  BY <1>4, <1>5

LEMMA SpamLockInv ==
  ASSUME WorkersInv, FlagsSettled, NEW w \in Workers, SpamLock(w)
  PROVE  WorkersInv'
<1>1. pc[w] = "spamLock" /\ TypeOK /\ StepFits(w) /\ Found(w) /\ Written(w)
  BY DEF SpamLock, WorkersInv, WorkerOK
<1> DEFINE p == req[w].phone
<1>2. CASE phone[p] = Absent
  BY <1>2, RollbackInv DEF SpamLock
<1>3. CASE phone[p] # Absent
  <2>1. /\ seen' = [seen EXCEPT ![w] = phone[p]]
        /\ wPhone' = [wPhone EXCEPT ![w] = phone[p]]
        /\ pc' = [pc EXCEPT ![w] = "spamFlag"]
        /\ UNCHANGED <<db, req, todo, wLink, wClosed>>
    BY <1>3 DEF SpamLock, WritePhone, Goto, Read
  <2>2. req[w].op = "spam" /\ p \in Phones
    BY <1>1, RequestFields DEF StepFits, SpamSteps
  <2>3. phone[p] \in Pool!PhoneRows /\ Settled(phone[p])
    BY <1>1, <1>3, <2>2 DEF TypeOK, Pool!TypeOK, FlagsSettled, Settled
  <2>4. TypeOK' /\ Others(w)
    BY <1>1, <2>1, <2>3 DEF TypeOK, Pool!TypeOK, Steps, db, Others
  <2>5. WorkerOK(w)'
    BY <1>1, <1>3, <2>1, <2>2, <2>3 DEF TypeOK, WorkerOK, StepFits, Found, Written,
       KnownSteps, ReadSteps, AddSteps, RemoveSteps, ImportSteps, UpdateSteps, SpamSteps, db
  <2>6. Granted(w)
    BY DEF SpamLock
  <2>7. \A v \in Workers \ {w} : Apart(v, w)'
    BY <1>1, <2>1, <2>4, <2>6 DEF TypeOK, Others, Granted, WaitsFor, PhoneWriters, Writes, WorkersInv, RowsApart, Apart
  <2> QED
    BY <2>1, <2>4, <2>5, <2>7, LocalStep
<1> QED
  BY <1>2, <1>3

LEMMA SpamFlagInv ==
  ASSUME WorkersInv, NEW w \in Workers, SpamFlag(w)
  PROVE  WorkersInv'
<1>1. pc[w] = "spamFlag" /\ TypeOK /\ StepFits(w) /\ Found(w) /\ Written(w)
  BY DEF SpamFlag, WorkersInv, WorkerOK
<1> DEFINE row == Pool!SpamFlagged(seen[w])
<1>2. req[w].op = "spam"
  BY <1>1 DEF StepFits, SpamSteps
<1>3. row \in Pool!PhoneRows /\ Settled(row)
  BY <1>1, PromotedType DEF Found, ReadSteps
<1>4. /\ wPhone' = [wPhone EXCEPT ![w] = row]
      /\ pc' = [pc EXCEPT ![w] = "commit"]
      /\ UNCHANGED <<db, req, seen, todo, wLink, wClosed>>
  BY DEF SpamFlag, WritePhone, Goto
<1> HIDE DEF row
<1>5. TypeOK' /\ Others(w)
  BY <1>1, <1>3, <1>4 DEF TypeOK, Pool!TypeOK, Steps, db, Others
<1>6. WorkerOK(w)'
  BY <1>1, <1>2, <1>3, <1>4 DEF TypeOK, WorkerOK, StepFits, Found, Written,
       KnownSteps, ReadSteps, AddSteps, RemoveSteps, ImportSteps, UpdateSteps, SpamSteps, db
<1>7. wPhone[w] # Absent
  BY <1>1 DEF Found
<1>8. \A v \in Workers \ {w} : Apart(v, w)'
  BY <1>1, <1>4, <1>5, <1>7 DEF TypeOK, Others, WorkersInv, RowsApart, Apart
<1> QED
  BY <1>4, <1>5, <1>6, <1>8, LocalStep

--------------------------------------------------------------------------------
(* The commit makes the writes of one worker visible to the others.        *)

LEMMA CommitType ==
  ASSUME WorkersInv, NEW w \in Workers, Commit(w)
  PROVE  /\ Pool!TypeOK'
         /\ \A p \in Phones :
               /\ wPhone[w] # Absent /\ p = req[w].phone => phone'[p] = wPhone[w]
               /\ ~(wPhone[w] # Absent /\ p = req[w].phone) => phone'[p] = phone[p]
         /\ wLink[w] # Absent => /\ link'[wLink[w]] \in Pool!LinkRows
                                /\ link'[wLink[w]].route = req[w].route
                                /\ link'[wLink[w]].phone = req[w].phone
                                /\ link'[wLink[w]].is_active
         /\ \A l \in wClosed[w] :
               /\ l # wLink[w] /\ link[l] # Absent /\ link'[l] \in Pool!LinkRows
               /\ link'[l] = [link[l] EXCEPT !.is_active = FALSE] /\ ~link'[l].is_active
         /\ \A l \in LinkIds : l # wLink[w] /\ l \notin wClosed[w] => link'[l] = link[l]
         /\ \A l \in LinkIds : link'[l] # Absent <=> link[l] # Absent \/ l = wLink[w]
<1>1. TypeOK /\ pc[w] = "commit" /\ StepFits(w) /\ Written(w)
  BY DEF Commit, WorkersInv, WorkerOK
<1>2. \A p \in Phones :
        /\ wPhone[w] # Absent /\ p = req[w].phone => phone'[p] = wPhone[w]
        /\ ~(wPhone[w] # Absent /\ p = req[w].phone) => phone'[p] = phone[p]
  BY <1>1 DEF Commit, TypeOK, Pool!TypeOK
<1>3. phone' \in [Phones -> Pool!PhoneRows \cup {Absent}]
  <2>1. wPhone[w] # Absent => wPhone[w] \in Pool!PhoneRows
    BY <1>1 DEF TypeOK
  <2> QED
    BY <1>1, <2>1 DEF Commit, TypeOK, Pool!TypeOK
<1>4. \A l \in wClosed[w] : /\ l \in LinkIds /\ l # wLink[w] /\ link[l] # Absent
                            /\ link[l] \in Pool!LinkRows
  BY <1>1, AbsentAssumption DEF Written, TypeOK, Pool!TypeOK
<1>5. ASSUME NEW l \in LinkIds
      PROVE  /\ l = wLink[w] => link'[l] = [route |-> req[w].route, phone |-> req[w].phone,
                                            is_active |-> TRUE]
             /\ l # wLink[w] /\ l \in wClosed[w] => link'[l] = [link[l] EXCEPT !.is_active = FALSE]
             /\ l # wLink[w] /\ l \notin wClosed[w] => link'[l] = link[l]
  <2>1. link'[l] = CASE l = wLink[w] -> [route |-> req[w].route, phone |-> req[w].phone,
                                         is_active |-> TRUE]
                     [] l \in wClosed[w] -> [link[l] EXCEPT !.is_active = FALSE]
                     [] OTHER -> link[l]
    BY DEF Commit
  <2> QED
    BY <1>4, <2>1
<1>6. \A l \in wClosed[w] : link'[l] \in Pool!LinkRows /\ ~link'[l].is_active
  <2> SUFFICES ASSUME NEW l \in wClosed[w]
               PROVE  link'[l] \in Pool!LinkRows /\ ~link'[l].is_active
    OBVIOUS
  <2>1. link'[l] = [link[l] EXCEPT !.is_active = FALSE] /\ link[l] \in Pool!LinkRows
    BY <1>4, <1>5
  <2> QED
    BY <2>1 DEF Pool!LinkRows
<1>7. wLink[w] # Absent => /\ wLink[w] \in LinkIds /\ link'[wLink[w]] \in Pool!LinkRows
                           /\ link'[wLink[w]].route = req[w].route
                           /\ link'[wLink[w]].phone = req[w].phone
                           /\ link'[wLink[w]].is_active
  <2> DEFINE new == [route |-> req[w].route, phone |-> req[w].phone, is_active |-> TRUE]
  <2>1. wLink[w] # Absent =>
          wLink[w] \in LinkIds /\ req[w].route \in Routes /\ req[w].phone \in Phones
    BY <1>1, RequestFields DEF Written, StepFits, TypeOK
  <2>2. wLink[w] # Absent => new \in Pool!LinkRows
    BY <2>1 DEF Pool!LinkRows
  <2>3. new.route = req[w].route /\ new.phone = req[w].phone /\ new.is_active
    OBVIOUS
  <2>4. wLink[w] # Absent => link'[wLink[w]] = new
    BY <1>5, <2>1
  <2> QED
    BY <2>1, <2>2, <2>3, <2>4
<1>8. link' \in [LinkIds -> Pool!LinkRows \cup {Absent}]
  <2>1. \A l \in LinkIds : link'[l] \in Pool!LinkRows \cup {Absent}
    <3> SUFFICES ASSUME NEW l \in LinkIds
                 PROVE  link'[l] \in Pool!LinkRows \cup {Absent}
      OBVIOUS
    <3>1. CASE l = wLink[w]
      BY <1>7, <3>1, AbsentAssumption
    <3>2. CASE l \in wClosed[w]
      BY <1>6, <3>2
    <3>3. CASE l # wLink[w] /\ l \notin wClosed[w]
      BY <1>1, <1>5, <3>3 DEF TypeOK, Pool!TypeOK
    <3> QED
      BY <3>1, <3>2, <3>3
  <2>2. link' = [l \in LinkIds |-> link'[l]]
    BY DEF Commit
  <2> QED
    BY <2>1, <2>2
<1>9. closings' \in [LinkIds -> Nat]
  BY <1>1 DEF Commit, TypeOK, Pool!TypeOK
<1>10. \A l \in LinkIds : link'[l] # Absent <=> link[l] # Absent \/ l = wLink[w]
  <2>1. wLink[w] \in LinkIds => link'[wLink[w]] # Absent
    BY <1>7, AbsentAssumption
  <2>2. \A l \in wClosed[w] : link'[l] # Absent
    BY <1>6, AbsentAssumption
  <2> QED
    BY <1>4, <1>5, <2>1, <2>2
<1>11. Pool!TypeOK'
  BY <1>3, <1>8, <1>9 DEF Pool!TypeOK
<1> QED
  BY <1>2, <1>4, <1>5, <1>6, <1>7, <1>10, <1>11

\* What the other workers know stays true.
LEMMA CommitOthers ==
  ASSUME WorkersInv, NEW w \in Workers, Commit(w), NEW v \in Workers \ {w}
  PROVE  WorkerOK(v)'
<1>1. TypeOK /\ pc[w] = "commit" /\ StepFits(w) /\ Written(w) /\ WorkerOK(v) /\ Apart(v, w)
  BY DEF Commit, WorkersInv, WorkerOK, RowsApart
<1>2. /\ pc'[v] = pc[v] /\ req'[v] = req[v] /\ seen'[v] = seen[v] /\ todo'[v] = todo[v]
      /\ wPhone'[v] = wPhone[v] /\ wLink'[v] = wLink[v] /\ wClosed'[v] = wClosed[v]
  BY <1>1, CommitType, EndEffect DEF Commit, Others
<1>3. CASE pc[v] = "idle"
  BY <1>1, <1>2, <1>3 DEF WorkerOK, Resting
<1>4. CASE pc[v] # "idle"
  <2>1. StepFits(v) /\ Found(v) /\ Written(v)
    BY <1>1, <1>4 DEF WorkerOK
  <2>2. StepFits(v)'
    BY <1>2, <2>1 DEF StepFits
  <2>3. Found(v)'
    <3>1. pc[v] \in KnownSteps => req[v].phone \in Phones
      BY <2>1, RequestFields
         DEF StepFits, KnownSteps, ReadSteps, AddSteps, ImportSteps, UpdateSteps, SpamSteps
    <3>2. pc[v] \in KnownSteps => phone'[req[v].phone] # Absent
      BY <1>1, <2>1, <3>1, CommitType DEF Found
    <3>3. \A i \in 1 .. Len(todo[v]) : todo[v][i] \in LinkIds /\ link'[todo[v][i]] # Absent
      BY <1>1, <2>1, CommitType, LinkListType DEF Found, TypeOK
    <3> QED
      BY <1>2, <2>1, <3>2, <3>3 DEF Found
  <2>4. Written(v)'
    <3>1. ASSUME wLink[v] # Absent
          PROVE  /\ wLink[v] \in LinkIds /\ link'[wLink[v]] = Absent
                 /\ Pool!LinksBetween(req[v].route, req[v].phone)' = {}
      <4>1. wLink[v] \in LinkIds /\ link[wLink[v]] = Absent /\ wLink[v] # wLink[w]
        BY <1>1, <2>1, <3>1 DEF Written, TypeOK, Apart
      <4>2. link'[wLink[v]] = Absent
        BY <4>1, CommitType
      <4>3. ASSUME NEW l \in LinkIds, link'[l] # Absent, link'[l].is_active,
                   link'[l].phone = req[v].phone, link'[l].route = req[v].route
            PROVE  FALSE
        <5>1. CASE l = wLink[w]
          <6>1. wLink[w] # Absent
            BY <4>3, <5>1, AbsentAssumption
          <6>2. link'[l].route = req[w].route /\ link'[l].phone = req[w].phone
            BY <5>1, <6>1, CommitType
          <6> QED
            BY <1>1, <3>1, <4>3, <6>1, <6>2 DEF Apart
        <5>2. CASE l # wLink[w]
          <6>1. \A k \in wClosed[w] : ~link'[k].is_active
            BY CommitType
          <6>2. l \notin wClosed[w] /\ link'[l] = link[l]
            BY <4>3, <5>2, <6>1, CommitType
          <6>3. l \in Pool!LinksBetween(req[v].route, req[v].phone)
            BY <4>3, <6>2 DEF Pool!LinksBetween, Pool!LinksOfPhone, Pool!ActiveLinks
          <6> QED
            BY <2>1, <3>1, <6>3 DEF Written
        <5> QED
          BY <5>1, <5>2
      <4>4. Pool!LinksBetween(req[v].route, req[v].phone)' = {}
        BY <1>2, <4>3 DEF Pool!LinksBetween, Pool!LinksOfPhone, Pool!ActiveLinks
      <4> QED
        BY <4>1, <4>2, <4>4
    <3>2. \A l \in wClosed[v] : l \in LinkIds /\ link'[l] # Absent
      BY <1>1, <2>1, CommitType DEF Written, TypeOK
    <3>3. wPhone[v] # Absent =>
            /\ pc[v] \in {"addLink", "updCollect", "updClose", "spamFlag", "commit"}
            /\ req[v].op # "remove" /\ Settled(wPhone[v])
      BY <2>1 DEF Written
    <3>4. wLink[v] # Absent => pc[v] = "commit" /\ req[v].op = "add"
      BY <2>1 DEF Written
    <3> QED
      BY <1>2, <3>1, <3>2, <3>3, <3>4 DEF Written, Pool!LinksBetween, Pool!LinksOfPhone, Pool!ActiveLinks
  <2> QED
    BY <1>2, <1>4, <2>2, <2>3, <2>4 DEF WorkerOK
<1> QED
  BY <1>3, <1>4

LEMMA CommitInv ==
  ASSUME WorkersInv, NEW w \in Workers, Commit(w)
  PROVE  WorkersInv'
<1>1. TypeOK /\ EndSession(w)
  BY DEF Commit, WorkersInv
<1>2. TypeOK' /\ Others(w) /\ WorkerOK(w)' /\ \A v \in Workers \ {w} : Apart(v, w)'
  BY <1>1, CommitType, EndEffect
<1>3. \A v \in Workers \ {w} : WorkerOK(v)'
  BY CommitOthers
<1>4. \A u, v \in Workers \ {w} : u # v => Apart(u, v)'
  BY <1>2 DEF WorkersInv, RowsApart, Apart, Others
<1>5. \A v \in Workers \ {w} : Apart(w, v)'
  BY <1>2 DEF Apart
<1>6. RowsApart'
  BY <1>2, <1>4, <1>5 DEF RowsApart
<1> QED
  BY <1>2, <1>3, <1>6 DEF WorkersInv

\* What is committed agrees with the properties.
LEMMA CommitSafe ==
  ASSUME SessionsInv, NEW w \in Workers, Commit(w)
  PROVE  ActiveLinkUnique' /\ FlagsSettled' /\ ClosingsLogged'
<1>1. WorkersInv /\ TypeOK /\ pc[w] = "commit" /\ StepFits(w) /\ Written(w)
  BY DEF Commit, SessionsInv, WorkersInv, WorkerOK
<1>2. FlagsSettled'
  <2> SUFFICES ASSUME NEW p \in Phones, phone'[p] # Absent
               PROVE  Settled(phone'[p])
    BY DEF FlagsSettled, Settled
  <2>1. CASE wPhone[w] # Absent /\ p = req[w].phone
    BY <1>1, <2>1, CommitType DEF Written
  <2>2. CASE ~(wPhone[w] # Absent /\ p = req[w].phone)
    BY <1>1, <2>2, CommitType DEF SessionsInv, FlagsSettled, Settled
  <2> QED
    BY <2>1, <2>2
<1>3. ActiveLinkUnique'
  <2>1. ASSUME NEW l \in LinkIds, link'[l] # Absent, link'[l].is_active, l # wLink[w]
        PROVE  link'[l] = link[l] /\ l \in Pool!ActiveLinks
    <3>1. l \notin wClosed[w] /\ link'[l] = link[l]
      BY <1>1, <2>1, CommitType
    <3> QED
      BY <2>1, <3>1 DEF Pool!ActiveLinks
  <2>2. ASSUME NEW l \in LinkIds, link'[l] # Absent, link'[l].is_active, l # wLink[w],
               wLink[w] # Absent, link'[l].route = req[w].route, link'[l].phone = req[w].phone
        PROVE  FALSE
    <3>1. l \in Pool!LinksBetween(req[w].route, req[w].phone)
      BY <2>1, <2>2 DEF Pool!LinksBetween, Pool!LinksOfPhone
    <3> QED
      BY <1>1, <2>2, <3>1 DEF Written
  <2>3. \A l \in LinkIds : l = wLink[w] =>
          wLink[w] # Absent /\ link'[l].route = req[w].route /\ link'[l].phone = req[w].phone
    BY <1>1, CommitType, AbsentAssumption
  <2>4. \A l \in Pool!ActiveLinks' : l \in LinkIds /\ link'[l] # Absent /\ link'[l].is_active
    BY DEF Pool!ActiveLinks
  <2> SUFFICES ASSUME NEW l \in Pool!ActiveLinks', NEW m \in Pool!ActiveLinks',
                      link'[l].route = link'[m].route, link'[l].phone = link'[m].phone
               PROVE  l = m
    BY DEF ActiveLinkUnique, Pool!ActiveLinkUnique
  <2>5. CASE l = wLink[w] \/ m = wLink[w]
    BY <2>2, <2>3, <2>4, <2>5
  <2>6. CASE l # wLink[w] /\ m # wLink[w]
    BY <2>1, <2>4, <2>6 DEF SessionsInv, ActiveLinkUnique, Pool!ActiveLinkUnique
  <2> QED
    BY <2>5, <2>6
<1>4. ClosingsLogged'
  <2> SUFFICES ASSUME NEW l \in LinkIds
               PROVE  closings'[l] > 0 <=> (link'[l] # Absent /\ ~link'[l].is_active)
    BY DEF ClosingsLogged
  <2>1. closings[l] \in Nat /\ (closings[l] > 0 <=> (link[l] # Absent /\ ~link[l].is_active))
    BY <1>1 DEF SessionsInv, ClosingsLogged, TypeOK, Pool!TypeOK
  <2>2. closings'[l] = closings[l] + (IF l \in wClosed[w] THEN 1 ELSE 0)
    BY DEF Commit
  <2>3. CASE l \in wClosed[w]
    <3>1. link'[l] # Absent /\ ~link'[l].is_active
      BY <1>1, <2>3, CommitType
    <3> QED
      BY <2>1, <2>2, <2>3, <3>1
  <2>4. CASE l = wLink[w]
    <3>1. l \notin wClosed[w] /\ link[l] = Absent /\ link'[l].is_active
      BY <1>1, <2>4, CommitType, AbsentAssumption DEF Written
    <3> QED
      BY <2>1, <2>2, <3>1
  <2>5. CASE l \notin wClosed[w] /\ l # wLink[w]
    <3>1. link'[l] = link[l]
      BY <1>1, <2>5, CommitType
    <3> QED
      BY <2>1, <2>2, <2>5, <3>1
  <2> QED
    BY <2>3, <2>4, <2>5
<1> QED
  BY <1>2, <1>3, <1>4

--------------------------------------------------------------------------------
LEMMA SessionsInit == Init => SessionsInv
<1> SUFFICES ASSUME Init
             PROVE  SessionsInv
  OBVIOUS
<1>1. TypeOK
  <2>1. <<>> \in LinkLists
    BY LinkIdsAssumption, FS_EmptySet DEF LinkLists, Orders
  <2> QED
    BY <2>1 DEF Init, Pool!Init, TypeOK, Pool!TypeOK, Steps
<1>2. (\A w \in Workers : WorkerOK(w)) /\ RowsApart
  BY DEF Init, WorkerOK, Resting, RowsApart, Apart
<1>3. ActiveLinkUnique /\ FlagsSettled /\ ClosingsLogged
  BY DEF Init, Pool!Init, ActiveLinkUnique, Pool!ActiveLinkUnique, Pool!ActiveLinks,
     FlagsSettled, ClosingsLogged
<1> QED
  BY <1>1, <1>2, <1>3 DEF SessionsInv, WorkersInv

\* Only a commit changes the database.
LEMMA OnlyCommitWrites ==
  ASSUME NEW w \in Workers, Begin(w) \/ Step(w) \/ Disconnect(w), ~Commit(w)
  PROVE  UNCHANGED db
BY DEF Begin, Step, Disconnect, Rollback, InsertPhone, AddLookup, AddRead, AddCheck, AddPromote,
   AddLink, RemoveSelect, RemoveClose, RemoveLog, ImportRead, ImportLinks, UpdateRead,
   UpdateWrite, UpdateCollect, UpdateClose, SpamLock, SpamFlag

LEMMA SessionsStep == SessionsInv /\ [Next]_vars => SessionsInv'
<1> SUFFICES ASSUME SessionsInv, [Next]_vars
             PROVE  SessionsInv'
  OBVIOUS
<1>1. WorkersInv /\ FlagsSettled
  BY DEF SessionsInv
<1>2. ASSUME UNCHANGED db, WorkersInv'
      PROVE  SessionsInv'
  BY <1>2 DEF SessionsInv, db, ActiveLinkUnique, Pool!ActiveLinkUnique, Pool!ActiveLinks,
     FlagsSettled, ClosingsLogged
<1>3. CASE UNCHANGED vars
  <2>1. WorkersInv'
    BY <1>1, <1>3 DEF vars, db, session, WorkersInv, TypeOK, Pool!TypeOK, WorkerOK, Resting, StepFits,
       Found, Written, RowsApart, Apart, Pool!LinksBetween, Pool!LinksOfPhone, Pool!ActiveLinks
  <2> QED
    BY <1>2, <1>3, <2>1 DEF vars
<1>4. CASE Next
  <2>1. PICK w \in Workers : Begin(w) \/ Step(w) \/ Disconnect(w)
    BY <1>4 DEF Next
  <2>2. CASE Commit(w)
    BY <1>1, <2>2, CommitInv, CommitSafe DEF SessionsInv
  <2>3. CASE ~Commit(w)
    <3>1. WorkersInv'
      BY <1>1, <2>1, <2>3, BeginInv, RollbackInv, InsertPhoneInv, AddLookupInv, AddReadInv,
         AddCheckInv, AddPromoteInv, AddLinkInv, RemoveSelectInv, RemoveCloseInv, RemoveLogInv,
         ImportReadInv, ImportLinksInv, UpdateReadInv, UpdateWriteInv, UpdateCollectInv,
         UpdateCloseInv, SpamLockInv, SpamFlagInv DEF Step, Disconnect
    <3> QED
      BY <1>2, <2>1, <2>3, <3>1, OnlyCommitWrites
  <2> QED
    BY <2>2, <2>3
<1> QED
  BY <1>3, <1>4

LEMMA SessionsInvariant == Spec => []SessionsInv
BY SessionsInit, SessionsStep, PTL DEF Spec

\* Every state is one the columns and the steps of the requests allow.
THEOREM PhoneSessionsTyped == Spec => []TypeOK
<1>1. SessionsInv => TypeOK
  BY DEF SessionsInv, WorkersInv
<1> QED
  BY <1>1, SessionsInvariant, PTL

\* Two overlapping additions of a number to a route never both commit.
THEOREM LinksStayUnique == Spec => []ActiveLinkUnique
<1>1. SessionsInv => ActiveLinkUnique
  BY DEF SessionsInv
<1> QED
  BY <1>1, SessionsInvariant, PTL

\* A row that is computed from a stale read still has flags that agree.
THEOREM OverlappingFlagsSettled == Spec => []FlagsSettled
<1>1. SessionsInv => FlagsSettled
  BY DEF SessionsInv
<1> QED
  BY <1>1, SessionsInvariant, PTL

\* Links are closed with a row of history, and only active ones stay without.
THEOREM OverlappingClosingsLogged == Spec => []ClosingsLogged
<1>1. SessionsInv => ClosingsLogged
  BY DEF SessionsInv
<1> QED
  BY <1>1, SessionsInvariant, PTL

\* The row locks do what they are for: no two transactions have uncommitted
\* versions of one number, or close or insert the same link.
THEOREM RowsWrittenByOne == Spec => []RowsApart
<1>1. SessionsInv => RowsApart
  BY DEF SessionsInv, WorkersInv
<1> QED
  BY <1>1, SessionsInvariant, PTL

--------------------------------------------------------------------------------
(***************************************************************************)
(* Requests that keep to numbers of their own implement PhonePool: each    *)
(* commit is the request executed at once, every other step is a stutter.  *)
(***************************************************************************)
Disjoint == \A v, w \in Workers : v # w => Reach[v] \cap Reach[w] = {}

\* A create, add or spam request, an update and a removal of links: what is
\* known of the database while nobody else touches the number.
CreateOurs(w) ==
    /\ req[w].form \in Forms /\ wClosed[w] = {} /\ wLink[w] = Absent
    /\ req[w].form.provider_id \/ req[w].form.review_required
    /\ pc[w] = "commit" =>
          phone[req[w].phone] = Absent /\ wPhone[w] = Pool!CreatedRow(req[w].form)

AddOurs(w) ==
    LET row == phone[req[w].phone] IN
    /\ wClosed[w] = {}
    /\ pc[w] # "addLookup" => row # Absent
    /\ pc[w] \notin {"addLookup", "addRead"} => row.is_active
    /\ pc[w] \in {"addCheck", "addPromote"} => seen[w] = row
    /\ pc[w] \in {"addLink", "commit"} =>
          IF wPhone[w] = Absent THEN row.status = "used"
          ELSE wPhone[w] = [row EXCEPT !.status = "used"]
    /\ pc[w] = "commit" => wLink[w] # Absent

SpamOurs(w) ==
    LET row == phone[req[w].phone] IN
    /\ wClosed[w] = {} /\ wLink[w] = Absent
    /\ pc[w] = "spamFlag" => row # Absent /\ seen[w] = row
    /\ pc[w] = "commit" => row # Absent /\ wPhone[w] = Pool!SpamFlagged(row)

\* The form of an import is merged with what is stored.
FormOurs(w) ==
    IF req[w].op = "update" \/ pc[w] \in ImportSteps THEN req[w].form \in Forms
    ELSE \E f \in Forms : req[w].form =
            Pool!ImportForm(phone[req[w].phone], Pool!LinksOfPhone(req[w].phone) # {}, f)

UpdateOurs(w) ==
    LET row == phone[req[w].phone]
        links == Pool!LinksOfPhone(req[w].phone) IN
    /\ FormOurs(w) /\ wLink[w] = Absent
    /\ pc[w] \in {"impLinks", "updWrite"} => seen[w] = row
    /\ pc[w] \in {"updWrite", "updCollect", "updClose", "commit"} =>
          row # Absent /\ Pool!UpdateAccepted(row, req[w].form)
    /\ pc[w] \in {"updCollect", "updClose", "commit"} =>
          wPhone[w] = Pool!UpdatedRow(row, row, req[w].form)
    /\ pc[w] \in {"updCollect", "updClose"} => Pool!ClosesLinks(req[w].form)
    /\ pc[w] = "updClose" => wClosed[w] \cup Elements(todo[w]) = links
    /\ pc[w] = "commit" =>
          wClosed[w] = IF Pool!ClosesLinks(req[w].form) THEN links ELSE {}
    /\ pc[w] \notin {"updClose", "commit"} => wClosed[w] = {}

RemoveOurs(w) ==
    /\ wLink[w] = Absent /\ wPhone[w] = Absent
    /\ \A l \in wClosed[w] : link[l].is_active /\ link[l].route = req[w].route
    /\ pc[w] = "remClose" =>
          link[Head(todo[w])].is_active /\ link[Head(todo[w])].route = req[w].route

Ours(w) ==
    pc[w] # "idle" =>
        /\ req[w].op # "remove" => req[w].phone \in Reach[w]
        /\ \A l \in wClosed[w] \cup Elements(todo[w]) : link[l].phone \in Reach[w]
        /\ req[w].op = "create" => CreateOurs(w)
        /\ req[w].op = "add" => AddOurs(w)
        /\ req[w].op = "spam" => SpamOurs(w)
        /\ req[w].op \in {"update", "import"} => UpdateOurs(w)
        /\ req[w].op = "remove" => RemoveOurs(w)

LEMMA ElementsOfList ==
  ASSUME NEW list \in LinkLists
  PROVE  /\ Elements(list) \subseteq LinkIds
         /\ Elements(<<>>) = {}
         /\ list # <<>> => Elements(list) = {Head(list)} \cup Elements(Tail(list))
<1>1. list \in Seq(LinkIds)
  BY LinkListType
<1>2. Elements(list) \subseteq LinkIds /\ Elements(<<>>) = {}
  BY <1>1 DEF Elements
<1>3. ASSUME list # <<>>
      PROVE  Elements(list) = {Head(list)} \cup Elements(Tail(list))
  <2>1. Len(list) \in Nat \ {0} /\ Head(list) = list[1] /\ Len(Tail(list)) = Len(list) - 1
    BY <1>1, <1>3
  <2>2. \A i \in 1 .. Len(Tail(list)) : Tail(list)[i] = list[i + 1]
    BY <1>1, <1>3
  <2>3. \A i \in 1 .. Len(list) : i # 1 =>
           i - 1 \in 1 .. Len(Tail(list)) /\ list[i] = Tail(list)[i - 1]
    BY <2>1, <2>2
  <2>4. \A i \in 1 .. Len(Tail(list)) : i + 1 \in 1 .. Len(list)
    BY <2>1
  <2> QED
    BY <2>1, <2>2, <2>3, <2>4 DEF Elements
<1> QED
  BY <1>2, <1>3

LEMMA ElementsOfSet ==
  ASSUME NEW S \in SUBSET LinkIds, NEW list \in Orders(S)
  PROVE  Elements(list) = S
<1>1. /\ list \in Seq(S) /\ IsFiniteSet(S) /\ Len(list) = Cardinality(S)
      /\ \A i, j \in 1 .. Len(list) : i # j => list[i] # list[j]
  BY ListType
<1> DEFINE D == 1 .. Len(list)
<1>2. list \in [D -> S] /\ Len(list) \in Nat
  BY <1>1, LenProperties
<1>3. IsFiniteSet(D) /\ Cardinality(D) = Cardinality(S)
  BY <1>1, <1>2, FS_Interval
<1>4. ASSUME NEW x \in S, \A i \in D : list[i] # x
      PROVE  FALSE
  <2> DEFINE T == S \ {x}
  <2>1. IsFiniteSet(T) /\ Cardinality(T) = Cardinality(S) - 1 /\ Cardinality(S) \in Nat
    BY <1>1, FS_RemoveElement, FS_CardinalityType
  <2>2. list \in [D -> T]
    BY <1>2, <1>4
  <2> HIDE DEF D, T
  <2>3. Cardinality(T) < Cardinality(D)
    BY <1>3, <2>1
  <2>4. \E i, j \in D : i # j /\ list[i] = list[j]
    BY <1>3, <2>1, <2>2, <2>3, FS_PigeonHole
  <2> QED
    BY <1>1, <2>4 DEF D
<1> QED
  BY <1>2, <1>4 DEF Elements

\* What a worker knows holds while its own numbers and links do not change.
LEMMA OursFrame ==
  ASSUME TypeOK, NEW v \in Workers, WorkerOK(v), Ours(v),
         /\ pc'[v] = pc[v] /\ req'[v] = req[v] /\ seen'[v] = seen[v] /\ todo'[v] = todo[v]
         /\ wPhone'[v] = wPhone[v] /\ wLink'[v] = wLink[v] /\ wClosed'[v] = wClosed[v],
         \A p \in Reach[v] :
            phone'[p] = phone[p] /\ Pool!LinksOfPhone(p)' = Pool!LinksOfPhone(p),
         \A l \in LinkIds : link[l] # Absent /\ link[l].phone \in Reach[v] => link'[l] = link[l]
  PROVE  Ours(v)'
<1> SUFFICES ASSUME pc[v] # "idle"
             PROVE  Ours(v)'
  BY DEF Ours
<1>1. StepFits(v) /\ Found(v) /\ Written(v)
  BY DEF WorkerOK
<1>2. \A l \in wClosed[v] \cup Elements(todo[v]) : l \in LinkIds /\ link[l] # Absent
  <2>1. todo[v] \in LinkLists /\ wClosed[v] \subseteq LinkIds
    BY DEF TypeOK
  <2> QED
    BY <1>1, <2>1, ElementsOfList DEF Elements, Found, Written
<1>3. \A l \in wClosed[v] \cup Elements(todo[v]) : link'[l] = link[l] /\ link[l].phone \in Reach[v]
  BY <1>2 DEF Ours
<1>4. /\ req[v].op # "remove" => req[v].phone \in Reach[v]
      /\ \A l \in wClosed'[v] \cup Elements(todo'[v]) : link'[l].phone \in Reach[v]
  BY <1>3 DEF Ours
<1>5. req[v].op # "remove" =>
        /\ phone'[req[v].phone] = phone[req[v].phone]
        /\ Pool!LinksOfPhone(req[v].phone)' = Pool!LinksOfPhone(req[v].phone)
  <2> SUFFICES ASSUME req[v].op # "remove"
               PROVE  /\ phone'[req[v].phone] = phone[req[v].phone]
                      /\ Pool!LinksOfPhone(req[v].phone)' = Pool!LinksOfPhone(req[v].phone)
    OBVIOUS
  <2>1. PICK p \in Reach[v] : p = req[v].phone
    BY <1>4
  <2>2. phone'[p] = phone[p]
    OBVIOUS
  <2>3. Pool!LinksOfPhone(req[v].phone)' = {l \in Pool!ActiveLinks' : link'[l].phone = p}
    BY <2>1 DEF Pool!LinksOfPhone
  <2>4. Pool!LinksOfPhone(p)' = {l \in Pool!ActiveLinks' : link'[l].phone = p}
    BY DEF Pool!LinksOfPhone
  <2> QED
    BY <2>1, <2>2, <2>3, <2>4
<1>6. req[v].op = "create" => CreateOurs(v)'
  BY <1>5 DEF Ours, CreateOurs
<1>7. req[v].op = "add" => AddOurs(v)'
  BY <1>5 DEF Ours, AddOurs
<1>8. req[v].op = "spam" => SpamOurs(v)'
  BY <1>5 DEF Ours, SpamOurs
<1>9. req[v].op \in {"update", "import"} => UpdateOurs(v)'
  <2>1. req[v].op \in {"update", "import"} => FormOurs(v)'
    BY <1>5 DEF Ours, UpdateOurs, FormOurs
  <2> QED
    BY <1>5, <2>1 DEF Ours, UpdateOurs
<1>10. req[v].op = "remove" => RemoveOurs(v)'
  <2>1. pc[v] = "remClose" => Head(todo[v]) \in Elements(todo[v])
    <3>1. todo[v] \in LinkLists
      BY DEF TypeOK
    <3> QED
      BY <1>1, <3>1, ElementsOfList DEF Found
  <2> QED
    BY <1>3, <2>1 DEF Ours, RemoveOurs
<1> QED
  BY <1>4, <1>6, <1>7, <1>8, <1>9, <1>10 DEF Ours

LEMMA OursRollback ==
  ASSUME TypeOK, NEW w \in Workers, EndSession(w)
  PROVE  Ours(w)'
BY DEF EndSession, TypeOK, Ours

LEMMA OursBegin ==
  ASSUME WorkersInv, NEW w \in Workers, Begin(w)
  PROVE  Ours(w)'
<1>1. PICK q \in Posted(w) :
        /\ req' = [req EXCEPT ![w] = q]
        /\ pc' = [pc EXCEPT ![w] = FirstStep[q.op]]
        /\ todo' = [todo EXCEPT ![w] = IF q.op = "remove" THEN q.ids ELSE <<>>]
  BY DEF Begin
<1>2. /\ pc[w] = "idle" /\ UNCHANGED <<db, seen, wPhone, wLink, wClosed>>
      /\ TypeOK /\ Resting(w)
  BY DEF Begin, WorkersInv, WorkerOK
<1>3. Reach[w] \subseteq Phones /\ Ops \subseteq DOMAIN FirstStep /\ Forms \subseteq Pool!PhoneForms
  BY ReachAssumption, OpsAssumption, FormsAssumption
<1>4. /\ q.op \in {"create", "update", "import", "add", "remove", "spam"}
      /\ q.op = "create" => q.form.provider_id \/ q.form.review_required
      /\ q.op # "remove" => q.phone \in Reach[w]
      /\ q.op \in {"create", "update", "import"} => q.form \in Forms
      /\ q.op = "remove" => q.ids \in LinkLists /\ \A i \in DOMAIN q.ids : link[q.ids[i]].phone \in Reach[w]
  BY <1>3 DEF Posted
<1>5. FirstStep[q.op] =
        CASE q.op = "create" -> "insert" [] q.op = "update" -> "updRead"
          [] q.op = "import" -> "impRead" [] q.op = "add" -> "addLookup"
          [] q.op = "remove" -> "remSelect" [] q.op = "spam" -> "spamLock"
  BY <1>4 DEF FirstStep
<1>6. /\ pc'[w] = FirstStep[q.op] /\ req'[w] = q
      /\ wClosed'[w] = {} /\ wLink'[w] = Absent /\ wPhone'[w] = Absent
  BY <1>1, <1>2 DEF TypeOK, Resting
<1>7. \A l \in Elements(todo'[w]) : link'[l].phone \in Reach[w]
  <2>1. CASE q.op = "remove"
    <3>1. todo'[w] = q.ids /\ DOMAIN q.ids = 1 .. Len(q.ids)
      BY <1>1, <1>2, <1>4, <2>1, LinkListType DEF TypeOK
    <3> QED
      BY <1>2, <1>4, <2>1, <3>1 DEF Elements, db
  <2>2. CASE q.op # "remove"
    <3>1. todo'[w] = <<>>
      BY <1>1, <1>2, <2>2 DEF TypeOK
    <3> QED
      BY <3>1 DEF Elements
  <2> QED
    BY <2>1, <2>2
<1>8. q.op = "create" => CreateOurs(w)'
  BY <1>4, <1>5, <1>6 DEF CreateOurs
<1>9. q.op = "add" => AddOurs(w)'
  BY <1>4, <1>5, <1>6 DEF AddOurs
<1>10. q.op = "spam" => SpamOurs(w)'
  BY <1>4, <1>5, <1>6 DEF SpamOurs
<1>11. q.op \in {"update", "import"} => UpdateOurs(w)'
  BY <1>4, <1>5, <1>6 DEF UpdateOurs, FormOurs, ImportSteps
<1>12. q.op = "remove" => RemoveOurs(w)'
  BY <1>4, <1>5, <1>6 DEF RemoveOurs
<1> QED
  BY <1>4, <1>6, <1>7, <1>8, <1>9, <1>10, <1>11, <1>12 DEF Ours

LEMMA OursInsertPhone ==
  ASSUME WorkersInv, NEW w \in Workers, Ours(w), InsertPhone(w)
  PROVE  Ours(w)'
<1>1. pc[w] = "insert" /\ TypeOK /\ StepFits(w)
  BY DEF InsertPhone, WorkersInv, WorkerOK
<1>2. CASE phone[req[w].phone] # Absent
  BY <1>1, <1>2, OursRollback DEF InsertPhone, Rollback
<1>3. CASE phone[req[w].phone] = Absent
  <2>1. /\ wPhone' = [wPhone EXCEPT ![w] = Pool!CreatedRow(req[w].form)]
        /\ pc' = [pc EXCEPT ![w] = "commit"]
        /\ UNCHANGED <<db, req, seen, todo, wLink, wClosed>>
    BY <1>3 DEF InsertPhone, WritePhone, Goto
  <2>2. req[w].op = "create"
    BY <1>1 DEF StepFits
  <2> QED
    BY <1>1, <1>3, <2>1, <2>2 DEF TypeOK, Ours, CreateOurs, db
<1> QED
  BY <1>2, <1>3

\* Steps of a request that adds a number.
LEMMA OursAdd ==
  ASSUME WorkersInv, NEW w \in Workers, Ours(w),
         AddLookup(w) \/ AddRead(w) \/ AddCheck(w)
  PROVE  Ours(w)'
<1>1. TypeOK /\ StepFits(w) /\ req[w].op = "add"
  BY DEF AddLookup, AddRead, AddCheck, WorkersInv, WorkerOK, StepFits, AddSteps
<1>2. CASE Rollback(w)
  BY <1>1, <1>2, OursRollback DEF Rollback
<1>3. CASE AddLookup(w) /\ ~Rollback(w)
  <2>1. /\ pc' = [pc EXCEPT ![w] = "addRead"] /\ pc[w] = "addLookup"
        /\ UNCHANGED <<db, req, seen, todo, wPhone, wLink, wClosed>>
        /\ phone[req[w].phone] # Absent
    BY <1>3 DEF AddLookup, Goto
  <2> QED
    BY <1>1, <2>1 DEF TypeOK, Ours, AddOurs, db
<1>4. CASE AddRead(w) /\ ~Rollback(w)
  <2>1. /\ pc' = [pc EXCEPT ![w] = "addCheck"] /\ pc[w] = "addRead"
        /\ seen' = [seen EXCEPT ![w] = phone[req[w].phone]]
        /\ UNCHANGED <<db, req, todo, wPhone, wLink, wClosed>>
        /\ phone[req[w].phone].is_active
    BY <1>4 DEF AddRead, Goto, Read
  <2> QED
    BY <1>1, <2>1 DEF TypeOK, Ours, AddOurs, db
<1>5. CASE AddCheck(w) /\ ~Rollback(w)
  <2>1. /\ pc' = [pc EXCEPT ![w] = "addPromote"] /\ pc[w] = "addCheck"
        /\ UNCHANGED <<db, req, seen, todo, wPhone, wLink, wClosed>>
    BY <1>5 DEF AddCheck, Goto
  <2> QED
    BY <1>1, <2>1 DEF TypeOK, Ours, AddOurs, db
<1> QED
  BY <1>2, <1>3, <1>4, <1>5

LEMMA OursAddPromote ==
  ASSUME WorkersInv, NEW w \in Workers, Ours(w), AddPromote(w)
  PROVE  Ours(w)'
<1> DEFINE row == phone[req[w].phone]
<1>1. /\ TypeOK /\ Written(w) /\ pc[w] = "addPromote" /\ req[w].op = "add"
      /\ pc' = [pc EXCEPT ![w] = "addLink"]
      /\ UNCHANGED <<db, req, seen, todo, wLink, wClosed>>
  BY DEF AddPromote, WorkersInv, WorkerOK, StepFits, AddSteps, Goto
<1>2. AddOurs(w) /\ seen[w] = row /\ row # Absent /\ row.is_active /\ wPhone[w] = Absent
  BY <1>1 DEF Ours, AddOurs, Written
<1>3. IF wPhone'[w] = Absent THEN row.status = "used"
      ELSE wPhone'[w] = [row EXCEPT !.status = "used"]
  <2>1. CASE seen[w].status = "used"
    BY <1>2, <2>1 DEF AddPromote
  <2>2. CASE seen[w].status # "used"
    <3>1. wPhone' = [wPhone EXCEPT ![w] = [row EXCEPT !.status = "used"]]
      BY <2>2 DEF AddPromote, WritePhone
    <3>2. [row EXCEPT !.status = "used"] # Absent
      <4>1. row \in Pool!PhoneRows
        <5>1. WorkerOK(w) /\ pc[w] # "idle"
          BY <1>1 DEF WorkersInv
        <5>2. seen[w] \in Pool!PhoneRows
          BY <1>1, <5>1 DEF WorkerOK, Found, ReadSteps
        <5> QED
          BY <1>2, <5>2
      <4>2. [row EXCEPT !.status = "used"] \in Pool!PhoneRows
        BY <4>1 DEF Pool!PhoneRows, Pool!Statuses
      <4> QED
        BY <4>2, AbsentAssumption
    <3> QED
      BY <1>1, <3>1, <3>2 DEF TypeOK
  <2> QED
    BY <2>1, <2>2
<1>4. pc'[w] = "addLink"
  BY <1>1 DEF TypeOK
<1>5. AddOurs(w)'
  BY <1>1, <1>2, <1>3, <1>4 DEF AddOurs, db
<1> QED
  BY <1>1, <1>5 DEF Ours, db

LEMMA OursAddLink ==
  ASSUME WorkersInv, NEW w \in Workers, Ours(w), AddLink(w)
  PROVE  Ours(w)'
<1>1. TypeOK /\ pc[w] = "addLink" /\ req[w].op = "add"
  BY DEF AddLink, WorkersInv, WorkerOK, StepFits, AddSteps
<1>2. CASE Rollback(w)
  BY <1>1, <1>2, OursRollback DEF Rollback
<1>3. CASE ~Rollback(w)
  <2>1. PICK l \in LinkIds : wLink' = [wLink EXCEPT ![w] = l]
    BY <1>3 DEF AddLink
  <2>2. /\ pc' = [pc EXCEPT ![w] = "commit"]
        /\ UNCHANGED <<db, req, seen, todo, wPhone, wClosed>>
    BY <1>3 DEF AddLink, Goto
  <2>3. wLink'[w] # Absent /\ pc'[w] = "commit"
    BY <1>1, <2>1, <2>2, AbsentAssumption DEF TypeOK
  <2>4. AddOurs(w)'
    BY <1>1, <2>2, <2>3 DEF Ours, AddOurs, db
  <2> QED
    BY <1>1, <2>2, <2>4 DEF Ours, db
<1> QED
  BY <1>2, <1>3

\* Steps of a spam check.
LEMMA OursSpam ==
  ASSUME WorkersInv, NEW w \in Workers, Ours(w), SpamLock(w) \/ SpamFlag(w)
  PROVE  Ours(w)'
<1> DEFINE row == phone[req[w].phone]
<1>1. TypeOK /\ req[w].op = "spam"
  BY DEF SpamLock, SpamFlag, WorkersInv, WorkerOK, StepFits, SpamSteps
<1>2. CASE Rollback(w)
  BY <1>1, <1>2, OursRollback DEF Rollback
<1>3. CASE SpamLock(w) /\ ~Rollback(w)
  <2>1. /\ seen' = [seen EXCEPT ![w] = row]
        /\ wPhone' = [wPhone EXCEPT ![w] = row]
        /\ pc' = [pc EXCEPT ![w] = "spamFlag"] /\ pc[w] = "spamLock"
        /\ UNCHANGED <<db, req, todo, wLink, wClosed>>
        /\ row # Absent
    BY <1>3 DEF SpamLock, WritePhone, Goto, Read
  <2> QED
    BY <1>1, <2>1 DEF TypeOK, Ours, SpamOurs, db
<1>4. CASE SpamFlag(w)
  <2>1. /\ wPhone' = [wPhone EXCEPT ![w] = Pool!SpamFlagged(seen[w])]
        /\ pc' = [pc EXCEPT ![w] = "commit"] /\ pc[w] = "spamFlag"
        /\ UNCHANGED <<db, req, seen, todo, wLink, wClosed>>
    BY <1>4 DEF SpamFlag, WritePhone, Goto
  <2> QED
    BY <1>1, <2>1 DEF TypeOK, Ours, SpamOurs, db
<1> QED
  BY <1>2, <1>3, <1>4

\* Steps of an update, and of the import that goes before it.
LEMMA OursImport ==
  ASSUME WorkersInv, NEW w \in Workers, Ours(w), ImportRead(w) \/ ImportLinks(w)
  PROVE  Ours(w)'
<1> DEFINE row == phone[req[w].phone]
           links == Pool!LinksOfPhone(req[w].phone)
<1>1. TypeOK /\ req[w].op = "import" /\ UpdateOurs(w) /\ FormOurs(w)
  BY DEF ImportRead, ImportLinks, WorkersInv, WorkerOK, StepFits, ImportSteps, Ours, UpdateOurs
<1>2. CASE Rollback(w)
  BY <1>1, <1>2, OursRollback DEF Rollback
<1>3. CASE ImportRead(w) /\ ~Rollback(w)
  <2>1. /\ seen' = [seen EXCEPT ![w] = row]
        /\ pc' = [pc EXCEPT ![w] = "impLinks"] /\ pc[w] = "impRead"
        /\ UNCHANGED <<db, req, todo, wPhone, wLink, wClosed>>
    BY <1>3 DEF ImportRead, Goto, Read
  <2>2. seen'[w] = row /\ pc'[w] = "impLinks"
    BY <1>1, <2>1 DEF TypeOK
  <2>3. FormOurs(w)'
    BY <1>1, <2>1, <2>2 DEF FormOurs, ImportSteps
  <2>4. UpdateOurs(w)'
    BY <1>1, <2>1, <2>2, <2>3 DEF UpdateOurs, db
  <2> QED
    BY <1>1, <2>1, <2>4 DEF Ours, db
<1>4. CASE ImportLinks(w)
  <2> DEFINE form == Pool!ImportForm(seen[w], links # {}, req[w].form)
  <2>1. /\ req' = [req EXCEPT ![w] = [req[w] EXCEPT !.form = form]]
        /\ pc' = [pc EXCEPT ![w] = "updRead"] /\ pc[w] = "impLinks"
        /\ UNCHANGED <<db, seen, todo, wPhone, wLink, wClosed>>
    BY <1>4 DEF ImportLinks, Goto
  <2>2. pc'[w] = "updRead" /\ req'[w] = [req[w] EXCEPT !.form = form] /\ seen[w] = row
    BY <1>1, <2>1 DEF TypeOK, UpdateOurs
  <2>3. req[w] \in [op: {"create", "update", "import"}, phone: Phones, form: Pool!PhoneForms]
    <3>1. req[w] \in Requests
      BY <2>1 DEF WorkersInv, WorkerOK, StepFits
    <3> QED
      BY <1>1, <3>1 DEF Requests
  <2>4. req'[w].op = "import" /\ req'[w].phone = req[w].phone /\ req'[w].form = form
    BY <1>1, <2>2, <2>3
  <2>5. req[w].form \in Forms
    BY <1>1, <2>1 DEF FormOurs, ImportSteps
  <2>6. phone'[req'[w].phone] = row /\ Pool!LinksOfPhone(req[w].phone)' = links
    <3>1. phone' = phone /\ link' = link
      BY <2>1 DEF db
    <3> QED
      BY <2>4, <3>1 DEF Pool!LinksOfPhone, Pool!ActiveLinks
  <2>7. FormOurs(w)'
    BY <2>2, <2>4, <2>5, <2>6 DEF FormOurs, ImportSteps
  <2>8. UpdateOurs(w)'
    BY <1>1, <2>1, <2>2, <2>7 DEF UpdateOurs, db
  <2> QED
    BY <1>1, <2>1, <2>4, <2>8 DEF Ours, db
<1> QED
  BY <1>2, <1>3, <1>4

LEMMA OursUpdate ==
  ASSUME WorkersInv, NEW w \in Workers, Ours(w), UpdateRead(w) \/ UpdateWrite(w)
  PROVE  Ours(w)'
<1> DEFINE row == phone[req[w].phone]
<1>1. TypeOK /\ req[w].op \in {"update", "import"} /\ UpdateOurs(w) /\ FormOurs(w)
  BY DEF UpdateRead, UpdateWrite, WorkersInv, WorkerOK, StepFits, UpdateSteps, Ours, UpdateOurs
<1>2. CASE Rollback(w)
  BY <1>1, <1>2, OursRollback DEF Rollback
<1>3. CASE UpdateRead(w) /\ ~Rollback(w)
  <2>1. /\ seen' = [seen EXCEPT ![w] = row]
        /\ pc' = [pc EXCEPT ![w] = "updWrite"] /\ pc[w] = "updRead"
        /\ UNCHANGED <<db, req, todo, wPhone, wLink, wClosed>>
        /\ row # Absent /\ Pool!UpdateAccepted(row, req[w].form)
    BY <1>3 DEF UpdateRead, Goto, Read
  <2>2. seen'[w] = row /\ pc'[w] = "updWrite"
    BY <1>1, <2>1 DEF TypeOK
  <2>3. FormOurs(w)'
    BY <1>1, <2>1, <2>2 DEF FormOurs, ImportSteps, db, Pool!LinksOfPhone, Pool!ActiveLinks
  <2>4. UpdateOurs(w)'
    BY <1>1, <2>1, <2>2, <2>3 DEF UpdateOurs, db
  <2> QED
    BY <1>1, <2>1, <2>4 DEF Ours, db
<1>4. CASE UpdateWrite(w)
  <2> DEFINE step == IF Pool!ClosesLinks(req[w].form) THEN "updCollect" ELSE "commit"
  <2>1. /\ wPhone' = [wPhone EXCEPT ![w] = Pool!UpdatedRow(seen[w], row, req[w].form)]
        /\ pc' = [pc EXCEPT ![w] = step] /\ pc[w] = "updWrite"
        /\ UNCHANGED <<db, req, seen, todo, wLink, wClosed>>
    BY <1>4 DEF UpdateWrite, WritePhone, Goto
  <2>2. wPhone'[w] = Pool!UpdatedRow(row, row, req[w].form) /\ pc'[w] = step
    BY <1>1, <2>1 DEF TypeOK, UpdateOurs
  <2>3. FormOurs(w)'
    BY <1>1, <2>1, <2>2 DEF FormOurs, ImportSteps, db, Pool!LinksOfPhone, Pool!ActiveLinks
  <2>4. UpdateOurs(w)'
    BY <1>1, <2>1, <2>2, <2>3 DEF UpdateOurs, db
  <2> QED
    BY <1>1, <2>1, <2>4 DEF Ours, db
<1> QED
  BY <1>2, <1>3, <1>4

LEMMA OursUpdateCollect ==
  ASSUME WorkersInv, NEW w \in Workers, Ours(w), UpdateCollect(w)
  PROVE  Ours(w)'
<1> DEFINE links == Pool!LinksOfPhone(req[w].phone)
<1>1. /\ TypeOK /\ req[w].op \in {"update", "import"} /\ UpdateOurs(w) /\ FormOurs(w)
      /\ pc[w] = "updCollect" /\ req[w].phone \in Reach[w]
  BY DEF UpdateCollect, WorkersInv, WorkerOK, StepFits, UpdateSteps, Ours, UpdateOurs
<1>2. PICK list \in Orders(links) : todo' = [todo EXCEPT ![w] = list]
  BY DEF UpdateCollect
<1>3. /\ pc' = [pc EXCEPT ![w] = "updClose"]
      /\ UNCHANGED <<db, req, seen, wPhone, wLink, wClosed>>
  BY DEF UpdateCollect, Goto
<1>4. todo'[w] = list /\ pc'[w] = "updClose" /\ wClosed[w] = {}
  BY <1>1, <1>2, <1>3 DEF TypeOK, UpdateOurs
<1>5. Elements(todo'[w]) = links
  BY <1>4, ElementsOfSet DEF Pool!LinksOfPhone, Pool!ActiveLinks
<1>6. FormOurs(w)'
  BY <1>1, <1>3, <1>4 DEF FormOurs, ImportSteps, db, Pool!LinksOfPhone, Pool!ActiveLinks
<1>7. UpdateOurs(w)'
  BY <1>1, <1>3, <1>4, <1>5, <1>6 DEF UpdateOurs, db, Pool!LinksOfPhone, Pool!ActiveLinks
<1>8. \A l \in wClosed'[w] \cup Elements(todo'[w]) : link'[l].phone \in Reach[w]
  BY <1>1, <1>3, <1>4, <1>5 DEF Pool!LinksOfPhone, db
<1> QED
  BY <1>1, <1>3, <1>7, <1>8 DEF Ours

LEMMA OursUpdateClose ==
  ASSUME WorkersInv, NEW w \in Workers, Ours(w), UpdateClose(w)
  PROVE  Ours(w)'
<1> DEFINE links == Pool!LinksOfPhone(req[w].phone)
<1>1. /\ TypeOK /\ req[w].op \in {"update", "import"} /\ UpdateOurs(w) /\ FormOurs(w)
      /\ pc[w] = "updClose" /\ todo[w] \in LinkLists
      /\ wClosed[w] \cup Elements(todo[w]) = links
      /\ UNCHANGED <<db, req, seen, wPhone, wLink>>
  BY DEF UpdateClose, WorkersInv, WorkerOK, StepFits, UpdateSteps, Ours, UpdateOurs, TypeOK
<1>2. CASE todo[w] = <<>>
  <2>1. pc' = [pc EXCEPT ![w] = "commit"] /\ UNCHANGED <<todo, wClosed>>
    BY <1>2 DEF UpdateClose, Goto
  <2>2. pc'[w] = "commit" /\ wClosed[w] = links /\ Pool!ClosesLinks(req[w].form)
    BY <1>1, <1>2, <2>1, ElementsOfList DEF TypeOK, UpdateOurs
  <2>3. FormOurs(w)'
    BY <1>1, <2>1, <2>2 DEF FormOurs, ImportSteps, db, Pool!LinksOfPhone, Pool!ActiveLinks
  <2>4. UpdateOurs(w)'
    BY <1>1, <2>1, <2>2, <2>3 DEF UpdateOurs, db, Pool!LinksOfPhone, Pool!ActiveLinks
  <2> QED
    BY <1>1, <2>1, <2>4 DEF Ours, db
<1>3. CASE todo[w] # <<>>
  <2>1. /\ wClosed' = [wClosed EXCEPT ![w] = wClosed[w] \cup {Head(todo[w])}]
        /\ todo' = [todo EXCEPT ![w] = Tail(todo[w])]
        /\ UNCHANGED pc
    BY <1>3 DEF UpdateClose
  <2>2. wClosed'[w] \cup Elements(todo'[w]) = wClosed[w] \cup Elements(todo[w])
    BY <1>1, <1>3, <2>1, ElementsOfList DEF TypeOK
  <2>3. FormOurs(w)'
    BY <1>1, <2>1 DEF FormOurs, ImportSteps, db, Pool!LinksOfPhone, Pool!ActiveLinks
  <2>4. UpdateOurs(w)'
    BY <1>1, <2>1, <2>2, <2>3 DEF UpdateOurs, db, Pool!LinksOfPhone, Pool!ActiveLinks
  <2> QED
    BY <1>1, <2>1, <2>2, <2>4 DEF Ours, db
<1> QED
  BY <1>2, <1>3

\* Steps of a removal of links.
LEMMA OursRemove ==
  ASSUME WorkersInv, NEW w \in Workers, Ours(w), RemoveSelect(w) \/ RemoveClose(w) \/ RemoveLog(w)
  PROVE  Ours(w)'
<1>1. /\ TypeOK /\ req[w].op = "remove" /\ RemoveOurs(w) /\ todo[w] \in LinkLists
      /\ UNCHANGED <<db, req, seen, wPhone, wLink>>
  BY DEF RemoveSelect, RemoveClose, RemoveLog, WorkersInv, WorkerOK, StepFits, RemoveSteps,
     Ours, TypeOK
<1>2. pc[w] # "remSelect" => todo[w] # <<>>
  BY DEF RemoveSelect, RemoveClose, RemoveLog, WorkersInv, WorkerOK, Found
<1>3. \A l \in wClosed[w] \cup Elements(todo[w]) : link[l].phone \in Reach[w]
  BY DEF RemoveSelect, RemoveClose, RemoveLog, Ours
<1>4. CASE RemoveSelect(w)
  <2>1. pc[w] = "remSelect" /\ UNCHANGED wClosed
    BY <1>4 DEF RemoveSelect
  <2>2. CASE todo[w] = <<>>
    BY <1>1, <1>3, <1>4, <2>1, <2>2 DEF RemoveSelect, Goto, TypeOK, Ours, RemoveOurs, db
  <2>3. CASE /\ todo[w] # <<>>
             /\ Head(todo[w]) \in VisibleLinks(w) /\ link[Head(todo[w])].route = req[w].route
    BY <1>1, <1>3, <1>4, <2>1, <2>3 DEF RemoveSelect, Goto, TypeOK, Ours, RemoveOurs, db,
       VisibleLinks, Pool!ActiveLinks
  <2>4. CASE /\ todo[w] # <<>>
             /\ ~(Head(todo[w]) \in VisibleLinks(w) /\ link[Head(todo[w])].route = req[w].route)
    <3>1. todo' = [todo EXCEPT ![w] = Tail(todo[w])] /\ UNCHANGED pc
      BY <1>4, <2>4 DEF RemoveSelect
    <3>2. Elements(todo'[w]) \subseteq Elements(todo[w])
      BY <1>1, <2>4, <3>1, ElementsOfList DEF TypeOK
    <3> QED
      BY <1>1, <1>3, <2>1, <3>1, <3>2 DEF Ours, RemoveOurs, db
  <2> QED
    BY <2>2, <2>3, <2>4
<1>5. CASE RemoveClose(w)
  <2>1. /\ wClosed' = [wClosed EXCEPT ![w] = wClosed[w] \cup {Head(todo[w])}]
        /\ pc' = [pc EXCEPT ![w] = "remLog"] /\ pc[w] = "remClose" /\ UNCHANGED todo
    BY <1>5 DEF RemoveClose, Goto
  <2>2. wClosed'[w] = wClosed[w] \cup {Head(todo[w])} /\ Head(todo[w]) \in Elements(todo[w])
    BY <1>1, <1>2, <2>1, ElementsOfList DEF TypeOK
  <2>3. \A l \in wClosed'[w] \cup Elements(todo'[w]) : link'[l].phone \in Reach[w]
    BY <1>1, <1>3, <2>1, <2>2 DEF db
  <2>4. RemoveOurs(w)'
    BY <1>1, <2>1, <2>2 DEF RemoveOurs, db, TypeOK
  <2> QED
    BY <1>1, <2>3, <2>4 DEF Ours
<1>6. CASE RemoveLog(w)
  <2>1. /\ todo' = [todo EXCEPT ![w] = Tail(todo[w])]
        /\ pc' = [pc EXCEPT ![w] = "remSelect"] /\ pc[w] = "remLog" /\ UNCHANGED wClosed
    BY <1>6 DEF RemoveLog, Goto
  <2>2. Elements(todo'[w]) \subseteq Elements(todo[w])
    BY <1>1, <1>2, <2>1, ElementsOfList DEF TypeOK
  <2> QED
    BY <1>1, <1>3, <2>1, <2>2 DEF Ours, RemoveOurs, db, TypeOK
<1> QED
  BY <1>4, <1>5, <1>6

--------------------------------------------------------------------------------
(* The steps of the others, and commits.                                   *)

LEMMA OthersStay ==
  ASSUME TypeOK, NEW w \in Workers, Begin(w) \/ Step(w) \/ Disconnect(w)
  PROVE  Others(w)
<1>1. CASE Begin(w)
  BY <1>1 DEF Begin, TypeOK, Others
<1>2. CASE EndSession(w)
  BY <1>2 DEF EndSession, TypeOK, Others
<1>3. CASE Step(w) /\ ~EndSession(w)
  <2>1. CASE InsertPhone(w) \/ AddPromote(w) \/ AddLink(w) \/ SpamLock(w) \/ SpamFlag(w)
    BY <1>3, <2>1 DEF InsertPhone, AddPromote, AddLink, SpamLock, SpamFlag, Rollback,
       WritePhone, Goto, Read, TypeOK, Others
  <2>2. CASE AddLookup(w) \/ AddRead(w) \/ AddCheck(w) \/ ImportRead(w) \/ ImportLinks(w)
    BY <1>3, <2>2 DEF AddLookup, AddRead, AddCheck, ImportRead, ImportLinks, Rollback,
       Goto, Read, TypeOK, Others
  <2>3. CASE RemoveSelect(w) \/ RemoveClose(w) \/ RemoveLog(w)
    BY <1>3, <2>3 DEF RemoveSelect, RemoveClose, RemoveLog, Goto, TypeOK, Others
  <2>4. CASE UpdateRead(w) \/ UpdateWrite(w) \/ UpdateCollect(w) \/ UpdateClose(w)
    BY <1>3, <2>4 DEF UpdateRead, UpdateWrite, UpdateCollect, UpdateClose, Rollback,
       WritePhone, Goto, Read, TypeOK, Others
  <2> QED
    BY <1>3, <2>1, <2>2, <2>3, <2>4 DEF Step, Commit
<1> QED
  BY <1>1, <1>2, <1>3 DEF Disconnect, Rollback

\* A commit changes no number and no link of another worker.
LEMMA OthersUntouched ==
  ASSUME Disjoint, WorkersInv, NEW w \in Workers, Ours(w), Commit(w),
         NEW v \in Workers \ {w}
  PROVE  /\ \A p \in Reach[v] :
              phone'[p] = phone[p] /\ Pool!LinksOfPhone(p)' = Pool!LinksOfPhone(p)
         /\ \A l \in LinkIds : link[l] # Absent /\ link[l].phone \in Reach[v] => link'[l] = link[l]
<1>1. pc[w] = "commit" /\ StepFits(w) /\ Written(w) /\ TypeOK
  BY DEF Commit, WorkersInv, WorkerOK
<1>2. Reach[v] \cap Reach[w] = {} /\ Reach[v] \subseteq Phones
  BY ReachAssumption DEF Disjoint
<1>3. /\ wPhone[w] # Absent => req[w].phone \in Reach[w]
      /\ wLink[w] # Absent => req[w].phone \in Reach[w]
      /\ \A l \in wClosed[w] : link[l].phone \in Reach[w] /\ link[l] \in Pool!LinkRows
  BY <1>1, CommitType DEF Ours, Written, TypeOK, Pool!TypeOK
<1>4. ASSUME NEW l \in wClosed[w]
      PROVE  link'[l].phone = link[l].phone
  <2>1. link'[l] = [link[l] EXCEPT !.is_active = FALSE]
    BY CommitType
  <2>2. link[l] \in Pool!LinkRows
    BY <1>3
  <2> QED
    BY <2>1, <2>2 DEF Pool!LinkRows
<1>5. \A p \in Reach[v] : phone'[p] = phone[p]
  BY <1>2, <1>3, CommitType
<1>6. ASSUME NEW l \in LinkIds, link[l] # Absent, link[l].phone \in Reach[v]
      PROVE  link'[l] = link[l]
  <2>1. l \notin wClosed[w] /\ l # wLink[w]
    BY <1>1, <1>2, <1>3, <1>6, AbsentAssumption DEF Written
  <2> QED
    BY <2>1, CommitType
<1>7. ASSUME NEW l \in LinkIds, link'[l] # Absent, link'[l].phone \in Reach[v]
      PROVE  link'[l] = link[l]
  <2>1. l # wLink[w]
    BY <1>2, <1>3, <1>7, CommitType, AbsentAssumption
  <2>2. l \notin wClosed[w]
    BY <1>2, <1>3, <1>4, <1>7
  <2> QED
    BY <2>1, <2>2, CommitType
<1>8. ASSUME NEW p \in Reach[v]
      PROVE  Pool!LinksOfPhone(p)' = Pool!LinksOfPhone(p)
  <2>1. \A l \in LinkIds : (link'[l] # Absent /\ link'[l].is_active /\ link'[l].phone = p)
                             <=> (link[l] # Absent /\ link[l].is_active /\ link[l].phone = p)
    BY <1>6, <1>7
  <2> QED
    BY <2>1 DEF Pool!LinksOfPhone, Pool!ActiveLinks
<1> QED
  BY <1>5, <1>6, <1>8

\* A worker's knowledge survives the steps of everybody, its own included.
LEMMA OursStep ==
  ASSUME Disjoint, WorkersInv, \A v \in Workers : Ours(v), [Next]_vars
  PROVE  \A v \in Workers : Ours(v)'
<1> TypeOK /\ \A v \in Workers : WorkerOK(v)
  BY DEF WorkersInv
<1>1. CASE UNCHANGED vars
  BY <1>1, OursFrame DEF vars, db, session, Pool!LinksOfPhone, Pool!ActiveLinks
<1>2. CASE Next
  <2>1. PICK w \in Workers : Begin(w) \/ Step(w) \/ Disconnect(w)
    BY <1>2 DEF Next
  <2>2. Ours(w)'
    <3>1. CASE Step(w) /\ ~EndSession(w)
      BY <3>1, OursInsertPhone, OursAdd, OursAddPromote, OursAddLink, OursSpam, OursImport,
         OursUpdate, OursUpdateCollect, OursUpdateClose, OursRemove DEF Step, Commit
    <3>2. CASE Begin(w)
      BY <3>2, OursBegin
    <3>3. CASE EndSession(w)
      BY <3>3, OursRollback
    <3> QED
      BY <2>1, <3>1, <3>2, <3>3 DEF Disconnect, Rollback
  <2>3. ASSUME NEW v \in Workers \ {w}
        PROVE  Ours(v)'
    <3>1. /\ pc'[v] = pc[v] /\ req'[v] = req[v] /\ seen'[v] = seen[v] /\ todo'[v] = todo[v]
          /\ wPhone'[v] = wPhone[v] /\ wLink'[v] = wLink[v] /\ wClosed'[v] = wClosed[v]
      BY <2>1, OthersStay DEF Others
    <3>2. CASE Commit(w)
      BY <3>1, <3>2, OthersUntouched, OursFrame
    <3>3. CASE ~Commit(w)
      <4>1. UNCHANGED <<phone, link>>
        BY <2>1, <3>3, OnlyCommitWrites DEF db
      <4> QED
        BY <3>1, <4>1, OursFrame DEF Pool!LinksOfPhone, Pool!ActiveLinks
    <3> QED
      BY <3>2, <3>3
  <2> QED
    BY <2>2, <2>3
<1> QED
  BY <1>1, <1>2

\* What a commit makes of the links, by the kind of its request.
LEMMA CommitCloses ==
  ASSUME WorkersInv, NEW w \in Workers, Commit(w), wLink[w] = Absent
  PROVE  Pool!CloseLinks(wClosed[w]) /\ (wClosed[w] = {} => UNCHANGED <<link, closings>>)
<1>1. TypeOK /\ \A l \in LinkIds : l # wLink[w]
  BY AbsentAssumption DEF WorkersInv
<1>2. link' = [l \in LinkIds |-> IF l \in wClosed[w] THEN [link[l] EXCEPT !.is_active = FALSE]
                                 ELSE link[l]]
  <2>1. \A l \in LinkIds :
           (CASE l = wLink[w] -> [route |-> req[w].route, phone |-> req[w].phone,
                                  is_active |-> TRUE]
              [] l \in wClosed[w] -> [link[l] EXCEPT !.is_active = FALSE]
              [] OTHER -> link[l])
           = IF l \in wClosed[w] THEN [link[l] EXCEPT !.is_active = FALSE] ELSE link[l]
    BY <1>1
  <2> QED
    BY <2>1 DEF Commit
<1>3. closings' = [l \in LinkIds |-> IF l \in wClosed[w] THEN closings[l] + 1 ELSE closings[l]]
  <2>1. \A l \in LinkIds : closings[l] + (IF l \in wClosed[w] THEN 1 ELSE 0)
                           = IF l \in wClosed[w] THEN closings[l] + 1 ELSE closings[l]
    BY <1>1 DEF TypeOK, Pool!TypeOK
  <2> QED
    BY <2>1 DEF Commit
<1> QED
  BY <1>1, <1>2, <1>3 DEF Pool!CloseLinks, TypeOK, Pool!TypeOK

LEMMA CommitAdds ==
  ASSUME WorkersInv, NEW w \in Workers, Commit(w), wLink[w] # Absent, wClosed[w] = {}
  PROVE  /\ link' = [link EXCEPT ![wLink[w]] = [route |-> req[w].route, phone |-> req[w].phone,
                                                is_active |-> TRUE]]
         /\ UNCHANGED closings
<1>1. TypeOK
  BY DEF WorkersInv
<1> DEFINE new == [route |-> req[w].route, phone |-> req[w].phone, is_active |-> TRUE]
<1>2. link' = [l \in LinkIds |-> IF l = wLink[w] THEN new ELSE link[l]]
  <2>1. \A l \in LinkIds :
           (CASE l = wLink[w] -> [route |-> req[w].route, phone |-> req[w].phone,
                                  is_active |-> TRUE]
              [] l \in wClosed[w] -> [link[l] EXCEPT !.is_active = FALSE]
              [] OTHER -> link[l])
           = IF l = wLink[w] THEN new ELSE link[l]
    OBVIOUS
  <2> QED
    BY <2>1 DEF Commit
<1>3. closings' = [l \in LinkIds |-> closings[l]]
  <2>1. \A l \in LinkIds : closings[l] + (IF l \in wClosed[w] THEN 1 ELSE 0) = closings[l]
    BY <1>1 DEF TypeOK, Pool!TypeOK
  <2> QED
    BY <2>1 DEF Commit
<1> HIDE DEF new
<1>4. link' = [link EXCEPT ![wLink[w]] = new]
  BY <1>1, <1>2 DEF TypeOK, Pool!TypeOK
<1> QED
  BY <1>1, <1>3, <1>4 DEF TypeOK, Pool!TypeOK, new

LEMMA AddIsAtomic ==
  ASSUME WorkersInv, NEW w \in Workers, Ours(w), Commit(w), req[w].op = "add"
  PROVE  Pool!AddPhoneToRoute(req[w].route, req[w].phone)
<1> DEFINE row == phone[req[w].phone]
<1>1. /\ TypeOK /\ pc[w] = "commit" /\ Written(w) /\ AddOurs(w)
      /\ req[w].phone \in Phones /\ req[w].route \in Routes
  BY RequestFields DEF Commit, WorkersInv, WorkerOK, StepFits, Ours
<1>2. /\ row # Absent /\ row.is_active /\ wClosed[w] = {} /\ wLink[w] # Absent
      /\ wLink[w] \in LinkIds /\ link[wLink[w]] = Absent
      /\ Pool!LinksBetween(req[w].route, req[w].phone) = {}
  BY <1>1 DEF AddOurs, Written, TypeOK
<1>3. row \in Pool!PhoneRows
  BY <1>1, <1>2 DEF TypeOK, Pool!TypeOK
<1>4. phone' = [phone EXCEPT ![req[w].phone] = [row EXCEPT !.status = "used"]]
  <2>1. CASE wPhone[w] = Absent
    <3>1. row.status = "used" /\ phone' = phone
      BY <1>1, <2>1 DEF AddOurs, Commit
    <3>2. [row EXCEPT !.status = "used"] = row
      BY <1>3, <3>1 DEF Pool!PhoneRows
    <3> QED
      BY <1>1, <3>1, <3>2 DEF TypeOK, Pool!TypeOK
  <2>2. CASE wPhone[w] # Absent
    <3>1. wPhone[w] = [row EXCEPT !.status = "used"]
      BY <1>1, <2>2 DEF AddOurs
    <3>2. phone' = [phone EXCEPT ![req[w].phone] = wPhone[w]]
      BY <2>2 DEF Commit
    <3> QED
      BY <3>1, <3>2
  <2> QED
    BY <2>1, <2>2
<1> QED
  BY <1>2, <1>4, CommitAdds DEF Pool!AddPhoneToRoute

\* The commit of an update, with the form that its import may have merged.
LEMMA UpdateIsAtomic ==
  ASSUME WorkersInv, NEW w \in Workers, Ours(w), Commit(w), req[w].op \in {"update", "import"}
  PROVE  Pool!UpdatePhone(req[w].phone, req[w].form)
<1> DEFINE row == phone[req[w].phone]
<1>1. TypeOK /\ pc[w] = "commit" /\ UpdateOurs(w)
  BY DEF Commit, WorkersInv, WorkerOK, Ours
<1>2. /\ row # Absent /\ Pool!UpdateAccepted(row, req[w].form) /\ wLink[w] = Absent
      /\ wPhone[w] = Pool!UpdatedRow(row, row, req[w].form)
      /\ wClosed[w] = IF Pool!ClosesLinks(req[w].form) THEN Pool!LinksOfPhone(req[w].phone) ELSE {}
  BY <1>1 DEF UpdateOurs
<1>3. wPhone[w] # Absent
  <2>1. req[w].phone \in Phones /\ req[w].form \in Pool!PhoneForms
    BY <1>1, RequestFields DEF WorkersInv, WorkerOK, StepFits
  <2>2. row \in Pool!PhoneRows
    BY <1>1, <1>2, <2>1 DEF TypeOK, Pool!TypeOK
  <2> QED
    BY <1>2, <2>1, <2>2, UpdatedType, AbsentAssumption
<1>4. phone' = [phone EXCEPT ![req[w].phone] = wPhone[w]]
  BY <1>3 DEF Commit
<1> QED
  BY <1>2, <1>4, CommitCloses DEF Pool!UpdatePhone

LEMMA CommitIsAtomic ==
  ASSUME WorkersInv, NEW w \in Workers, Ours(w), Commit(w)
  PROVE  Pool!Next \/ UNCHANGED Pool!vars
<1>1. TypeOK /\ pc[w] = "commit" /\ StepFits(w) /\ Written(w)
  BY DEF Commit, WorkersInv, WorkerOK
<1>2. /\ req[w].op \in {"create", "update", "import", "add", "remove", "spam"}
      /\ req[w].op # "remove" => req[w].phone \in Phones
      /\ req[w].op \in {"add", "remove"} => req[w].route \in Routes
      /\ req[w].op \in {"create", "update", "import"} => req[w].form \in Pool!PhoneForms
  BY <1>1, RequestFields DEF StepFits
<1>3. CASE req[w].op = "create"
  <2>1. /\ req[w].form \in Forms /\ wClosed[w] = {} /\ wLink[w] = Absent
        /\ req[w].form.provider_id \/ req[w].form.review_required
        /\ phone[req[w].phone] = Absent /\ wPhone[w] = Pool!CreatedRow(req[w].form)
    BY <1>1, <1>3 DEF Ours, CreateOurs
  <2>2. wPhone[w] # Absent
    BY <1>2, <1>3, <2>1, CreatedType, AbsentAssumption
  <2>3. phone' = [phone EXCEPT ![req[w].phone] = wPhone[w]]
    BY <2>2 DEF Commit
  <2>4. Pool!CreatePhone(req[w].phone, req[w].form)
    BY <2>1, <2>3, CommitCloses DEF Pool!CreatePhone
  <2> QED
    BY <1>2, <1>3, <2>1, <2>4 DEF Pool!Next
<1>4. CASE req[w].op = "add"
  BY <1>2, <1>4, AddIsAtomic DEF Pool!Next
<1>5. CASE req[w].op = "spam"
  <2>1. /\ wClosed[w] = {} /\ wLink[w] = Absent /\ phone[req[w].phone] # Absent
        /\ wPhone[w] = Pool!SpamFlagged(phone[req[w].phone])
    BY <1>1, <1>5 DEF Ours, SpamOurs
  <2>2. wPhone[w] # Absent
    <3>1. phone[req[w].phone] \in Pool!PhoneRows
      BY <1>1, <1>2, <1>5, <2>1 DEF TypeOK, Pool!TypeOK
    <3>2. wPhone[w] \in Pool!PhoneRows
      BY <2>1, <3>1 DEF Pool!SpamFlagged, Pool!PhoneRows
    <3> QED
      BY <3>2, AbsentAssumption
  <2>3. phone' = [phone EXCEPT ![req[w].phone] = wPhone[w]]
    BY <2>2 DEF Commit
  <2>4. Pool!FlagSpam(req[w].phone)
    BY <2>1, <2>3, CommitCloses DEF Pool!FlagSpam
  <2> QED
    BY <1>2, <1>5, <2>4 DEF Pool!Next
<1>6. CASE req[w].op = "update"
  <2>1. req[w].form \in Forms
    BY <1>1, <1>6 DEF Ours, UpdateOurs, FormOurs
  <2> QED
    BY <1>2, <1>6, <2>1, UpdateIsAtomic DEF Pool!Next
<1>7. CASE req[w].op = "import"
  <2>1. PICK f \in Forms : req[w].form =
          Pool!ImportForm(phone[req[w].phone], Pool!LinksOfPhone(req[w].phone) # {}, f)
    BY <1>1, <1>7 DEF Ours, UpdateOurs, FormOurs, ImportSteps
  <2>2. phone[req[w].phone] # Absent
    BY <1>1, <1>7 DEF Ours, UpdateOurs
  <2>3. Pool!ImportPhone(req[w].phone, f)
    BY <1>7, <2>1, <2>2, UpdateIsAtomic DEF Pool!ImportPhone
  <2> QED
    BY <1>2, <1>7, <2>3 DEF Pool!Next
<1>8. CASE req[w].op = "remove"
  <2>1. /\ wLink[w] = Absent /\ wPhone[w] = Absent
        /\ \A l \in wClosed[w] : link[l].is_active /\ link[l].route = req[w].route
    BY <1>1, <1>8 DEF Ours, RemoveOurs
  <2>2. Pool!CloseLinks(wClosed[w]) /\ UNCHANGED phone
        /\ (wClosed[w] = {} => UNCHANGED <<link, closings>>)
    BY <2>1, CommitCloses DEF Commit
  <2>3. wClosed[w] \in SUBSET LinkIds /\ Pool!LinksOnRoute(req[w].route, wClosed[w]) = wClosed[w]
    BY <1>1, <2>1 DEF Pool!LinksOnRoute, Pool!ActiveLinks, Written, TypeOK
  <2>4. CASE wClosed[w] = {}
    BY <2>2, <2>4 DEF Pool!vars
  <2>5. CASE wClosed[w] # {}
    <3>1. Pool!RemovePhoneLinks(req[w].route, wClosed[w])
      BY <2>2, <2>3, <2>5 DEF Pool!RemovePhoneLinks
    <3> QED
      BY <1>2, <1>8, <2>3, <3>1 DEF Pool!Next
  <2> QED
    BY <2>4, <2>5
<1> QED
  BY <1>2, <1>3, <1>4, <1>5, <1>6, <1>7, <1>8

\* Requests that keep to numbers of their own change the database as if each
\* of them had run alone, at its commit.
THEOREM DisjointRequestsAtomic ==
  ASSUME Disjoint
  PROVE  Spec => ImplementsPool
<1>1. Init => Pool!Init /\ \A v \in Workers : Ours(v)
  BY DEF Init, Ours
<1>2. SessionsInv /\ (\A v \in Workers : Ours(v)) /\ [Next]_vars => (\A v \in Workers : Ours(v))'
  BY OursStep DEF SessionsInv
<1>3. SessionsInv /\ (\A v \in Workers : Ours(v)) /\ [Next]_vars => [Pool!Next]_(Pool!vars)
  <2> SUFFICES ASSUME SessionsInv, \A v \in Workers : Ours(v), [Next]_vars
               PROVE  Pool!Next \/ UNCHANGED Pool!vars
    OBVIOUS
  <2>1. CASE UNCHANGED vars
    BY <2>1 DEF vars, db, Pool!vars
  <2>2. CASE Next
    <3>1. PICK w \in Workers : Begin(w) \/ Step(w) \/ Disconnect(w)
      BY <2>2 DEF Next
    <3>2. CASE Commit(w)
      BY <3>2, CommitIsAtomic DEF SessionsInv
    <3>3. CASE ~Commit(w)
      BY <3>1, <3>3, OnlyCommitWrites DEF db, Pool!vars
    <3> QED
      BY <3>2, <3>3
  <2> QED
    BY <2>1, <2>2
<1> QED
  BY <1>1, <1>2, <1>3, SessionsInvariant, PTL DEF Spec, ImplementsPool, Pool!Spec
================================================================================
