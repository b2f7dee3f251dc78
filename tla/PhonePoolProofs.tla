---------------------------- MODULE PhonePoolProofs ----------------------------
(***************************************************************************)
(* PhonePool for every set of numbers, routes, links and forms.            *)
(***************************************************************************)
EXTENDS PhonePool, TLAPS

\* The request an import makes of a form is a form again.
LEMMA ImportFormType ==
    ASSUME NEW f \in PhoneForms, NEW row \in PhoneRows, NEW linked \in BOOLEAN
    PROVE  ImportForm(row, linked, f) \in PhoneForms
  <1>1. Statuses \subseteq RawStatuses /\ "used" \in RawStatuses
    BY DEF Statuses, RawStatuses
  <1> DEFINE problem == f.is_problematic \/ row.is_problematic
             status == IF problem /\ f.is_active /\ linked THEN "used" ELSE f.status
             review == f.review_required \/ row.review_required
  <1>2. problem \in BOOLEAN /\ status \in RawStatuses /\ review \in BOOLEAN
    BY <1>1 DEF PhoneForms, PhoneRows
  <1>3. ImportForm(row, linked, f)
          = [f EXCEPT !.is_problematic = problem, !.status = status,
                      !.review_required = review, !.renumber = FALSE]
    BY DEF ImportForm
  <1> HIDE DEF problem, status, review
  <1> QED
    BY <1>2, <1>3 DEF PhoneForms

\* The stored status is one of the statuses.
LEMMA StoredStatusType ==
    ASSUME NEW f \in PhoneForms
    PROVE  StoredStatus(f) \in Statuses
  BY DEF StoredStatus, NormalizeStatus, Statuses, PhoneForms

\* An edited number is a row of phone_numbers.
LEMMA UpdatedRowType ==
    ASSUME NEW f \in PhoneForms, NEW seen \in PhoneRows, NEW row \in PhoneRows
    PROVE  UpdatedRow(seen, row, f) \in PhoneRows
  <1>1. StoredStatus(f) \in Statuses
    BY StoredStatusType
  <1>2. FinalReview(seen, f) \in BOOLEAN /\ Problematic(f) \in BOOLEAN
    BY DEF FinalReview, Problematic, IsLegacyProblem, PhoneForms
  <1> QED BY <1>1, <1>2 DEF UpdatedRow, PhoneRows, PhoneForms

\* A created number is a row of phone_numbers.
LEMMA CreatedRowType ==
    ASSUME NEW f \in PhoneForms
    PROVE  CreatedRow(f) \in PhoneRows
  <1>1. StoredStatus(f) \in Statuses
    BY StoredStatusType
  <1>2. Problematic(f) \in BOOLEAN
    BY DEF Problematic, IsLegacyProblem, PhoneForms
  <1> QED BY <1>1, <1>2 DEF CreatedRow, PhoneRows, PhoneForms

\* The flags of a written row agree, field by field.
LEMMA UpdatedRowFlags ==
    ASSUME NEW f \in PhoneForms, NEW seen \in PhoneRows, NEW row \in PhoneRows
    PROVE  LET new == UpdatedRow(seen, row, f) IN
           /\ ~new.is_active => new.status = "unused" /\ new.deactivated_at
           /\ UpdateAccepted(seen, f) =>
                (new.is_problematic \/ ~new.provider_id => new.review_required)
  <1> DEFINE new == UpdatedRow(seen, row, f)
  <1>1. new.is_active = f.is_active /\ new.status = StoredStatus(f)
    BY DEF UpdatedRow
  <1>2. new.deactivated_at <=> row.deactivated_at \/ ~f.is_active
    BY DEF UpdatedRow
  <1>3. new.provider_id = f.provider_id
    BY DEF UpdatedRow
  <1>4. new.is_problematic <=> Problematic(f)
    BY DEF UpdatedRow
  <1>5. new.review_required <=> FinalReview(seen, f)
    BY DEF UpdatedRow
  <1>6. ~f.is_active => StoredStatus(f) = "unused"
    BY DEF StoredStatus
  <1>7. Problematic(f) => FinalReview(seen, f)
    BY DEF FinalReview
  <1>8. UpdateAccepted(seen, f) => f.provider_id \/ FinalReview(seen, f)
    BY DEF UpdateAccepted
  <1> HIDE DEF new
  <1>9. ~new.is_active => new.status = "unused" /\ new.deactivated_at
    BY <1>1, <1>2, <1>6, Zenon
  <1>10. UpdateAccepted(seen, f) =>
           (new.is_problematic \/ ~new.provider_id => new.review_required)
    BY <1>3, <1>4, <1>5, <1>7, <1>8, Zenon
  <1> QED BY <1>9, <1>10 DEF new

\* A form that switches an inactive number on sends it to review.
LEMMA ReviewForced ==
    ASSUME NEW f \in PhoneForms, NEW seen \in PhoneRows, NEW row \in PhoneRows
    PROVE  LET new == UpdatedRow(seen, row, f) IN
           /\ new.is_active = f.is_active
           /\ f.is_active /\ ~seen.is_active => new.review_required
  <1> DEFINE new == UpdatedRow(seen, row, f)
  <1>1. new.is_active = f.is_active
    BY DEF UpdatedRow
  <1>2. new.review_required <=> FinalReview(seen, f)
    BY DEF UpdatedRow
  <1>3. f.is_active /\ ~seen.is_active => FinalReview(seen, f)
    BY DEF FinalReview
  <1> HIDE DEF new
  <1>4. f.is_active /\ ~seen.is_active => new.review_required
    BY <1>2, <1>3, Zenon
  <1> QED BY <1>1, <1>4 DEF new

\* A number is created with flags that agree.
LEMMA CreatedRowFlags ==
    ASSUME NEW f \in PhoneForms
    PROVE  LET new == CreatedRow(f) IN
           /\ ~new.is_active => new.status = "unused" /\ new.deactivated_at
           /\ f.provider_id \/ f.review_required =>
                (new.is_problematic \/ ~new.provider_id => new.review_required)
  <1> DEFINE new == CreatedRow(f)
  <1>1. new.is_active = f.is_active /\ new.status = StoredStatus(f)
    BY DEF CreatedRow
  <1>2. new.deactivated_at <=> ~f.is_active
    BY DEF CreatedRow
  <1>3. new.provider_id = f.provider_id
    BY DEF CreatedRow
  <1>4. new.is_problematic <=> Problematic(f)
    BY DEF CreatedRow
  <1>5. new.review_required <=> f.review_required \/ Problematic(f)
    BY DEF CreatedRow
  <1>6. ~f.is_active => StoredStatus(f) = "unused"
    BY DEF StoredStatus
  <1> HIDE DEF new
  <1>7. ~new.is_active => new.status = "unused" /\ new.deactivated_at
    BY <1>1, <1>2, <1>6, Zenon
  <1>8. f.provider_id \/ f.review_required =>
          (new.is_problematic \/ ~new.provider_id => new.review_required)
    BY <1>3, <1>4, <1>5, Zenon
  <1> QED BY <1>7, <1>8 DEF new

\* Closing links keeps their types.
LEMMA CloseLinksType ==
    ASSUME TypeOK, NEW ids, ids \subseteq ActiveLinks, CloseLinks(ids)
    PROVE  /\ link' \in [LinkIds -> LinkRows \cup {Absent}]
           /\ closings' \in [LinkIds -> Nat]
  <1>1. \A l \in ids : link[l] \in LinkRows
    BY DEF TypeOK, ActiveLinks
  <1>2. \A l \in ids : [link[l] EXCEPT !.is_active = FALSE] \in LinkRows
    BY <1>1 DEF LinkRows
  <1>3. link' \in [LinkIds -> LinkRows \cup {Absent}]
    BY <1>2 DEF CloseLinks, TypeOK
  <1>4. closings' \in [LinkIds -> Nat]
    BY DEF CloseLinks, TypeOK
  <1> QED BY <1>3, <1>4

\* update_phone_number keeps the types.
LEMMA UpdatePhoneType ==
    ASSUME TypeOK, NEW p \in Phones, NEW f \in PhoneForms, UpdatePhone(p, f)
    PROVE  TypeOK'
  <1>1. phone[p] \in PhoneRows
    BY DEF UpdatePhone, TypeOK
  <1>2. phone' \in [Phones -> PhoneRows \cup {Absent}]
    BY <1>1, UpdatedRowType DEF UpdatePhone, TypeOK
  <1>3. (IF ClosesLinks(f) THEN LinksOfPhone(p) ELSE {}) \subseteq ActiveLinks
    BY DEF LinksOfPhone
  <1>4. link' \in [LinkIds -> LinkRows \cup {Absent}] /\ closings' \in [LinkIds -> Nat]
    BY <1>3, CloseLinksType DEF UpdatePhone
  <1> QED BY <1>2, <1>4 DEF TypeOK

\* The import of a number keeps the types.
LEMMA ImportPhoneType ==
    ASSUME TypeOK, NEW p \in Phones, NEW f \in Forms, ImportPhone(p, f)
    PROVE  ImportForm(phone[p], LinksOfPhone(p) # {}, f) \in PhoneForms
  <1>1. f \in PhoneForms
    BY FormsAssumption
  <1>2. phone[p] \in PhoneRows
    BY DEF ImportPhone, TypeOK
  <1> QED BY <1>1, <1>2, ImportFormType

\* Every reachable state is a state of the schema: statuses are the three of
\* ck_phone_numbers_status, links refer to known routes and numbers.
THEOREM TypeCorrect == Spec => []TypeOK
  <1>1. Init => TypeOK
    BY DEF Init, TypeOK
  <1>2. TypeOK /\ [Next]_vars => TypeOK'
    <2> SUFFICES ASSUME TypeOK, [Next]_vars PROVE TypeOK'
      OBVIOUS
    <2>1. ASSUME NEW p \in Phones, NEW f \in Forms, CreatePhone(p, f)
          PROVE  TypeOK'
      <3>1. CreatedRow(f) \in PhoneRows
        BY FormsAssumption, CreatedRowType
      <3> QED BY <2>1, <3>1 DEF CreatePhone, TypeOK
    <2>2. ASSUME NEW r \in Routes, NEW p \in Phones, AddPhoneToRoute(r, p)
          PROVE  TypeOK'
      <3>1. phone[p] \in PhoneRows
        BY <2>2 DEF AddPhoneToRoute, TypeOK
      <3>2. [phone[p] EXCEPT !.status = "used"] \in PhoneRows
        BY <3>1 DEF PhoneRows, Statuses
      <3>3. phone' \in [Phones -> PhoneRows \cup {Absent}]
        BY <2>2, <3>2 DEF AddPhoneToRoute, TypeOK
      <3>4. link' \in [LinkIds -> LinkRows \cup {Absent}]
        BY <2>2 DEF AddPhoneToRoute, TypeOK, LinkRows
      <3> QED BY <2>2, <3>3, <3>4 DEF AddPhoneToRoute, TypeOK
    <2>3. ASSUME NEW r \in Routes, NEW ids \in SUBSET LinkIds, RemovePhoneLinks(r, ids)
          PROVE  TypeOK'
      <3>1. LinksOnRoute(r, ids) \subseteq ActiveLinks
        BY DEF LinksOnRoute
      <3> QED BY <2>3, <3>1, CloseLinksType DEF RemovePhoneLinks, TypeOK
    <2>4. ASSUME NEW p \in Phones, NEW f \in Forms, UpdatePhone(p, f)
          PROVE  TypeOK'
      BY <2>4, FormsAssumption, UpdatePhoneType
    <2>5. ASSUME NEW p \in Phones, NEW f \in Forms, ImportPhone(p, f)
          PROVE  TypeOK'
      BY <2>5, ImportPhoneType, UpdatePhoneType DEF ImportPhone
    <2>6. ASSUME NEW p \in Phones, FlagSpam(p)
          PROVE  TypeOK'
      BY <2>6 DEF FlagSpam, SpamFlagged, TypeOK, PhoneRows
    <2>7. CASE UNCHANGED vars
      BY <2>7 DEF vars, TypeOK
    <2> QED BY <2>1, <2>2, <2>3, <2>4, <2>5, <2>6, <2>7 DEF Next
  <1> QED BY <1>1, <1>2, PTL DEF Spec

--------------------------------------------------------------------------------
(***************************************************************************)
(* The safety invariants are inductive together: closing exactly the       *)
(* active links of a number needs LinkedPhoneInUse, adding one needs the   *)
(* absence of another, and the history counts need both.                   *)
(***************************************************************************)
Safety == TypeOK /\ LinkedPhoneInUse /\ ActiveLinkUnique /\ FlagsConsistent /\ HistoryExact

\* What closing a set of active links leaves behind.
LEMMA CloseLinksEffect ==
    ASSUME Safety, NEW ids, ids \subseteq ActiveLinks, CloseLinks(ids)
    PROVE  /\ ActiveLinks' = ActiveLinks \ ids
           /\ \A l \in ActiveLinks \ ids : link'[l] = link[l]
           /\ ActiveLinkUnique'
           /\ HistoryExact'
  <1>1. ids \subseteq LinkIds /\ \A l \in ids : link[l] \in LinkRows /\ link[l].is_active
    BY DEF Safety, TypeOK, ActiveLinks
  <1>2. \A l \in ids : link'[l] # Absent /\ ~link'[l].is_active
    <2>1. \A l \in ids : [link[l] EXCEPT !.is_active = FALSE] \in LinkRows
      BY <1>1 DEF LinkRows
    <2> QED BY <1>1, <2>1, AbsentAssumption DEF CloseLinks, LinkRows
  <1>3. \A l \in LinkIds \ ids : link'[l] = link[l]
    BY DEF CloseLinks
  <1>4. ActiveLinks' = ActiveLinks \ ids
    BY <1>1, <1>2, <1>3 DEF ActiveLinks
  <1>5. \A l \in ActiveLinks \ ids : link'[l] = link[l]
    BY <1>3 DEF ActiveLinks
  <1>6. ActiveLinkUnique'
    BY <1>4, <1>5 DEF Safety, ActiveLinkUnique
  <1>7. \A l \in ids : closings[l] = 0 /\ closings'[l] = closings[l] + 1
    BY <1>1, AbsentAssumption DEF Safety, HistoryExact, CloseLinks
  <1>8. \A l \in LinkIds \ ids : closings'[l] = closings[l]
    BY DEF CloseLinks
  <1>9. HistoryExact'
    <2> SUFFICES ASSUME NEW l \in LinkIds
                 PROVE  closings'[l] = IF link'[l] # Absent /\ ~link'[l].is_active THEN 1 ELSE 0
      BY DEF HistoryExact
    <2>1. CASE l \in ids
      BY <1>2, <1>7, <2>1
    <2>2. CASE l \notin ids
      BY <1>3, <1>8, <2>2 DEF Safety, HistoryExact
    <2> QED BY <2>1, <2>2
  <1> QED BY <1>4, <1>5, <1>6, <1>9

\* update_phone_number keeps the inductive invariant.
LEMMA UpdatePhoneSafety ==
    ASSUME Safety, NEW p \in Phones, NEW f \in PhoneForms, UpdatePhone(p, f)
    PROVE  Safety'
  <1> DEFINE ids == IF ClosesLinks(f) THEN LinksOfPhone(p) ELSE {}
  <1>1. TypeOK'
    BY UpdatePhoneType DEF Safety
  <1>2. ids \subseteq ActiveLinks /\ CloseLinks(ids)
    BY DEF LinksOfPhone, UpdatePhone
  <1>3. /\ ActiveLinks' = ActiveLinks \ ids
        /\ \A l \in ActiveLinks \ ids : link'[l] = link[l]
        /\ ActiveLinkUnique' /\ HistoryExact'
    BY <1>2, CloseLinksEffect
  <1>4. phone[p] \in PhoneRows /\ UpdatedRow(phone[p], phone[p], f) \in PhoneRows
    BY UpdatedRowType DEF UpdatePhone, Safety, TypeOK
  <1>5. phone' = [phone EXCEPT ![p] = UpdatedRow(phone[p], phone[p], f)]
    BY DEF UpdatePhone
  <1>6. phone'[p] = UpdatedRow(phone[p], phone[p], f) /\ phone'[p] # Absent
    BY <1>4, <1>5, AbsentAssumption DEF Safety, TypeOK
  <1>7. \A q \in Phones \ {p} : phone'[q] = phone[q]
    BY <1>5 DEF Safety, TypeOK
  <1>8. FlagsConsistent'
    <2>1. ~phone'[p].is_active => phone'[p].status = "unused" /\ phone'[p].deactivated_at
      BY <1>4, <1>6, UpdatedRowFlags
    <2>2. phone'[p].is_problematic \/ ~phone'[p].provider_id => phone'[p].review_required
      BY <1>4, <1>6, UpdatedRowFlags DEF UpdatePhone
    <2> QED BY <1>7, <2>1, <2>2 DEF FlagsConsistent, Safety
  <1>9. LinkedPhoneInUse'
    <2> SUFFICES ASSUME NEW l \in ActiveLinks \ ids
                 PROVE  LET row == phone'[link[l].phone] IN
                          row # Absent /\ row.is_active /\ row.status = "used"
      BY <1>3 DEF LinkedPhoneInUse
    <2>1. link[l].phone \in Phones /\ l \in ActiveLinks
      BY DEF ActiveLinks, Safety, TypeOK, LinkRows
    <2>2. CASE link[l].phone = p
      <3>1. ~ClosesLinks(f)
        BY <2>1, <2>2 DEF LinksOfPhone
      <3> QED BY <1>6, <2>2, <3>1 DEF ClosesLinks, UpdatedRow
    <2>3. CASE link[l].phone # p
      BY <1>7, <2>1, <2>3 DEF Safety, LinkedPhoneInUse
    <2> QED BY <2>2, <2>3
  <1> QED BY <1>1, <1>3, <1>8, <1>9 DEF Safety

\* add_phone_to_route keeps the inductive invariant.
LEMMA AddPhoneToRouteSafety ==
    ASSUME Safety, TypeOK', NEW r \in Routes, NEW p \in Phones, AddPhoneToRoute(r, p)
    PROVE  Safety'
  <1>1. PICK l \in LinkIds :
           /\ link[l] = Absent
           /\ link' = [link EXCEPT ![l] = [route |-> r, phone |-> p, is_active |-> TRUE]]
    BY DEF AddPhoneToRoute
  <1>2. link'[l] = [route |-> r, phone |-> p, is_active |-> TRUE] /\ link'[l] # Absent
    <2>1. link'[l] = [route |-> r, phone |-> p, is_active |-> TRUE]
      BY <1>1 DEF Safety, TypeOK
    <2>2. [route |-> r, phone |-> p, is_active |-> TRUE] \in LinkRows
      BY DEF LinkRows
    <2> QED BY <2>1, <2>2, AbsentAssumption
  <1>3. \A k \in LinkIds \ {l} : link'[k] = link[k]
    BY <1>1 DEF Safety, TypeOK
  <1>4. ActiveLinks' = ActiveLinks \cup {l} /\ l \notin ActiveLinks
    BY <1>1, <1>2, <1>3 DEF ActiveLinks
  <1>5. phone[p] \in PhoneRows /\ phone[p].is_active
    BY DEF AddPhoneToRoute, Safety, TypeOK
  <1>6. phone' = [phone EXCEPT ![p] = [phone[p] EXCEPT !.status = "used"]]
    BY DEF AddPhoneToRoute
  <1>7. \A q \in Phones \ {p} : phone'[q] = phone[q]
    BY <1>6 DEF Safety, TypeOK
  <1>8. phone'[p] = [phone[p] EXCEPT !.status = "used"]
    BY <1>6 DEF Safety, TypeOK
  <1>9. /\ phone'[p].status = "used" /\ phone'[p].is_active
        /\ phone'[p].is_problematic = phone[p].is_problematic
        /\ phone'[p].provider_id = phone[p].provider_id
        /\ phone'[p].review_required = phone[p].review_required
    BY <1>5, <1>8 DEF PhoneRows
  <1>10. phone'[p] # Absent
    <2>1. [phone[p] EXCEPT !.status = "used"] \in PhoneRows
      BY <1>5 DEF PhoneRows, Statuses
    <2> QED BY <1>8, <2>1, AbsentAssumption
  <1>11. FlagsConsistent'
    BY <1>5, <1>7, <1>9, AbsentAssumption DEF FlagsConsistent, Safety
  <1>12. LinkedPhoneInUse'
    <2> SUFFICES ASSUME NEW k \in ActiveLinks'
                 PROVE  LET row == phone'[link'[k].phone] IN
                          row # Absent /\ row.is_active /\ row.status = "used"
      BY DEF LinkedPhoneInUse
    <2>1. CASE k = l
      BY <1>2, <1>9, <1>10, <2>1
    <2>2. CASE k # l
      <3>1. k \in ActiveLinks /\ link'[k] = link[k] /\ link[k].phone \in Phones
        BY <1>3, <1>4, <2>2 DEF ActiveLinks, Safety, TypeOK, LinkRows
      <3> QED BY <1>7, <1>9, <1>10, <3>1 DEF LinkedPhoneInUse, Safety
    <2> QED BY <2>1, <2>2
  <1>13. ActiveLinkUnique'
    <2>1. \A k \in ActiveLinks : ~(link[k].route = r /\ link[k].phone = p)
      BY DEF AddPhoneToRoute, LinksBetween, LinksOfPhone
    <2>2. \A k \in ActiveLinks : link'[k] = link[k]
      BY <1>3, <1>4 DEF ActiveLinks
    <2> QED BY <1>2, <1>4, <2>1, <2>2 DEF ActiveLinkUnique, Safety
  <1>14. HistoryExact'
    BY <1>1, <1>2, <1>3 DEF HistoryExact, Safety, AddPhoneToRoute
  <1> QED BY <1>11, <1>12, <1>13, <1>14 DEF Safety

\* Requests that rewrite one row without touching links or its working state.
LEMMA RowRewriteSafety ==
    ASSUME Safety, TypeOK', UNCHANGED <<link, closings>>, NEW p \in Phones,
           \A q \in Phones \ {p} : phone'[q] = phone[q],
           phone'[p] # Absent,
           phone[p] # Absent =>
              phone'[p].is_active = phone[p].is_active /\ phone'[p].status = phone[p].status,
           ~phone'[p].is_active => phone'[p].status = "unused" /\ phone'[p].deactivated_at,
           phone'[p].is_problematic \/ ~phone'[p].provider_id => phone'[p].review_required
    PROVE  Safety'
  <1>1. ActiveLinks' = ActiveLinks /\ \A l \in ActiveLinks : link'[l] = link[l]
    BY DEF ActiveLinks
  <1>2. \A l \in ActiveLinks : link[l].phone \in Phones
    BY DEF ActiveLinks, Safety, TypeOK, LinkRows
  <1>3. LinkedPhoneInUse'
    <2> SUFFICES ASSUME NEW l \in ActiveLinks
                 PROVE  LET row == phone'[link[l].phone] IN
                          row # Absent /\ row.is_active /\ row.status = "used"
      BY <1>1 DEF LinkedPhoneInUse
    <2> QED BY <1>2 DEF LinkedPhoneInUse, Safety
  <1>4. ActiveLinkUnique' /\ HistoryExact'
    BY <1>1 DEF ActiveLinkUnique, HistoryExact, Safety
  <1>5. FlagsConsistent'
    BY DEF FlagsConsistent, Safety
  <1> QED BY <1>3, <1>4, <1>5 DEF Safety

\* Every request keeps the inductive invariant.
LEMMA SafetyStep == Safety /\ TypeOK' /\ [Next]_vars => Safety'
  <1> SUFFICES ASSUME Safety, TypeOK', [Next]_vars PROVE Safety'
    OBVIOUS
  <1>1. ASSUME NEW p \in Phones, NEW f \in Forms, CreatePhone(p, f)
        PROVE  Safety'
    <2>1. f \in PhoneForms /\ CreatedRow(f) \in PhoneRows
      BY FormsAssumption, CreatedRowType
    <2>2. phone'[p] = CreatedRow(f) /\ phone'[p] # Absent
      BY <1>1, <2>1, AbsentAssumption DEF CreatePhone, Safety, TypeOK
    <2>3. ~phone'[p].is_active => phone'[p].status = "unused" /\ phone'[p].deactivated_at
      BY <2>1, <2>2, CreatedRowFlags
    <2>4. phone'[p].is_problematic \/ ~phone'[p].provider_id => phone'[p].review_required
      BY <1>1, <2>1, <2>2, CreatedRowFlags DEF CreatePhone
    <2>5. \A q \in Phones \ {p} : phone'[q] = phone[q]
      BY <1>1 DEF CreatePhone, Safety, TypeOK
    <2> QED BY <1>1, <2>2, <2>3, <2>4, <2>5, RowRewriteSafety DEF CreatePhone
  <1>2. ASSUME NEW r \in Routes, NEW p \in Phones, AddPhoneToRoute(r, p)
        PROVE  Safety'
    BY <1>2, AddPhoneToRouteSafety
  <1>3. ASSUME NEW r \in Routes, NEW ids \in SUBSET LinkIds, RemovePhoneLinks(r, ids)
        PROVE  Safety'
    <2>1. LinksOnRoute(r, ids) \subseteq ActiveLinks /\ CloseLinks(LinksOnRoute(r, ids))
      BY <1>3 DEF LinksOnRoute, RemovePhoneLinks
    <2>2. /\ ActiveLinks' = ActiveLinks \ LinksOnRoute(r, ids)
          /\ \A l \in ActiveLinks \ LinksOnRoute(r, ids) : link'[l] = link[l]
          /\ ActiveLinkUnique' /\ HistoryExact'
      BY <2>1, CloseLinksEffect
    <2>3. LinkedPhoneInUse' /\ FlagsConsistent'
      BY <1>3, <2>2 DEF RemovePhoneLinks, LinkedPhoneInUse, FlagsConsistent, Safety
    <2> QED BY <2>2, <2>3 DEF Safety
  <1>4. ASSUME NEW p \in Phones, NEW f \in Forms, UpdatePhone(p, f)
        PROVE  Safety'
    BY <1>4, FormsAssumption, UpdatePhoneSafety
  <1>5. ASSUME NEW p \in Phones, NEW f \in Forms, ImportPhone(p, f)
        PROVE  Safety'
    BY <1>5, ImportPhoneType, UpdatePhoneSafety DEF ImportPhone, Safety
  <1>6. ASSUME NEW p \in Phones, FlagSpam(p)
        PROVE  Safety'
    <2>1. phone[p] \in PhoneRows /\ phone'[p] = SpamFlagged(phone[p])
      BY <1>6 DEF FlagSpam, Safety, TypeOK
    <2>2. /\ phone'[p] \in PhoneRows /\ phone'[p].review_required
          /\ phone'[p].is_active = phone[p].is_active /\ phone'[p].status = phone[p].status
          /\ phone'[p].deactivated_at = phone[p].deactivated_at
      BY <2>1 DEF SpamFlagged, PhoneRows
    <2>3. \A q \in Phones \ {p} : phone'[q] = phone[q]
      BY <1>6 DEF FlagSpam, Safety, TypeOK
    <2>4. ~phone[p].is_active => phone[p].status = "unused" /\ phone[p].deactivated_at
      BY <1>6 DEF FlagSpam, FlagsConsistent, Safety
    <2> QED BY <1>6, <2>2, <2>3, <2>4, AbsentAssumption, RowRewriteSafety DEF FlagSpam
  <1>7. CASE UNCHANGED vars
    BY <1>7 DEF vars, Safety, TypeOK, LinkedPhoneInUse, ActiveLinkUnique, FlagsConsistent,
       HistoryExact, ActiveLinks
  <1> QED BY <1>1, <1>2, <1>3, <1>4, <1>5, <1>6, <1>7 DEF Next

\* The inductive invariant holds in every reachable state.
LEMMA SafetyInvariant == Spec => []Safety
  <1>1. Init => Safety
    BY DEF Init, Safety, TypeOK, LinkedPhoneInUse, ActiveLinkUnique, FlagsConsistent,
       HistoryExact, ActiveLinks
  <1> QED BY <1>1, SafetyStep, TypeCorrect, PTL DEF Spec

\* Run one at a time, requests never leave a linked number out of use.
THEOREM LinkedPhonesInUse == Spec => []LinkedPhoneInUse
  <1>1. Safety => LinkedPhoneInUse
    BY DEF Safety
  <1> QED BY <1>1, SafetyInvariant, PTL

\* Run one at a time, requests keep the flags of a number in agreement.
THEOREM FlagsAgree == Spec => []FlagsConsistent
  <1>1. Safety => FlagsConsistent
    BY DEF Safety
  <1> QED BY <1>1, SafetyInvariant, PTL

\* Run one at a time, requests link a number to a route once and write one
\* history row for each link they close.
THEOREM LinksUniqueAndLogged == Spec => [](ActiveLinkUnique /\ HistoryExact)
  <1>1. Safety => ActiveLinkUnique /\ HistoryExact
    BY DEF Safety
  <1> QED BY <1>1, SafetyInvariant, PTL

\* Run one at a time, no request brings an inactive number back unreviewed.
THEOREM ReactivationsReviewed == Spec => ReactivationReviewed
  <1> DEFINE Back == \A p \in Phones :
          phone[p] # Absent /\ ~phone[p].is_active /\ phone'[p].is_active
              => phone'[p].review_required
  <1>1. TypeOK /\ [Next]_vars => [Back]_vars
    <2> SUFFICES ASSUME TypeOK, Next, NEW q \in Phones, phone[q] # Absent,
                        ~phone[q].is_active, phone'[q].is_active
                 PROVE  phone'[q].review_required
      BY DEF Back
    <2>1. phone[q] \in PhoneRows
      BY DEF TypeOK
    <2>2. ASSUME NEW p \in Phones, NEW f \in PhoneForms, UpdatePhone(p, f)
          PROVE  phone'[q].review_required
      <3>1. p = q
        BY <2>2 DEF UpdatePhone, TypeOK
      <3>2. phone'[q] = UpdatedRow(phone[q], phone[q], f)
        BY <2>2, <3>1 DEF UpdatePhone, TypeOK
      <3> DEFINE new == UpdatedRow(phone[q], phone[q], f)
      <3>3. /\ new.is_active = f.is_active
            /\ f.is_active /\ ~phone[q].is_active => new.review_required
        BY <2>1, ReviewForced
      <3>4. phone'[q] = new
        BY <3>2
      <3> HIDE DEF new
      <3> QED BY <3>3, <3>4, Zenon
    <2>3. ASSUME NEW p \in Phones, NEW f \in Forms, CreatePhone(p, f)
          PROVE  phone'[q].review_required
      BY <2>3 DEF CreatePhone, TypeOK
    <2>4. ASSUME NEW r \in Routes, NEW p \in Phones, AddPhoneToRoute(r, p)
          PROVE  phone'[q].review_required
      BY <2>1, <2>4 DEF AddPhoneToRoute, TypeOK, PhoneRows
    <2>5. ASSUME NEW r \in Routes, NEW ids \in SUBSET LinkIds, RemovePhoneLinks(r, ids)
          PROVE  phone'[q].review_required
      BY <2>5 DEF RemovePhoneLinks
    <2>6. ASSUME NEW p \in Phones, NEW f \in Forms, ImportPhone(p, f)
          PROVE  phone'[q].review_required
      BY <2>2, <2>6, ImportPhoneType DEF ImportPhone
    <2>7. ASSUME NEW p \in Phones, FlagSpam(p)
          PROVE  phone'[q].review_required
      <3>1. phone' = [phone EXCEPT ![p] = SpamFlagged(phone[p])]
        BY <2>7 DEF FlagSpam
      <3>2. SpamFlagged(phone[q]).is_active = phone[q].is_active
        BY <2>1 DEF SpamFlagged, PhoneRows
      <3> QED BY <3>1, <3>2 DEF TypeOK
    <2> QED BY <2>2, <2>3, <2>4, <2>5, <2>6, <2>7, FormsAssumption DEF Next
  <1> QED BY <1>1, TypeCorrect, PTL DEF Spec, ReactivationReviewed
================================================================================
