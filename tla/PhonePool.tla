------------------------------- MODULE PhonePool -------------------------------
(***************************************************************************)
(* Purchased phone numbers and their links to routes, as the repository    *)
(* methods change them when every request runs alone.  One action is one   *)
(* request: it either commits everything or (not modelled: no state        *)
(* change) is refused.  PhoneSessions refines these actions into the SQL   *)
(* statements that concurrent requests interleave.                         *)
(***************************************************************************)
EXTENDS Naturals

CONSTANTS Phones,   \* identities of phone_numbers rows
          Routes,   \* identities of routes rows
          LinkIds,  \* identities route_phone_numbers rows may take (a bound)
          Forms,    \* the submitted phone forms that are considered
          Absent    \* "no such row"

Statuses == {"used", "unused", "unknown"}

\* Every spelling of a working status a form or a spreadsheet may carry.
RawStatuses == Statuses \cup {"reserved", "free", "blocked", "disabled", "problem", "other"}

NormalizeStatus(raw) ==
    IF raw \in Statuses THEN raw
    ELSE IF raw \in {"reserved", "free"} THEN "unused" ELSE "unknown"

IsLegacyProblem(raw) == raw \in {"blocked", "disabled", "problem"}

\* "renumber": the form changes normalized_number, the column foreign keys
\* could reference, which decides the strength of the row lock.
PhoneForms == [is_active: BOOLEAN, status: RawStatuses, review_required: BOOLEAN,
               is_problematic: BOOLEAN, provider_id: BOOLEAN, renumber: BOOLEAN]

\* provider_id and deactivated_at stand for "is not NULL".
PhoneRows == [is_active: BOOLEAN, status: Statuses, review_required: BOOLEAN,
              is_problematic: BOOLEAN, provider_id: BOOLEAN, deactivated_at: BOOLEAN]

LinkRows == [route: Routes, phone: Phones, is_active: BOOLEAN]

ASSUME FormsAssumption == Forms \subseteq PhoneForms
ASSUME AbsentAssumption == Absent \notin PhoneRows \cup LinkRows

VARIABLES phone,     \* phone_numbers: Phones -> row or Absent
          link,      \* route_phone_numbers: LinkIds -> row or Absent
          closings   \* per link, the "removed" rows written to its history

vars == <<phone, link, closings>>

(***************************************************************************)
(* What a submitted form makes of a row.                                   *)
(***************************************************************************)
Problematic(f) == f.is_problematic \/ IsLegacyProblem(f.status)

\* Fault: the spelling of the form is stored as it is.
StoredStatusRaw(f) == IF f.is_active THEN f.status ELSE "unused"

StoredStatus(f) == IF f.is_active THEN NormalizeStatus(f.status) ELSE "unused"

CreatedRow(f) ==
    [is_active |-> f.is_active, status |-> StoredStatus(f),
     review_required |-> f.review_required \/ Problematic(f),
     is_problematic |-> Problematic(f),
     provider_id |-> f.provider_id, deactivated_at |-> ~f.is_active]

\* Fault: a number switched back on is treated like any other edit.
FinalReviewUnforced(seen, f) == f.review_required \/ Problematic(f)

\* "seen" is the row the request read before it decided; a number switched
\* back on is sent to review whatever the form says.
FinalReview(seen, f) ==
    f.review_required \/ (f.is_active /\ ~seen.is_active) \/ Problematic(f)

UpdateAccepted(seen, f) == f.provider_id \/ FinalReview(seen, f)

\* Fault: the deactivation date is left to the form.
UpdatedRowUndated(seen, row, f) ==
    [is_active |-> f.is_active, status |-> StoredStatus(f),
     review_required |-> FinalReview(seen, f), is_problematic |-> Problematic(f),
     provider_id |-> f.provider_id, deactivated_at |-> row.deactivated_at]

\* The row written; deactivated_at is computed from the row being replaced.
UpdatedRow(seen, row, f) ==
    [is_active |-> f.is_active, status |-> StoredStatus(f),
     review_required |-> FinalReview(seen, f), is_problematic |-> Problematic(f),
     provider_id |-> f.provider_id,
     deactivated_at |-> row.deactivated_at \/ ~f.is_active]

\* Fault: only deactivation closes links, not a change of working status.
ClosesLinksInactive(f) == ~f.is_active

ClosesLinks(f) == ~f.is_active \/ StoredStatus(f) # "used"

\* An import row is merged with the stored flags; a problematic number that
\* is still linked stays in use.
ImportForm(seen, linked, f) ==
    LET problem == f.is_problematic \/ seen.is_problematic IN
    [f EXCEPT !.is_problematic = problem,
              !.status = IF problem /\ f.is_active /\ linked THEN "used" ELSE @,
              !.review_required = @ \/ seen.review_required,
              !.renumber = FALSE]

\* Fault: the review flag is forgotten.
SpamFlaggedOnly(row) == [row EXCEPT !.is_problematic = TRUE]

SpamFlagged(row) == [row EXCEPT !.is_problematic = TRUE, !.review_required = TRUE]

(***************************************************************************)
(* Links                                                                   *)
(***************************************************************************)
ActiveLinks == {l \in LinkIds : link[l] # Absent /\ link[l].is_active}
LinksOfPhone(p) == {l \in ActiveLinks : link[l].phone = p}
LinksBetween(r, p) == {l \in LinksOfPhone(p) : link[l].route = r}
\* Fault: links already closed are closed again.
LinksOnRouteAny(r, ids) == {l \in ids : link[l] # Absent /\ link[l].route = r}

LinksOnRoute(r, ids) == {l \in ids \cap ActiveLinks : link[l].route = r}

CloseLinks(ids) ==
    /\ link' = [l \in LinkIds |-> IF l \in ids THEN [link[l] EXCEPT !.is_active = FALSE]
                                  ELSE link[l]]
    /\ closings' = [l \in LinkIds |-> IF l \in ids THEN closings[l] + 1 ELSE closings[l]]

(***************************************************************************)
(* Requests                                                                *)
(***************************************************************************)
Init ==
    /\ phone = [p \in Phones |-> Absent]
    /\ link = [l \in LinkIds |-> Absent]
    /\ closings = [l \in LinkIds |-> 0]

\* Create form, bulk form and import all send a number without a provider to
\* review; the unique number means a row is created once.
CreatePhone(p, f) ==
    /\ phone[p] = Absent
    /\ f.provider_id \/ f.review_required
    /\ phone' = [phone EXCEPT ![p] = CreatedRow(f)]
    /\ UNCHANGED <<link, closings>>

\* Fault: no check for an existing link.
AddPhoneToRouteTwice(r, p) ==
    /\ phone[p] # Absent
    /\ phone[p].is_active
    /\ phone' = [phone EXCEPT ![p].status = "used"]
    /\ \E l \in LinkIds :
          /\ link[l] = Absent
          /\ link' = [link EXCEPT ![l] = [route |-> r, phone |-> p, is_active |-> TRUE]]
    /\ UNCHANGED closings

AddPhoneToRoute(r, p) ==
    /\ phone[p] # Absent
    /\ phone[p].is_active
    /\ LinksBetween(r, p) = {}
    /\ phone' = [phone EXCEPT ![p].status = "used"]
    /\ \E l \in LinkIds :
          /\ link[l] = Absent
          /\ link' = [link EXCEPT ![l] = [route |-> r, phone |-> p, is_active |-> TRUE]]
    /\ UNCHANGED closings

RemovePhoneLinks(r, ids) ==
    /\ LinksOnRoute(r, ids) # {}
    /\ CloseLinks(LinksOnRoute(r, ids))
    /\ UNCHANGED phone

UpdatePhone(p, f) ==
    /\ phone[p] # Absent
    /\ UpdateAccepted(phone[p], f)
    /\ phone' = [phone EXCEPT ![p] = UpdatedRow(@, @, f)]
    /\ CloseLinks(IF ClosesLinks(f) THEN LinksOfPhone(p) ELSE {})

ImportPhone(p, f) ==
    /\ phone[p] # Absent
    /\ UpdatePhone(p, ImportForm(phone[p], LinksOfPhone(p) # {}, f))

\* A batch of SPAM checks that brings the number's score to 5.
FlagSpam(p) ==
    /\ phone[p] # Absent
    /\ phone' = [phone EXCEPT ![p] = SpamFlagged(@)]
    /\ UNCHANGED <<link, closings>>

Next ==
    \/ \E p \in Phones, f \in Forms : CreatePhone(p, f)
    \/ \E r \in Routes, p \in Phones : AddPhoneToRoute(r, p)
    \/ \E r \in Routes, ids \in SUBSET LinkIds : RemovePhoneLinks(r, ids)
    \/ \E p \in Phones, f \in Forms : UpdatePhone(p, f)
    \/ \E p \in Phones, f \in Forms : ImportPhone(p, f)
    \/ \E p \in Phones : FlagSpam(p)

Spec == Init /\ [][Next]_vars

(***************************************************************************)
(* Properties                                                              *)
(***************************************************************************)
TypeOK ==
    /\ phone \in [Phones -> PhoneRows \cup {Absent}]
    /\ link \in [LinkIds -> LinkRows \cup {Absent}]
    /\ closings \in [LinkIds -> Nat]

\* A number that is linked to a route exists, is active at its provider and
\* its working status is "used": what add_phone_to_route promotes and what
\* update_phone_number closes links for.
LinkedPhoneInUse ==
    \A l \in ActiveLinks : LET row == phone[link[l].phone] IN
        row # Absent /\ row.is_active /\ row.status = "used"

\* A route carries a number at most once at a time (the check that precedes
\* the insert of a link, backed by ux_route_phone_numbers_active_link).
ActiveLinkUnique ==
    \A l, m \in ActiveLinks :
        link[l].route = link[m].route /\ link[l].phone = link[m].phone => l = m

\* Flags of a row agree with one another, whichever request wrote last:
\* an inactive number is unused and carries its deactivation date, and a
\* problematic number, or one without a provider, waits for review.
FlagsConsistent ==
    \A p \in Phones : phone[p] # Absent =>
        /\ ~phone[p].is_active => phone[p].status = "unused" /\ phone[p].deactivated_at
        /\ phone[p].is_problematic \/ ~phone[p].provider_id => phone[p].review_required

\* The history explains every link: exactly one closing for a closed link,
\* none for a link still active or not yet created.
HistoryExact ==
    \A l \in LinkIds :
        closings[l] = IF link[l] # Absent /\ ~link[l].is_active THEN 1 ELSE 0

\* A number switched back on by any request comes back under review
\* (forced_review_required in update_phone_number).
ReactivationReviewed ==
    [][\A p \in Phones :
          phone[p] # Absent /\ ~phone[p].is_active /\ phone'[p].is_active
              => phone'[p].review_required]_vars
================================================================================
