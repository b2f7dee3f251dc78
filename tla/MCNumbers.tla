-------------------------------- MODULE MCNumbers -------------------------------
(* The requests about purchased numbers one at a time, and requests that      *)
(* overlap but keep to numbers of their own, statement by statement: two      *)
(* databases, of which one is followed.                                       *)
EXTENDS PhonePool, TLC

VARIABLES overlap,    \* requests overlap
          sharedPhone, sharedLink, sharedClosings,
          pc, req, seen, todo, wPhone, wLink, wClosed

Form(active, status, review, problem, provider, renumber) ==
    [is_active |-> active, status |-> status, review_required |-> review,
     is_problematic |-> problem, provider_id |-> provider, renumber |-> renumber]

\* Forms that differ in every flag the properties speak of.
AllForms == {Form(a, s, v, b, p, FALSE) : a \in BOOLEAN, s \in {"used", "free", "problem"},
                                          v \in BOOLEAN, b \in BOOLEAN, p \in BOOLEAN}

\* In use; switched off, with a changed number.
TwoForms == {Form(TRUE, "used", FALSE, FALSE, TRUE, FALSE),
             Form(FALSE, "used", FALSE, TRUE, TRUE, TRUE)}

\* One worker for each number, which is the only one it serves.
Session == INSTANCE PhoneSessions
    WITH Workers <- Phones, Forms <- TwoForms, Reach <- [w \in Phones |-> {w}],
         Ops <- {"create", "add", "remove", "update", "import", "spam"},
         phone <- sharedPhone, link <- sharedLink, closings <- sharedClosings

sharedVars == <<sharedPhone, sharedLink, sharedClosings, pc, req, seen, todo,
                wPhone, wLink, wClosed>>

NumbersInit == overlap \in BOOLEAN /\ Init /\ Session!Init

NumbersNext ==
    /\ UNCHANGED overlap
    /\ \/ ~overlap /\ Next /\ UNCHANGED sharedVars
       \/ overlap /\ Session!Next /\ UNCHANGED vars

NumbersSpec == NumbersInit /\ [][NumbersNext]_<<overlap, vars, sharedVars>>

\* Requests that touch different numbers do not disturb one another: run
\* concurrently, their commits are those of the one-at-a-time PhonePool.
ImplementsPool == Session!ImplementsPool

Symmetry == Permutations(Phones) \cup Permutations(LinkIds)
================================================================================
