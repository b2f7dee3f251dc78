---------------------------- MODULE MCPhoneSessions ----------------------------
EXTENDS PhoneSessions, TLC

\* Forms that differ in what the properties tell apart: in use, out of use,
\* switched off, problematic, without a provider, with a changed number.
Form(active, status, review, problem, provider, renumber) ==
    [is_active |-> active, status |-> status, review_required |-> review,
     is_problematic |-> problem, provider_id |-> provider, renumber |-> renumber]

FewForms == {Form(TRUE, "used", FALSE, FALSE, TRUE, FALSE),
             Form(TRUE, "free", TRUE, FALSE, FALSE, FALSE),
             Form(FALSE, "used", FALSE, TRUE, TRUE, TRUE)}

TwoForms == {Form(TRUE, "used", FALSE, FALSE, TRUE, FALSE),
             Form(FALSE, "used", FALSE, FALSE, TRUE, TRUE)}

\* Every worker may serve requests about every number.
SharedReach == [w \in Workers |-> Phones]

WorkerSymmetry == Permutations(Workers) \cup Permutations(LinkIds)
================================================================================
