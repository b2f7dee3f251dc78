------------------------------- MODULE MCProgress -------------------------------
EXTENDS Progress, TLC

CONSTANTS w1, w2, s1, g1, g2, r1, r3

\* A number in use, and one switched off with a changed number.
Form(active, renumber) ==
    [is_active |-> active, status |-> "used", review_required |-> FALSE,
     is_problematic |-> FALSE, provider_id |-> TRUE, renumber |-> renumber]

TwoForms == {Form(TRUE, FALSE), Form(FALSE, TRUE)}

\* Every worker may serve requests about every number.
SharedReach == [w \in Workers |-> Phones]

TwoRoutes == r1 :> g1 @@ r3 :> g2

\* Campaigns that stay where they are.
FixedRows == {[geo |-> g1, server |-> s1, is_active |-> TRUE]}
================================================================================
