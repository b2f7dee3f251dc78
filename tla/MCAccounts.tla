------------------------------- MODULE MCAccounts ------------------------------
EXTENDS Accounts, TLC

CONSTANTS u1, u2, w1, w2

AllForms == Forms

\* Forms that keep access by role and leave the password alone.
PlainForms == {f \in Forms : f.rights = "role" /\ f.password = "none"}

Symmetry == Permutations(Usernames) \cup Permutations(Workers)
================================================================================
