-------------------------------- MODULE Accounts -------------------------------
(***************************************************************************)
(* User accounts: /admin/users/create, /admin/users/{id}/update and        *)
(* /change-password, statement by statement.  Every write commits at once, *)
(* so a request that is refused or lost halfway keeps what it wrote.       *)
(* Signing in is a single step here, LoginThrottle has its statements.     *)
(***************************************************************************)
CONSTANTS Workers, Usernames,     \* Usernames: the usernames that exist or may be created
          Roles,
          Inputs,             \* the forms users send
          Serial,             \* TRUE: requests do not overlap
          Nobody

ASSUME RolesAssumption == "admin" \in Roles
ASSUME SerialAssumption == Serial \in BOOLEAN
ASSUME UsernamesAssumption == Nobody \notin Usernames

\* Access by role, or a matrix of its own with or without writing to "admin".
Rights == {"role", "custom_admin", "custom"}

UserRows == [role: Roles, is_active: BOOLEAN, must_change: BOOLEAN]

\* "short" stands for a password that is too short or confirmed wrongly.
Forms == [role: Roles, is_active: BOOLEAN, rights: Rights, password: {"none", "good", "short"}]

ASSUME InputsAssumption == Inputs \subseteq Forms /\ Inputs # {}

\* A request without a form of this kind.
NoForm == CHOOSE f \in Inputs : TRUE

ASSUME UserRowsAssumption == Nobody \notin UserRows \cup Forms

Steps == {"idle", "read", "count", "write", "password", "rights",
          "lookup", "insert", "save", "own_password"}

Jobs == [step: Steps, actor: Usernames, user: Usernames, form: Forms]
Idle == [step |-> "idle"]

VARIABLES users,       \* Usernames -> row or Nobody
          rights,      \* Usernames -> Rights, as the rows of user_permissions say
          signed_in,   \* users with a valid cookie
          worker,      \* Workers -> request in progress
          applied      \* per user, the form of an edit by another account that was
                       \* reported as saved, until somebody writes to the user again

accountVars == <<users, rights, signed_in, worker, applied>>

(***************************************************************************)
(* Reading                                                                 *)
(***************************************************************************)
Is(u, role) == users[u] # Nobody /\ users[u].role = role
IsActive(u) == users[u] # Nobody /\ users[u].is_active
IsAdmin(u) == Is(u, "admin") /\ IsActive(u)

\* has_permission(Nobody, "admin", "write"); of the roles only admin has it.
MayAdminister(u) == Is(u, "admin") \/ rights[u] = "custom_admin"

\* Whoever has to change the password is sent to do so first.
Authorised(u) == u \in signed_in /\ IsActive(u) /\ ~users[u].must_change /\ MayAdminister(u)

\* Fault: an administrator's role is stored as its rights.
SavedAdmin(f) == IF f.role = "admin" THEN f.role ELSE f.rights

\* What save_user_permissions stores.
Saved(f) == IF f.role = "admin" THEN "role" ELSE f.rights

Demotes(f) == f.role # "admin" \/ ~f.is_active

(***************************************************************************)
(* Requests                                                                *)
(***************************************************************************)
At(w, step) == worker[w].step = step
Free(w) == At(w, "idle") /\ (Serial => \A v \in Workers : At(v, "idle"))

Go(w, step) == worker' = [worker EXCEPT ![w].step = step]
End(w) == worker' = [worker EXCEPT ![w] = Idle]
Begin(w, step, a, u, f) ==
    worker' = [worker EXCEPT ![w] = [step |-> step, actor |-> a, user |-> u, form |-> f]]

\* Deployment creates the first administrator.
AccountsInit ==
    /\ \E u \in Usernames, m \in BOOLEAN :
          users = [x \in Usernames |-> IF x = u
                      THEN [role |-> "admin", is_active |-> TRUE, must_change |-> m] ELSE Nobody]
    /\ rights = [u \in Usernames |-> "role"]
    /\ signed_in = {}
    /\ worker = [w \in Workers |-> Idle]
    /\ applied = [u \in Usernames |-> Nobody]

SignIn(u) ==
    /\ IsActive(u)
    /\ signed_in' = signed_in \cup {u}
    /\ UNCHANGED <<users, rights, worker, applied>>

SignOut(u) ==
    /\ u \in signed_in
    /\ signed_in' = signed_in \ {u}
    /\ UNCHANGED <<users, rights, worker, applied>>

BeginUpdate(w, a, u, f) ==
    /\ Free(w) /\ Authorised(a)
    /\ Begin(w, "read", a, u, f)
    /\ UNCHANGED <<users, rights, signed_in, applied>>

\* Fault: the own account is protected by the page only.
ReadTargetUnprotected(w) ==
    LET u == worker[w].user  f == worker[w].form IN
    /\ At(w, "read")
    /\ \/ users[u] = Nobody /\ End(w)
       \/ IsAdmin(u) /\ Demotes(f) /\ Go(w, "count")
       \/ users[u] # Nobody /\ ~(IsAdmin(u) /\ Demotes(f)) /\ Go(w, "write")
    /\ UNCHANGED <<users, rights, signed_in, applied>>

\* Nobody deactivates the own account or gives up the own role of admin.
RefusesOwn(a, u, f) ==
    /\ u = a
    /\ \/ IsActive(u) /\ ~f.is_active
       \/ Is(u, "admin") /\ f.role # "admin"

ReadTarget(w) ==
    LET a == worker[w].actor  u == worker[w].user  f == worker[w].form IN
    /\ At(w, "read")
    /\ IF users[u] = Nobody \/ RefusesOwn(a, u, f) THEN End(w)
       ELSE IF IsAdmin(u) /\ Demotes(f) THEN Go(w, "count")
       ELSE Go(w, "write")
    /\ UNCHANGED <<users, rights, signed_in, applied>>

\* Fault: the administrator to be switched off is counted too.
CountIncludingTarget(w) ==
    /\ At(w, "count")
    /\ IF \E x \in Usernames : IsAdmin(x) THEN Go(w, "write") ELSE End(w)
    /\ UNCHANGED <<users, rights, signed_in, applied>>

\* Another active administrator must exist.
Count(w) ==
    /\ At(w, "count")
    /\ IF \E x \in Usernames \ {worker[w].user} : IsAdmin(x) THEN Go(w, "write") ELSE End(w)
    /\ UNCHANGED <<users, rights, signed_in, applied>>

\* update_user; the password is looked at after its commit.
WriteUser(w) ==
    LET u == worker[w].user  f == worker[w].form IN
    /\ At(w, "write")
    /\ users' = [users EXCEPT ![u].role = f.role, ![u].is_active = f.is_active]
    /\ applied' = [applied EXCEPT ![u] = Nobody]
    /\ CASE f.password = "none" -> Go(w, "rights")
         [] f.password = "good" -> Go(w, "password")
         [] f.password = "short" -> End(w)
    /\ UNCHANGED <<rights, signed_in>>

\* Fault: a reset password ends every request before the rights are saved.
WritePasswordOnly(w) ==
    LET u == worker[w].user IN
    /\ At(w, "password")
    /\ users' = [users EXCEPT ![u].must_change = TRUE]
    /\ End(w)
    /\ signed_in' = IF u = worker[w].actor THEN signed_in \ {u} ELSE signed_in
    /\ applied' = IF u = worker[w].actor THEN applied ELSE [applied EXCEPT ![u] = worker[w].form]
    /\ UNCHANGED rights

\* update_user_password.  Who resets the own password is signed out, and the
\* rights of the form are not saved.
WritePassword(w) ==
    LET u == worker[w].user IN
    /\ At(w, "password")
    /\ users' = [users EXCEPT ![u].must_change = TRUE]
    /\ IF u = worker[w].actor
       THEN End(w) /\ signed_in' = signed_in \ {u}
       ELSE Go(w, "rights") /\ UNCHANGED signed_in
    /\ UNCHANGED <<rights, applied>>

\* save_user_permissions of an update.
WriteRights(w) ==
    LET a == worker[w].actor  u == worker[w].user  f == worker[w].form IN
    /\ At(w, "rights")
    /\ rights' = [rights EXCEPT ![u] = Saved(f)]
    /\ applied' = [applied EXCEPT ![u] = IF a = u THEN Nobody ELSE f]
    /\ End(w)
    /\ UNCHANGED <<users, signed_in>>

\* The form of a new user has a password of its own; password "good" asks for
\* its change at the first sign-in.
BeginCreate(w, a, u, f) ==
    /\ Free(w) /\ Authorised(a)
    /\ f.is_active /\ f.password # "short"
    /\ Begin(w, "lookup", a, u, f)
    /\ UNCHANGED <<users, rights, signed_in, applied>>

\* create_user returns the user of that name, if there is one.
Lookup(w) ==
    /\ At(w, "lookup")
    /\ Go(w, IF users[worker[w].user] = Nobody THEN "insert" ELSE "save")
    /\ UNCHANGED <<users, rights, signed_in, applied>>

\* The unique username refuses the second of two creations.
InsertUser(w) ==
    LET u == worker[w].user  f == worker[w].form IN
    /\ At(w, "insert")
    /\ IF users[u] = Nobody
       THEN /\ users' = [users EXCEPT ![u] = [role |-> f.role, is_active |-> TRUE,
                                              must_change |-> f.password = "good"]]
            /\ Go(w, "save")
       ELSE End(w) /\ UNCHANGED users
    /\ UNCHANGED <<rights, signed_in, applied>>

\* save_user_permissions of a creation.
Save(w) ==
    LET u == worker[w].user IN
    /\ At(w, "save")
    /\ rights' = [rights EXCEPT ![u] = Saved(worker[w].form)]
    /\ applied' = [applied EXCEPT ![u] = Nobody]
    /\ End(w)
    /\ UNCHANGED <<users, signed_in>>

BeginOwnPassword(w, a) ==
    /\ Free(w) /\ a \in signed_in /\ IsActive(a)
    /\ Begin(w, "own_password", a, a, NoForm)
    /\ UNCHANGED <<users, rights, signed_in, applied>>

OwnPassword(w) ==
    /\ At(w, "own_password")
    /\ users' = [users EXCEPT ![worker[w].user].must_change = FALSE]
    /\ End(w)
    /\ UNCHANGED <<rights, signed_in, applied>>

\* The connection of a request is lost; its commits stay.
Disconnect(w) ==
    /\ ~At(w, "idle")
    /\ End(w)
    /\ UNCHANGED <<users, rights, signed_in, applied>>

Step(w) ==
    \/ ReadTarget(w) \/ Count(w) \/ WriteUser(w) \/ WritePassword(w) \/ WriteRights(w)
    \/ Lookup(w) \/ InsertUser(w) \/ Save(w) \/ OwnPassword(w)

AccountsNext ==
    \/ \E u \in Usernames : SignIn(u) \/ SignOut(u)
    \/ \E w \in Workers, a \in Usernames :
          \/ \E u \in Usernames, f \in Inputs : BeginUpdate(w, a, u, f) \/ BeginCreate(w, a, u, f)
          \/ BeginOwnPassword(w, a)
    \/ \E w \in Workers : Step(w) \/ Disconnect(w)

AccountsSpec == AccountsInit /\ [][AccountsNext]_accountVars

(***************************************************************************)
(* Properties                                                              *)
(***************************************************************************)
AccountsTypeOK ==
    /\ users \in [Usernames -> UserRows \cup {Nobody}]
    /\ rights \in [Usernames -> Rights]
    /\ signed_in \subseteq Usernames
    /\ worker \in [Workers -> Jobs \cup {Idle}]
    /\ applied \in [Usernames -> Forms \cup {Nobody}]

\* The last active administrator is never switched off or demoted.
AdminRemains == \E u \in Usernames : IsAdmin(u)

\* An administrator stops being one by a request of another account only, and
\* while a further administrator stays.
LostToAnother ==
    [][\A u \in Usernames : IsAdmin(u) /\ ~IsAdmin(u)' =>
         /\ \E w \in Workers : At(w, "write") /\ worker[w].user = u /\ worker[w].actor # u
         /\ \E x \in Usernames : IsAdmin(x) /\ IsAdmin(x)']_accountVars

\* An edit of another account that was reported as saved was saved completely:
\* role, activity and rights are those of its form, although they are written
\* in transactions of their own with a password in between.
EditComplete ==
    \A u \in Usernames : applied[u] # Nobody =>
        /\ users[u].role = applied[u].role
        /\ users[u].is_active = applied[u].is_active
        /\ rights[u] = Saved(applied[u])
================================================================================
