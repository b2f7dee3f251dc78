----------------------------- MODULE AccountsProofs ----------------------------
(***************************************************************************)
(* Proofs about Accounts: the types of its rows and, when requests do not  *)
(* overlap, that an active administrator always remains, for any users,    *)
(* roles, forms and number of workers; and that what is proved of it and   *)
(* of the registers beside it holds of OneAtATime.                         *)
(***************************************************************************)
EXTENDS OneAtATime, TLAPS

Busy(w) == ~At(w, "idle")

\* One request at a time.
Alone == \A v, w \in Workers : Busy(v) /\ Busy(w) => v = w

\* What a request has found out before it writes: a form that takes the role
\* of admin from an active administrator is somebody else's, and a further
\* administrator exists.
Checked(w) ==
    /\ At(w, "count") => worker[w].actor # worker[w].user
    /\ At(w, "write") /\ IsAdmin(worker[w].user) /\ Demotes(worker[w].form) =>
          /\ worker[w].actor # worker[w].user
          /\ \E x \in Usernames \ {worker[w].user} : IsAdmin(x)

AdminInv ==
    /\ Alone
    /\ AdminRemains
    /\ \A w \in Workers : Checked(w)

\* The row a request is about to change exists; rows are never deleted.
Present(w) ==
    worker[w].step \in {"count", "write", "password", "rights", "own_password"} =>
        users[worker[w].user] # Nobody

TypeInv == AccountsTypeOK /\ \A w \in Workers : Busy(w) => Present(w)

--------------------------------------------------------------------------------
\* A request in progress has all its fields.
LEMMA BusyJob ==
  ASSUME AccountsTypeOK, NEW w \in Workers, Busy(w)
  PROVE  worker[w] \in Jobs
  BY DEF AccountsTypeOK, Busy, At, Idle

\* UserRows and forms are not the absent one.
LEMMA NotNone == \A x \in UserRows \cup Forms : x # Nobody
  BY UserRowsAssumption

\* A request that ends keeps the type of worker.
LEMMA IdleTyped == AccountsTypeOK => \A w \in Workers : [worker EXCEPT ![w] = Idle] \in [Workers -> Jobs \cup {Idle}]
  BY DEF AccountsTypeOK

\* The same for a request that goes on to its next step.
LEMMA GoTyped ==
  ASSUME AccountsTypeOK, NEW w \in Workers, Busy(w), NEW s \in Steps
  PROVE  [worker EXCEPT ![w].step = s] \in [Workers -> Jobs \cup {Idle}]
<1>1. worker[w] \in Jobs
  BY BusyJob
<1>2. [worker[w] EXCEPT !.step = s] \in Jobs
  BY <1>1 DEF Jobs
<1> QED
  BY <1>2 DEF AccountsTypeOK

\* What is saved as the rights of a user are rights.
LEMMA SavedType == \A f \in Forms : Saved(f) \in Rights
  BY DEF Saved, Forms, Rights

\* A request without a form holds some form of the model.
LEMMA NoFormType == NoForm \in Forms
  BY InputsAssumption DEF NoForm

\* The type invariant holds after deployment.
LEMMA InitType == AccountsInit => AccountsTypeOK
<1> SUFFICES ASSUME AccountsInit PROVE AccountsTypeOK
  OBVIOUS
<1>1. PICK u \in Usernames, m \in BOOLEAN :
        users = [x \in Usernames |-> IF x = u
                   THEN [role |-> "admin", is_active |-> TRUE, must_change |-> m] ELSE Nobody]
  BY DEF AccountsInit
<1>2. [role |-> "admin", is_active |-> TRUE, must_change |-> m] \in UserRows
  BY RolesAssumption DEF UserRows
<1>3. users \in [Usernames -> UserRows \cup {Nobody}]
  BY <1>1, <1>2
<1> QED
  BY <1>3 DEF AccountsInit, AccountsTypeOK, Rights

\* The three ways a row of users is written: its type, and for a row that was
\* there the fields that stay.
LEMMA RowWriteType ==
  ASSUME AccountsTypeOK, NEW u \in Usernames
  PROVE  /\ \A f \in Forms :
              users[u] # Nobody /\ users' = [users EXCEPT ![u].role = f.role, ![u].is_active = f.is_active]
              => /\ users'[u] \in UserRows
                 /\ users'[u].role = f.role /\ users'[u].is_active = f.is_active
         /\ \A b \in BOOLEAN : users[u] # Nobody /\ users' = [users EXCEPT ![u].must_change = b]
              => /\ users'[u] \in UserRows
                 /\ users'[u].role = users[u].role /\ users'[u].is_active = users[u].is_active
         /\ \A f \in Forms :
              [role |-> f.role, is_active |-> TRUE, must_change |-> f.password = "good"] \in UserRows
  BY DEF AccountsTypeOK, UserRows, Forms

\* A write to one existing or new row keeps the others, and every row that is there.
LEMMA UsersTyped ==
  ASSUME AccountsTypeOK, NEW u \in Usernames, users'[u] \in UserRows, \E r : users' = [users EXCEPT ![u] = r]
  PROVE  /\ users' \in [Usernames -> UserRows \cup {Nobody}]
         /\ \A x \in Usernames : users[x] # Nobody => users'[x] # Nobody
  BY NotNone DEF AccountsTypeOK

\* Both together, for a request in progress.
LEMMA MovedTyped ==
  ASSUME AccountsTypeOK, NEW w \in Workers, Busy(w), End(w) \/ \E s \in Steps : Go(w, s)
  PROVE  worker' \in [Workers -> Jobs \cup {Idle}]
<1>1. CASE End(w)
  BY <1>1, IdleTyped DEF End
<1>2. CASE \E s \in Steps : Go(w, s)
  <2>1. PICK s \in Steps : worker' = [worker EXCEPT ![w].step = s]
    BY <1>2 DEF Go
  <2>2. [worker EXCEPT ![w].step = s] \in [Workers -> Jobs \cup {Idle}]
    BY GoTyped
  <2> QED
    BY <2>1, <2>2
<1> QED
  BY <1>1, <1>2

\* A new request keeps the type of worker.
LEMMA BeginTyped ==
  ASSUME AccountsTypeOK, NEW w \in Workers, NEW s \in Steps, NEW a \in Usernames, NEW u \in Usernames,
         NEW f \in Forms
  PROVE  [worker EXCEPT ![w] = [step |-> s, actor |-> a, user |-> u, form |-> f]]
           \in [Workers -> Jobs \cup {Idle}]
  BY DEF AccountsTypeOK, Jobs

\* What the fields of worker are after a step of one request.
LEMMA WorkerAfter ==
  ASSUME AccountsTypeOK, NEW w \in Workers
  PROVE  /\ \A s \in Steps : Busy(w) /\ Go(w, s) =>
              /\ worker'[w].step = s
              /\ worker'[w].actor = worker[w].actor
              /\ worker'[w].user = worker[w].user
              /\ worker'[w].form = worker[w].form
              /\ \A v \in Workers \ {w} : worker'[v] = worker[v]
         /\ End(w) =>
              /\ worker'[w].step = "idle"
              /\ \A v \in Workers \ {w} : worker'[v] = worker[v]
         /\ \A s \in Steps, a \in Usernames, u \in Usernames, f \in Forms : Begin(w, s, a, u, f) =>
              /\ worker'[w] = [step |-> s, actor |-> a, user |-> u, form |-> f]
              /\ \A v \in Workers \ {w} : worker'[v] = worker[v]
<1>1. worker \in [Workers -> Jobs \cup {Idle}]
  BY DEF AccountsTypeOK
<1>2. ASSUME NEW s \in Steps, Busy(w), Go(w, s)
      PROVE  /\ worker'[w].step = s
             /\ worker'[w].actor = worker[w].actor
             /\ worker'[w].user = worker[w].user
             /\ worker'[w].form = worker[w].form
             /\ \A v \in Workers \ {w} : worker'[v] = worker[v]
  <2>1. worker[w] \in Jobs
    BY <1>2, BusyJob
  <2> QED
    BY <1>1, <1>2, <2>1 DEF Go, Jobs
<1>3. End(w) => /\ worker'[w].step = "idle"
                /\ \A v \in Workers \ {w} : worker'[v] = worker[v]
  BY <1>1 DEF End, Idle
<1>4. \A s \in Steps, a \in Usernames, u \in Usernames, f \in Forms : Begin(w, s, a, u, f) =>
        /\ worker'[w] = [step |-> s, actor |-> a, user |-> u, form |-> f]
        /\ \A v \in Workers \ {w} : worker'[v] = worker[v]
  BY <1>1 DEF Begin
<1> QED
  BY <1>2, <1>3, <1>4

\* Steps of a request leave the others alone.
LEMMA OtherPresent ==
  ASSUME TypeInv, NEW w \in Workers, \A v \in Workers \ {w} : worker'[v] = worker[v],
         \A u \in Usernames : users[u] # Nobody => users'[u] # Nobody,
         Busy(w)' => Present(w)'
  PROVE  \A v \in Workers : Busy(v)' => Present(v)'
<1>1. \A v \in Workers : Busy(v) => worker[v].user \in Usernames
  BY BusyJob DEF TypeInv, Jobs
<1> QED
  BY <1>1 DEF TypeInv, Busy, At, Present

\* A step of a request keeps the type invariant.
LEMMA RequestTypeStep ==
  ASSUME TypeInv, NEW w \in Workers, Step(w)
  PROVE  TypeInv'
<1> DEFINE u == worker[w].user  f == worker[w].form
<1>1. Busy(w) /\ worker[w] \in Jobs
  <2>1. Busy(w)
    BY DEF Step, Busy, At, ReadTarget, Count, WriteUser, WritePassword, WriteRights, Lookup,
           InsertUser, Save, OwnPassword
  <2> QED
    BY <2>1, BusyJob DEF TypeInv
<1>2. u \in Usernames /\ f \in Forms /\ worker[w].actor \in Usernames
  BY <1>1 DEF Jobs
<1>3. AccountsTypeOK /\ Present(w)
  BY <1>1 DEF TypeInv
<1>4. CASE ReadTarget(w) \/ Count(w) \/ Lookup(w)
  <2>1. /\ UNCHANGED <<users, rights, signed_in, applied>>
        /\ End(w) \/ \E s \in Steps : Go(w, s)
    BY <1>4 DEF ReadTarget, Count, Lookup, Steps
  <2>2. AccountsTypeOK'
    BY <2>1, <1>1, <1>3, MovedTyped DEF AccountsTypeOK
  <2>3. Busy(w)' => Present(w)'
    <3>1. CASE End(w)
      BY <3>1, <1>3, WorkerAfter DEF Busy, At
    <3>2. CASE ReadTarget(w) /\ ~End(w)
      <4>1. users[u] # Nobody /\ (Go(w, "count") \/ Go(w, "write"))
        BY <3>2 DEF ReadTarget
      <4>2. worker'[w].user = u
        BY <4>1, <1>1, <1>3, WorkerAfter DEF Steps
      <4> QED
        BY <4>1, <4>2, <2>1 DEF Present
    <3>3. CASE Count(w) /\ ~End(w)
      <4>1. users[u] # Nobody /\ Go(w, "write")
        BY <3>3, <1>3 DEF Count, Present, At
      <4>2. worker'[w].user = u
        BY <4>1, <1>1, <1>3, WorkerAfter DEF Steps
      <4> QED
        BY <4>1, <4>2, <2>1 DEF Present
    <3>4. CASE Lookup(w)
      <4>1. worker'[w].step \in {"insert", "save"}
        BY <3>4, <1>1, <1>3, WorkerAfter DEF Lookup, Steps
      <4> QED
        BY <4>1 DEF Present
    <3> QED
      BY <3>1, <3>2, <3>3, <3>4, <1>4
  <2>4. \A v \in Workers \ {w} : worker'[v] = worker[v]
    BY <2>1, <1>1, <1>3, WorkerAfter
  <2> QED
    BY <2>1, <2>2, <2>3, <2>4, OtherPresent DEF TypeInv
<1>5. CASE WriteUser(w)
  <2>1. users[u] # Nobody
    BY <1>5, <1>3 DEF WriteUser, At, Present
  <2>2. users' = [users EXCEPT ![u].role = f.role, ![u].is_active = f.is_active]
    BY <1>5 DEF WriteUser
  <2>3. users'[u] \in UserRows
    BY <2>1, <2>2, <1>2, <1>3, RowWriteType
  <2>4. f.password \in {"none", "good", "short"}
    BY <1>2 DEF Forms
  <2>5. Go(w, "rights") \/ Go(w, "password") \/ End(w)
    BY <1>5, <2>4 DEF WriteUser
  <2>6. worker' \in [Workers -> Jobs \cup {Idle}]
    BY <2>5, <1>1, <1>3, MovedTyped DEF Steps
  <2>7. UNCHANGED <<rights, signed_in>> /\ applied' = [applied EXCEPT ![u] = Nobody]
    BY <1>5 DEF WriteUser
  <2>8. /\ users' \in [Usernames -> UserRows \cup {Nobody}]
        /\ \A x \in Usernames : users[x] # Nobody => users'[x] # Nobody
    <3>1. \E r : users' = [users EXCEPT ![u] = r]
      BY <2>2, <1>3 DEF AccountsTypeOK
    <3> QED
      BY <2>3, <3>1, <1>2, <1>3, UsersTyped
  <2>9. AccountsTypeOK'
    BY <2>8, <2>6, <2>7, <1>3 DEF AccountsTypeOK
  <2>10. Busy(w)' => worker'[w].user = u
    BY <2>5, <1>1, <1>3, WorkerAfter DEF Steps, Busy, At
  <2>11. Busy(w)' => Present(w)'
    BY <2>10, <2>3, NotNone DEF Present
  <2>12. \A v \in Workers \ {w} : worker'[v] = worker[v]
    BY <2>5, <1>1, <1>3, WorkerAfter DEF Steps
  <2> QED
    BY <2>8, <2>9, <2>11, <2>12, OtherPresent DEF TypeInv
<1>6. CASE WritePassword(w) \/ OwnPassword(w)
  <2>1. users[u] # Nobody
    BY <1>6, <1>3 DEF WritePassword, OwnPassword, At, Present
  <2>2. \E b \in BOOLEAN : users' = [users EXCEPT ![u].must_change = b]
    BY <1>6 DEF WritePassword, OwnPassword
  <2>3. users'[u] \in UserRows
    BY <2>1, <2>2, <1>2, <1>3, RowWriteType
  <2>4. /\ users' \in [Usernames -> UserRows \cup {Nobody}]
        /\ \A x \in Usernames : users[x] # Nobody => users'[x] # Nobody
    <3>1. \E r : users' = [users EXCEPT ![u] = r]
      BY <2>2, <1>3 DEF AccountsTypeOK
    <3> QED
      BY <2>3, <3>1, <1>2, <1>3, UsersTyped
  <2>5. Go(w, "rights") \/ End(w)
    BY <1>6 DEF WritePassword, OwnPassword
  <2>6. worker' \in [Workers -> Jobs \cup {Idle}]
    BY <2>5, <1>1, <1>3, MovedTyped DEF Steps
  <2>7. UNCHANGED <<rights, applied>> /\ (signed_in' = signed_in \/ signed_in' = signed_in \ {u})
    BY <1>6 DEF WritePassword, OwnPassword
  <2>8. AccountsTypeOK'
    BY <2>4, <2>6, <2>7, <1>3 DEF AccountsTypeOK
  <2>9. Busy(w)' => worker'[w].user = u
    BY <2>5, <1>1, <1>3, WorkerAfter DEF Steps, Busy, At
  <2>10. Busy(w)' => Present(w)'
    BY <2>9, <2>3, NotNone DEF Present
  <2>11. \A v \in Workers \ {w} : worker'[v] = worker[v]
    BY <2>5, <1>1, <1>3, WorkerAfter DEF Steps
  <2> QED
    BY <2>4, <2>8, <2>10, <2>11, OtherPresent DEF TypeInv
<1>7. CASE InsertUser(w)
  <2>1. \/ UNCHANGED users /\ End(w)
        \/ /\ users' = [users EXCEPT ![u] = [role |-> f.role, is_active |-> TRUE,
                                             must_change |-> f.password = "good"]]
           /\ Go(w, "save")
    BY <1>7 DEF InsertUser
  <2>2. /\ users' \in [Usernames -> UserRows \cup {Nobody}]
        /\ \A x \in Usernames : users[x] # Nobody => users'[x] # Nobody
    <3>1. CASE UNCHANGED users
      BY <3>1, <1>3 DEF AccountsTypeOK
    <3>2. CASE users' = [users EXCEPT ![u] = [role |-> f.role, is_active |-> TRUE,
                                              must_change |-> f.password = "good"]]
      <4>1. users'[u] \in UserRows
        BY <3>2, <1>2, <1>3, RowWriteType DEF AccountsTypeOK
      <4> QED
        BY <4>1, <3>2, <1>2, <1>3, UsersTyped
    <3> QED
      BY <2>1, <3>1, <3>2
  <2>3. worker' \in [Workers -> Jobs \cup {Idle}]
    BY <2>1, <1>1, <1>3, MovedTyped DEF Steps
  <2>4. AccountsTypeOK'
    BY <2>2, <2>3, <1>3, <1>7 DEF AccountsTypeOK, InsertUser
  <2>5. Busy(w)' => Present(w)'
    BY <2>1, <1>1, <1>3, WorkerAfter DEF Steps, Busy, At, Present
  <2>6. \A v \in Workers \ {w} : worker'[v] = worker[v]
    BY <2>1, <1>1, <1>3, WorkerAfter DEF Steps
  <2> QED
    BY <2>2, <2>4, <2>5, <2>6, OtherPresent DEF TypeInv
<1>8. CASE WriteRights(w) \/ Save(w)
  <2>1. /\ UNCHANGED <<users, signed_in>> /\ End(w)
        /\ rights' = [rights EXCEPT ![u] = Saved(f)]
        /\ applied' = [applied EXCEPT ![u] = Nobody] \/ applied' = [applied EXCEPT ![u] = f]
    BY <1>8 DEF WriteRights, Save
  <2>2. worker' \in [Workers -> Jobs \cup {Idle}]
    BY <2>1, <1>1, <1>3, MovedTyped
  <2>3. AccountsTypeOK'
    BY <2>1, <2>2, <1>2, <1>3, SavedType DEF AccountsTypeOK
  <2>4. ~Busy(w)' /\ \A v \in Workers \ {w} : worker'[v] = worker[v]
    BY <2>1, <1>3, WorkerAfter DEF Busy, At
  <2> QED
    BY <2>1, <2>3, <2>4, OtherPresent DEF TypeInv
<1> QED
  BY <1>4, <1>5, <1>6, <1>7, <1>8 DEF Step

\* The actions that are no step of a request in progress.
Elsewhere ==
    \/ \E u \in Usernames : SignIn(u) \/ SignOut(u)
    \/ \E w \in Workers, a \in Usernames :
          \/ \E u \in Usernames, f \in Inputs : BeginUpdate(w, a, u, f) \/ BeginCreate(w, a, u, f)
          \/ BeginOwnPassword(w, a)
    \/ \E w \in Workers : Disconnect(w)

\* What those do to the requests.
Begun ==
    \E w \in Workers, a \in Usernames, u \in Usernames, f \in Forms, s \in {"read", "lookup", "own_password"} :
        /\ Free(w) /\ Begin(w, s, a, u, f)
        /\ s = "own_password" => users[u] # Nobody

\* They write nothing but a cookie, and begin or lose a request.
LEMMA ElsewhereChanges ==
  ASSUME Elsewhere
  PROVE  /\ UNCHANGED <<users, rights, applied>>
         /\ \/ signed_in' = signed_in
            \/ \E u \in Usernames : signed_in' \in {signed_in \cup {u}, signed_in \ {u}}
         /\ UNCHANGED worker \/ Begun \/ \E w \in Workers : End(w)
<1>1. CASE \E u \in Usernames : SignIn(u) \/ SignOut(u)
  BY <1>1 DEF SignIn, SignOut
<1>2. CASE \E w \in Workers, a \in Usernames, u \in Usernames, f \in Inputs :
             BeginUpdate(w, a, u, f) \/ BeginCreate(w, a, u, f)
  BY <1>2, InputsAssumption DEF BeginUpdate, BeginCreate, Begun
<1>3. CASE \E w \in Workers, a \in Usernames : BeginOwnPassword(w, a)
  <2>1. PICK w \in Workers, a \in Usernames : BeginOwnPassword(w, a)
    BY <1>3
  <2>2. users[a] # Nobody /\ Free(w) /\ Begin(w, "own_password", a, a, NoForm)
        /\ UNCHANGED <<users, rights, signed_in, applied>>
    BY <2>1 DEF BeginOwnPassword, IsActive
  <2> QED
    BY <2>2, NoFormType DEF Begun
<1>4. CASE \E w \in Workers : Disconnect(w)
  BY <1>4 DEF Disconnect
<1> QED
  BY <1>1, <1>2, <1>3, <1>4 DEF Elsewhere

\* What a beginning request looks like.
LEMMA BegunChanges ==
  ASSUME AccountsTypeOK, Begun
  PROVE  /\ worker' \in [Workers -> Jobs \cup {Idle}]
         /\ \E w \in Workers :
              /\ Free(w)
              /\ worker'[w].step \in {"read", "lookup", "own_password"}
              /\ worker'[w].step = "own_password" => users[worker'[w].user] # Nobody
              /\ \A v \in Workers \ {w} : worker'[v] = worker[v]
<1>1. PICK w \in Workers, a \in Usernames, u \in Usernames, f \in Forms,
           s \in {"read", "lookup", "own_password"} :
        /\ Free(w) /\ Begin(w, s, a, u, f)
        /\ s = "own_password" => users[u] # Nobody
  BY DEF Begun
<1>2. s \in Steps
  BY DEF Steps
<1>3. worker' \in [Workers -> Jobs \cup {Idle}]
  BY <1>1, <1>2, BeginTyped DEF Begin
<1>4. /\ worker'[w] = [step |-> s, actor |-> a, user |-> u, form |-> f]
      /\ \A v \in Workers \ {w} : worker'[v] = worker[v]
  BY <1>1, <1>2, WorkerAfter
<1> QED
  BY <1>1, <1>3, <1>4

\* The type invariant is kept by every step.
LEMMA TypeStep == TypeInv /\ [AccountsNext]_accountVars => TypeInv'
<1> SUFFICES ASSUME TypeInv, [AccountsNext]_accountVars PROVE TypeInv'
  OBVIOUS
<1>1. CASE \E w \in Workers : Step(w)
  BY <1>1, RequestTypeStep
<1>2. CASE Elsewhere
  <2>1. /\ UNCHANGED <<users, rights, applied>>
        /\ \/ signed_in' = signed_in
           \/ \E u \in Usernames : signed_in' \in {signed_in \cup {u}, signed_in \ {u}}
        /\ UNCHANGED worker \/ Begun \/ \E w \in Workers : End(w)
    BY <1>2, ElsewhereChanges
  <2>2. AccountsTypeOK
    BY DEF TypeInv
  <2>3. CASE UNCHANGED worker
    BY <2>1, <2>3 DEF TypeInv, AccountsTypeOK, Busy, At, Present
  <2>4. CASE Begun
    <3>1. worker' \in [Workers -> Jobs \cup {Idle}]
      BY <2>4, <2>2, BegunChanges
    <3>2. PICK w \in Workers :
            /\ worker'[w].step \in {"read", "lookup", "own_password"}
            /\ worker'[w].step = "own_password" => users[worker'[w].user] # Nobody
            /\ \A v \in Workers \ {w} : worker'[v] = worker[v]
      BY <2>4, <2>2, BegunChanges
    <3>3. AccountsTypeOK'
      BY <2>1, <2>2, <3>1 DEF AccountsTypeOK
    <3>4. Present(w)'
      BY <2>1, <3>2 DEF Present
    <3> QED
      BY <2>1, <3>2, <3>3, <3>4, OtherPresent DEF TypeInv
  <2>5. CASE \E w \in Workers : End(w)
    <3>1. PICK w \in Workers : End(w)
      BY <2>5
    <3>2. ~Busy(w)' /\ \A v \in Workers \ {w} : worker'[v] = worker[v]
      BY <2>2, <3>1, WorkerAfter DEF Busy, At
    <3>3. AccountsTypeOK'
      BY <2>1, <2>2, <3>1, IdleTyped DEF AccountsTypeOK, End
    <3> QED
      BY <2>1, <3>2, <3>3, OtherPresent DEF TypeInv
  <2> QED
    BY <2>1, <2>3, <2>4, <2>5
<1>3. CASE UNCHANGED accountVars
  BY <1>3 DEF accountVars, TypeInv, AccountsTypeOK, Busy, At, Present
<1> QED
  BY <1>1, <1>2, <1>3 DEF AccountsNext, Elsewhere

\* Deployment leaves no request in progress.
LEMMA InitTypeInv == AccountsInit => TypeInv
<1>1. AccountsInit => worker = [w \in Workers |-> Idle]
  BY DEF AccountsInit
<1>2. Idle.step = "idle"
  BY DEF Idle
<1>3. AccountsInit => \A w \in Workers : ~Busy(w)
  BY <1>1, <1>2 DEF Busy, At
<1> QED
  BY <1>3, InitType DEF TypeInv

\* The type invariant holds in every state.
LEMMA TypeInvariant == AccountsSpec => []TypeInv
  BY InitTypeInv, TypeStep, PTL DEF AccountsSpec

\* Usernames, rights and requests keep their types, and no request loses the row it
\* is about to change.
THEOREM TypeCorrect == AccountsSpec => []AccountsTypeOK
<1>1. TypeInv => AccountsTypeOK
  BY DEF TypeInv
<1> QED
  BY <1>1, TypeInvariant, PTL

--------------------------------------------------------------------------------
\* Steps of the only request in progress keep it the only one.
LEMMA AloneStep ==
  ASSUME TypeInv, Alone, Serial, [AccountsNext]_accountVars
  PROVE  Alone'
<1>1. AccountsTypeOK
  BY DEF TypeInv
<1>2. ASSUME NEW w \in Workers, Busy(w), \A v \in Workers \ {w} : worker'[v] = worker[v]
      PROVE  Alone'
  BY <1>2 DEF Alone, Busy, At
<1>3. CASE \E w \in Workers : Step(w)
  <2>1. PICK w \in Workers : Step(w)
    BY <1>3
  <2>2. Busy(w)
    BY <2>1 DEF Step, Busy, At, ReadTarget, Count, WriteUser, WritePassword, WriteRights, Lookup,
           InsertUser, Save, OwnPassword
  <2>3. End(w) \/ \E s \in Steps : Go(w, s)
    <3>1. worker[w].form \in Forms
      BY <2>2, <1>1, BusyJob DEF Jobs
    <3>2. worker[w].form.password \in {"none", "good", "short"}
      BY <3>1 DEF Forms
    <3> QED
      BY <2>1, <3>2 DEF Step, ReadTarget, Count, WriteUser, WritePassword, WriteRights, Lookup,
           InsertUser, Save, OwnPassword, Steps
  <2> QED
    BY <2>2, <2>3, <1>1, <1>2, WorkerAfter
<1>4. CASE Elsewhere
  <2>1. CASE UNCHANGED worker
    BY <2>1 DEF Alone, Busy, At
  <2>2. CASE Begun
    <3>1. PICK w \in Workers : Free(w) /\ \A v \in Workers \ {w} : worker'[v] = worker[v]
      BY <2>2, <1>1, BegunChanges
    <3> QED
      BY <3>1 DEF Free, Alone, Busy, At
  <2>3. CASE \E w \in Workers : End(w)
    <3>1. PICK w \in Workers : End(w)
      BY <2>3
    <3>2. ~Busy(w)' /\ \A v \in Workers \ {w} : worker'[v] = worker[v]
      BY <1>1, <3>1, WorkerAfter DEF Busy, At
    <3> QED
      BY <3>2 DEF Alone, Busy, At
  <2> QED
    BY <2>1, <2>2, <2>3, <1>4, ElsewhereChanges
<1>5. CASE UNCHANGED accountVars
  BY <1>5 DEF accountVars, Alone, Busy, At
<1> QED
  BY <1>3, <1>4, <1>5 DEF AccountsNext, Elsewhere

\* Only update_user can end anybody's administration.
LEMMA OthersKeepAdmins ==
  ASSUME TypeInv, [AccountsNext]_accountVars, ~\E w \in Workers : WriteUser(w),
         NEW x \in Usernames, IsAdmin(x)
  PROVE  IsAdmin(x)'
<1>1. AccountsTypeOK
  BY DEF TypeInv
<1>2. CASE users' = users
  BY <1>2 DEF IsAdmin, Is, IsActive
<1>3. ASSUME NEW w \in Workers, WritePassword(w) \/ OwnPassword(w)
      PROVE  IsAdmin(x)'
  <2> DEFINE u == worker[w].user
  <2>1. Busy(w)
    BY <1>3 DEF WritePassword, OwnPassword, Busy, At
  <2>2. u \in Usernames
    BY <2>1, <1>1, BusyJob DEF Jobs
  <2>3. users[u] # Nobody
    BY <1>3, <2>1 DEF TypeInv, WritePassword, OwnPassword, At, Present
  <2>4. \E b \in BOOLEAN : users' = [users EXCEPT ![u].must_change = b]
    BY <1>3 DEF WritePassword, OwnPassword
  <2>5. /\ users'[u] \in UserRows
        /\ users'[u].role = users[u].role /\ users'[u].is_active = users[u].is_active
    BY <2>2, <2>3, <2>4, <1>1, RowWriteType
  <2>6. x # u => users'[x] = users[x]
    BY <2>2, <2>4, <1>1 DEF AccountsTypeOK
  <2> QED
    BY <2>5, <2>6, NotNone DEF IsAdmin, Is, IsActive
<1>4. ASSUME NEW w \in Workers, InsertUser(w)
      PROVE  IsAdmin(x)'
  <2>1. CASE users[worker[w].user] = Nobody
    <3>1. x # worker[w].user
      BY <2>1 DEF IsAdmin, Is
    <3>2. users'[x] = users[x]
      BY <1>4, <2>1, <3>1, <1>1 DEF InsertUser, AccountsTypeOK
    <3> QED
      BY <3>2 DEF IsAdmin, Is, IsActive
  <2>2. CASE users[worker[w].user] # Nobody
    BY <1>2, <1>4, <2>2 DEF InsertUser
  <2> QED
    BY <2>1, <2>2
<1>5. CASE Elsewhere
  BY <1>2, <1>5, ElsewhereChanges
<1>6. CASE UNCHANGED accountVars
  BY <1>2, <1>6 DEF accountVars
<1>7. ASSUME NEW w \in Workers, ReadTarget(w) \/ Count(w) \/ WriteRights(w) \/ Lookup(w) \/ Save(w)
      PROVE  IsAdmin(x)'
  BY <1>2, <1>7 DEF ReadTarget, Count, WriteRights, Lookup, Save
<1> QED
  BY <1>3, <1>4, <1>5, <1>6, <1>7 DEF AccountsNext, Elsewhere, Step

\* update_user ends the administration of its user only, and only in the way
\* that was checked before.
LEMMA WriteUserAdmins ==
  ASSUME TypeInv, NEW w \in Workers, WriteUser(w), Checked(w), NEW x \in Usernames, IsAdmin(x)
  PROVE  \/ IsAdmin(x)'
         \/ /\ At(w, "write") /\ worker[w].user = x /\ worker[w].actor # x
            /\ \E y \in Usernames : IsAdmin(y) /\ IsAdmin(y)'
<1> DEFINE u == worker[w].user  f == worker[w].form
<1>1. AccountsTypeOK /\ At(w, "write") /\ Busy(w)
  BY DEF TypeInv, WriteUser, At, Busy
<1>2. u \in Usernames /\ f \in Forms
  BY <1>1, BusyJob DEF Jobs
<1>3. users[u] # Nobody
  BY <1>1 DEF TypeInv, At, Present
<1>4. users' = [users EXCEPT ![u].role = f.role, ![u].is_active = f.is_active]
  BY DEF WriteUser
<1>5. users'[u] \in UserRows /\ users'[u].role = f.role /\ users'[u].is_active = f.is_active
  BY <1>1, <1>2, <1>3, <1>4, RowWriteType
<1>6. \A y \in Usernames \ {u} : IsAdmin(y) => IsAdmin(y)'
  BY <1>1, <1>2, <1>4 DEF AccountsTypeOK, IsAdmin, Is, IsActive
<1>7. CASE ~Demotes(f)
  <2>1. \A y \in Usernames : y = u => IsAdmin(y)'
    BY <1>5, <1>7, NotNone DEF Demotes, IsAdmin, Is, IsActive
  <2> QED
    BY <1>6, <2>1
<1>8. CASE Demotes(f) /\ x = u
  <2>1. worker[w].actor # u /\ \E y \in Usernames \ {u} : IsAdmin(y)
    BY <1>1, <1>8 DEF Checked
  <2> QED
    BY <1>1, <1>6, <1>8, <2>1
<1> QED
  BY <1>6, <1>7, <1>8

\* What a request finds out stays true while no other request writes.
LEMMA CheckedStep ==
  ASSUME TypeInv, Alone, \A v \in Workers : Checked(v), Serial, [AccountsNext]_accountVars
  PROVE  \A v \in Workers : Checked(v)'
<1>1. AccountsTypeOK
  BY DEF TypeInv
<1>2. ASSUME NEW w \in Workers, Checked(w)',
             \A v \in Workers \ {w} : ~Busy(v) /\ worker'[v] = worker[v]
      PROVE  \A v \in Workers : Checked(v)'
  BY <1>2 DEF Checked, Busy, At
<1>3. CASE \E w \in Workers : Step(w)
  <2>1. PICK w \in Workers : Step(w)
    BY <1>3
  <2> DEFINE a == worker[w].actor  u == worker[w].user  f == worker[w].form
  <2>2. Busy(w) /\ worker[w] \in Jobs
    <3>1. Busy(w)
      BY <2>1 DEF Step, Busy, At, ReadTarget, Count, WriteUser, WritePassword, WriteRights,
             Lookup, InsertUser, Save, OwnPassword
    <3> QED
      BY <3>1, <1>1, BusyJob
  <2>3. u \in Usernames /\ f.password \in {"none", "good", "short"}
    BY <2>2 DEF Jobs, Forms
  <2>4. \A v \in Workers \ {w} : ~Busy(v)
    BY <2>2 DEF Alone
  <2>5. End(w) \/ \E s \in Steps : Go(w, s)
    BY <2>1, <2>3 DEF Step, ReadTarget, Count, WriteUser, WritePassword, WriteRights, Lookup,
           InsertUser, Save, OwnPassword, Steps
  <2>6. \A v \in Workers \ {w} : worker'[v] = worker[v]
    BY <2>2, <2>5, <1>1, WorkerAfter
  <2>7. CASE Go(w, "count") /\ ReadTarget(w)
    <3>1. IsAdmin(u) /\ Demotes(f) /\ ~RefusesOwn(a, u, f)
      <4>1. At(w, "read") /\ worker' = [worker EXCEPT ![w].step = "count"]
        BY <2>7 DEF ReadTarget, Go
      <4>2. worker'[w].step = "count"
        BY <2>7, <2>2, <1>1, WorkerAfter DEF Steps
      <4>3. ~End(w) /\ ~Go(w, "write")
        <5>1. End(w) => worker'[w].step = "idle"
          BY <1>1, WorkerAfter
        <5>2. Go(w, "write") => worker'[w].step = "write"
          BY <2>2, <1>1, WorkerAfter DEF Steps
        <5> QED
          BY <5>1, <5>2, <4>2
      <4> QED
        BY <2>7, <4>3 DEF ReadTarget
    <3>2. a # u
      BY <3>1 DEF RefusesOwn, Demotes, IsAdmin
    <3>3. /\ worker'[w].step = "count"
          /\ worker'[w].actor = a /\ worker'[w].user = u
      BY <2>7, <2>2, <1>1, WorkerAfter DEF Steps
    <3>4. Checked(w)'
      BY <3>2, <3>3 DEF Checked, At
    <3> QED
      BY <3>4, <2>4, <2>6, <1>2
  <2>8. CASE Go(w, "write") /\ ReadTarget(w)
    <3>1. /\ worker'[w].step = "write"
          /\ worker'[w].user = u /\ worker'[w].form = f
      BY <2>8, <2>2, <1>1, WorkerAfter DEF Steps
    <3>2. ~(IsAdmin(u) /\ Demotes(f))
      <4>1. ~End(w) /\ ~Go(w, "count")
        <5>1. End(w) => worker'[w].step = "idle"
          BY <1>1, WorkerAfter
        <5>2. Go(w, "count") => worker'[w].step = "count"
          BY <2>2, <1>1, WorkerAfter DEF Steps
        <5> QED
          BY <5>1, <5>2, <3>1
      <4> QED
        BY <2>8, <4>1 DEF ReadTarget
    <3>3. users' = users
      BY <2>8 DEF ReadTarget
    <3>4. Checked(w)'
      BY <3>1, <3>2, <3>3 DEF Checked, At, IsAdmin, Is, IsActive, Demotes
    <3> QED
      BY <3>4, <2>4, <2>6, <1>2
  <2>9. CASE Go(w, "write") /\ Count(w)
    <3>1. /\ worker'[w].step = "write"
          /\ worker'[w].actor = a /\ worker'[w].user = u
      BY <2>9, <2>2, <1>1, WorkerAfter DEF Steps
    <3>2. \E x \in Usernames \ {u} : IsAdmin(x)
      <4>1. ~End(w)
        BY <3>1, <1>1, WorkerAfter
      <4> QED
        BY <2>9, <4>1 DEF Count
    <3>3. a # u /\ users' = users
      BY <2>9 DEF Count, Checked
    <3>4. Checked(w)'
      BY <3>1, <3>2, <3>3 DEF Checked, At, IsAdmin, Is, IsActive
    <3> QED
      BY <3>4, <2>4, <2>6, <1>2
  <2>10. CASE worker'[w].step \notin {"count", "write"}
    <3>1. Checked(w)'
      BY <2>10 DEF Checked, At
    <3> QED
      BY <3>1, <2>4, <2>6, <1>2
  <2>11. \/ (Go(w, "count") \/ Go(w, "write")) /\ ReadTarget(w)
         \/ Go(w, "write") /\ Count(w)
         \/ End(w)
         \/ \E s \in Steps \ {"count", "write"} : Go(w, s)
    BY <2>1, <2>3 DEF Step, ReadTarget, Count, WriteUser, WritePassword, WriteRights, Lookup,
           InsertUser, Save, OwnPassword, Steps
  <2>12. (End(w) \/ \E s \in Steps \ {"count", "write"} : Go(w, s)) =>
            worker'[w].step \notin {"count", "write"}
    BY <2>2, <1>1, WorkerAfter
  <2> QED
    BY <2>7, <2>8, <2>9, <2>10, <2>11, <2>12
<1>4. CASE Elsewhere
  <2>1. users' = users
    BY <1>4, ElsewhereChanges
  <2>2. CASE UNCHANGED worker
    BY <2>1, <2>2 DEF Checked, At, IsAdmin, Is, IsActive
  <2>3. CASE Begun
    <3>1. PICK w \in Workers :
            /\ Free(w) /\ worker'[w].step \in {"read", "lookup", "own_password"}
            /\ \A v \in Workers \ {w} : worker'[v] = worker[v]
      BY <2>3, <1>1, BegunChanges
    <3>2. Checked(w)' /\ \A v \in Workers \ {w} : ~Busy(v)
      BY <3>1 DEF Checked, At, Free, Busy
    <3> QED
      BY <3>1, <3>2, <1>2
  <2>4. CASE \E w \in Workers : End(w)
    <3>1. PICK w \in Workers : End(w)
      BY <2>4
    <3>2. worker'[w].step = "idle" /\ \A v \in Workers \ {w} : worker'[v] = worker[v]
      BY <1>1, <3>1, WorkerAfter
    <3> QED
      BY <3>2, <2>1 DEF Checked, At, IsAdmin, Is, IsActive
  <2> QED
    BY <2>2, <2>3, <2>4, <1>4, ElsewhereChanges
<1>5. CASE UNCHANGED accountVars
  BY <1>5 DEF accountVars, Checked, At, IsAdmin, Is, IsActive
<1> QED
  BY <1>3, <1>4, <1>5 DEF AccountsNext, Elsewhere

\* Without overlap a step keeps the invariant, and it ends the administration
\* only of another account while an administrator stays.
LEMMA AdminStep ==
  ASSUME TypeInv, AdminInv, Serial, [AccountsNext]_accountVars
  PROVE  /\ AdminInv'
         /\ \A u \in Usernames : IsAdmin(u) /\ ~IsAdmin(u)' =>
              /\ \E w \in Workers : At(w, "write") /\ worker[w].user = u /\ worker[w].actor # u
              /\ \E x \in Usernames : IsAdmin(x) /\ IsAdmin(x)'
<1>1. /\ Alone'
      /\ \A w \in Workers : Checked(w)'
  BY AloneStep, CheckedStep DEF AdminInv
<1>2. ASSUME NEW u \in Usernames, IsAdmin(u), ~IsAdmin(u)'
      PROVE  /\ \E w \in Workers : At(w, "write") /\ worker[w].user = u /\ worker[w].actor # u
             /\ \E x \in Usernames : IsAdmin(x) /\ IsAdmin(x)'
  <2>1. PICK w \in Workers : WriteUser(w)
    BY <1>2, OthersKeepAdmins
  <2>2. Checked(w)
    BY DEF AdminInv
  <2> QED
    BY <1>2, <2>1, <2>2, WriteUserAdmins
<1>3. AdminRemains'
  <2>1. PICK u \in Usernames : IsAdmin(u)
    BY DEF AdminInv, AdminRemains
  <2> QED
    BY <1>2, <2>1 DEF AdminRemains
<1> QED
  BY <1>1, <1>2, <1>3 DEF AdminInv

\* Deployment leaves one administrator and no request in progress.
LEMMA InitAdminInv == AccountsInit => AdminInv
<1> SUFFICES ASSUME AccountsInit PROVE AdminInv
  OBVIOUS
<1>1. worker = [w \in Workers |-> Idle] /\ Idle.step = "idle"
  BY DEF AccountsInit, Idle
<1>2. Alone /\ \A w \in Workers : Checked(w)
  BY <1>1 DEF Alone, Checked, Busy, At
<1>3. PICK u \in Usernames, m \in BOOLEAN :
        users = [x \in Usernames |-> IF x = u
                   THEN [role |-> "admin", is_active |-> TRUE, must_change |-> m] ELSE Nobody]
  BY DEF AccountsInit
<1>4. [role |-> "admin", is_active |-> TRUE, must_change |-> m] \in UserRows
  BY RolesAssumption DEF UserRows
<1>5. IsAdmin(u)
  BY <1>3, <1>4, NotNone DEF IsAdmin, Is, IsActive
<1> QED
  BY <1>2, <1>5 DEF AdminInv, AdminRemains

\* When requests do not overlap, an active administrator always remains: nobody
\* demotes oneself, and of the others the last one is counted before the write.
THEOREM AnAdministratorRemains ==
  ASSUME Serial
  PROVE  AccountsSpec => []AdminRemains
<1>1. TypeInv /\ AdminInv /\ [AccountsNext]_accountVars => AdminInv'
  BY AdminStep
<1>2. AdminInv => AdminRemains
  BY DEF AdminInv
<1> QED
  BY <1>1, <1>2, InitAdminInv, TypeInvariant, PTL DEF AccountsSpec

\* When requests do not overlap, an account loses its administration only to
\* another account, and another administrator stays.
THEOREM AdministrationIsTakenByOthers ==
  ASSUME Serial
  PROVE  AccountsSpec => LostToAnother
<1>1. TypeInv /\ AdminInv /\ [AccountsNext]_accountVars => AdminInv'
  BY AdminStep
<1>2. TypeInv /\ AdminInv /\ [AccountsNext]_accountVars =>
        [\A u \in Usernames : IsAdmin(u) /\ ~IsAdmin(u)' =>
           /\ \E w \in Workers : At(w, "write") /\ worker[w].user = u /\ worker[w].actor # u
           /\ \E x \in Usernames : IsAdmin(x) /\ IsAdmin(x)']_accountVars
  BY AdminStep
<1> QED
  BY <1>1, <1>2, InitAdminInv, TypeInvariant, PTL DEF AccountsSpec, LostToAnother

--------------------------------------------------------------------------------
\* Between update_user and the rights, the row has the role and activity of the
\* form; users with a reported edit exist.
Written(w) ==
    worker[w].step \in {"password", "rights"} =>
        /\ users[worker[w].user].role = worker[w].form.role
        /\ users[worker[w].user].is_active = worker[w].form.is_active

EditInv ==
    /\ Alone
    /\ EditComplete
    /\ \A u \in Usernames : applied[u] # Nobody => users[u] # Nobody
    /\ \A w \in Workers : Written(w)

\* The same of one user, to be shown for each.
Complete(u) ==
    applied[u] # Nobody =>
        /\ users[u] # Nobody
        /\ users[u].role = applied[u].role
        /\ users[u].is_active = applied[u].is_active
        /\ rights[u] = Saved(applied[u])

\* While one request is in progress it alone has something to keep.
LEMMA WrittenAfter ==
  ASSUME TypeInv, Alone, NEW w \in Workers, Busy(w), Written(w)',
         \A v \in Workers \ {w} : worker'[v] = worker[v]
  PROVE  \A v \in Workers : Written(v)'
  BY DEF Alone, Busy, At, Written

\* A step of a request keeps reported edits complete.
LEMMA RequestEditStep ==
  ASSUME TypeInv, EditInv, NEW w \in Workers, Step(w)
  PROVE  /\ \A x \in Usernames : Complete(x)'
         /\ \A v \in Workers : Written(v)'
<1> DEFINE u == worker[w].user  f == worker[w].form
<1>1. Busy(w) /\ worker[w] \in Jobs /\ AccountsTypeOK
  <2>1. Busy(w)
    BY DEF Step, Busy, At, ReadTarget, Count, WriteUser, WritePassword, WriteRights, Lookup,
           InsertUser, Save, OwnPassword
  <2> QED
    BY <2>1, BusyJob DEF TypeInv
<1>2. u \in Usernames /\ f \in Forms /\ f.password \in {"none", "good", "short"}
  BY <1>1 DEF Jobs, Forms
<1>3. \A x \in Usernames : Complete(x)
  BY DEF EditInv, EditComplete, Complete
<1>4. End(w) \/ \E s \in Steps : Go(w, s)
  BY <1>2 DEF Step, ReadTarget, Count, WriteUser, WritePassword, WriteRights, Lookup,
         InsertUser, Save, OwnPassword, Steps
<1>5. \A v \in Workers \ {w} : worker'[v] = worker[v]
  BY <1>1, <1>4, WorkerAfter
<1>6. Written(w)' => \A v \in Workers : Written(v)'
  BY <1>1, <1>5, WrittenAfter DEF EditInv
<1>7. CASE ReadTarget(w) \/ Count(w) \/ Lookup(w)
  <2>1. UNCHANGED <<users, rights, applied>>
    BY <1>7 DEF ReadTarget, Count, Lookup
  <2>2. End(w) \/ \E s \in Steps \ {"password", "rights"} : Go(w, s)
    BY <1>7 DEF ReadTarget, Count, Lookup, Steps
  <2>3. worker'[w].step \notin {"password", "rights"}
    BY <1>1, <2>2, WorkerAfter
  <2>4. Written(w)'
    BY <2>3 DEF Written
  <2> QED
    BY <1>3, <1>6, <2>1, <2>4 DEF Complete
<1>8. CASE WriteUser(w)
  <2>1. users[u] # Nobody
    BY <1>1, <1>8 DEF TypeInv, WriteUser, At, Present
  <2>2. users' = [users EXCEPT ![u].role = f.role, ![u].is_active = f.is_active]
    BY <1>8 DEF WriteUser
  <2>3. users'[u].role = f.role /\ users'[u].is_active = f.is_active
    BY <1>1, <1>2, <2>1, <2>2, RowWriteType
  <2>4. applied' = [applied EXCEPT ![u] = Nobody] /\ rights' = rights
    BY <1>8 DEF WriteUser
  <2>5. Busy(w)' => worker'[w].user = u /\ worker'[w].form = f
    BY <1>1, <1>4, WorkerAfter DEF Busy, At
  <2>6. Written(w)'
    BY <2>3, <2>5 DEF Written, Busy, At
  <2>7. \A x \in Usernames : x # u => users'[x] = users[x] /\ applied'[x] = applied[x]
    BY <1>1, <1>2, <2>2, <2>4 DEF AccountsTypeOK
  <2>8. applied'[u] = Nobody
    BY <1>1, <1>2, <2>4 DEF AccountsTypeOK
  <2>9. \A x \in Usernames : Complete(x)'
    BY <1>3, <2>4, <2>7, <2>8 DEF Complete
  <2> QED
    BY <1>6, <2>6, <2>9
<1>9. CASE WritePassword(w) \/ OwnPassword(w)
  <2>1. users[u] # Nobody
    BY <1>1, <1>9 DEF TypeInv, WritePassword, OwnPassword, At, Present
  <2>2. \E b \in BOOLEAN : users' = [users EXCEPT ![u].must_change = b]
    BY <1>9 DEF WritePassword, OwnPassword
  <2>3. /\ users'[u] \in UserRows
        /\ users'[u].role = users[u].role /\ users'[u].is_active = users[u].is_active
    BY <1>1, <1>2, <2>1, <2>2, RowWriteType
  <2>4. \A x \in Usernames : x # u => users'[x] = users[x]
    BY <1>1, <2>2 DEF AccountsTypeOK
  <2>5. UNCHANGED <<rights, applied>>
    BY <1>9 DEF WritePassword, OwnPassword
  <2>6. \A x \in Usernames : Complete(x)'
    BY <1>2, <1>3, <2>3, <2>4, <2>5, NotNone DEF Complete
  <2>7. CASE OwnPassword(w) \/ End(w)
    <3>1. worker'[w].step = "idle"
      BY <1>1, <2>7, WorkerAfter DEF OwnPassword
    <3> QED
      BY <1>6, <2>6, <3>1 DEF Written
  <2>8. CASE WritePassword(w) /\ Go(w, "rights")
    <3>1. worker'[w].user = u /\ worker'[w].form = f
      BY <1>1, <2>8, WorkerAfter DEF Steps
    <3>2. users[u].role = f.role /\ users[u].is_active = f.is_active
      BY <2>8 DEF EditInv, Written, WritePassword, At
    <3>3. Written(w)'
      BY <2>3, <3>1, <3>2 DEF Written
    <3> QED
      BY <1>6, <2>6, <3>3
  <2> QED
    BY <1>9, <2>7, <2>8 DEF WritePassword
<1>10. CASE InsertUser(w)
  <2>1. worker'[w].step \notin {"password", "rights"}
    <3>1. End(w) \/ Go(w, "save")
      BY <1>10 DEF InsertUser
    <3> QED
      BY <1>1, <3>1, WorkerAfter DEF Steps
  <2>2. UNCHANGED <<rights, applied>>
    BY <1>10 DEF InsertUser
  <2>3. \A x \in Usernames : users[x] # Nobody => users'[x] = users[x]
    BY <1>1, <1>10 DEF InsertUser, AccountsTypeOK
  <2>4. \A x \in Usernames : Complete(x)'
    BY <1>3, <2>2, <2>3 DEF Complete
  <2> QED
    BY <1>6, <2>1, <2>4 DEF Written
<1>11. CASE WriteRights(w)
  <2>1. /\ users[u] # Nobody
        /\ users[u].role = f.role /\ users[u].is_active = f.is_active
    BY <1>1, <1>11 DEF TypeInv, EditInv, WriteRights, At, Present, Written
  <2>2. /\ rights'[u] = Saved(f) /\ applied'[u] \in {Nobody, f}
        /\ \A x \in Usernames \ {u} : rights'[x] = rights[x] /\ applied'[x] = applied[x]
        /\ users' = users /\ End(w)
    BY <1>1, <1>2, <1>11 DEF WriteRights, AccountsTypeOK
  <2>3. worker'[w].step = "idle"
    BY <1>1, <2>2, WorkerAfter
  <2>4. \A x \in Usernames : Complete(x)'
    <3>1. \A x \in Usernames \ {u} : Complete(x)'
      BY <1>3, <2>2 DEF Complete
    <3>2. \A x \in Usernames : x = u => Complete(x)'
      BY <2>1, <2>2 DEF Complete, Saved
    <3> QED
      BY <3>1, <3>2
  <2> QED
    BY <1>6, <2>3, <2>4 DEF Written
<1>12. CASE Save(w)
  <2>1. /\ applied'[u] = Nobody
        /\ \A x \in Usernames \ {u} : rights'[x] = rights[x] /\ applied'[x] = applied[x]
        /\ users' = users /\ End(w)
    BY <1>1, <1>2, <1>12 DEF Save, AccountsTypeOK
  <2>2. worker'[w].step = "idle"
    BY <1>1, <2>1, WorkerAfter
  <2>3. \A x \in Usernames : Complete(x)'
    BY <1>3, <2>1 DEF Complete
  <2> QED
    BY <1>6, <2>2, <2>3 DEF Written
<1> QED
  BY <1>7, <1>8, <1>9, <1>10, <1>11, <1>12 DEF Step

\* Without overlap every step keeps reported edits complete.
LEMMA EditStep ==
  ASSUME TypeInv, EditInv, Serial, [AccountsNext]_accountVars
  PROVE  EditInv'
<1>1. Alone'
  BY AloneStep DEF EditInv
<1>2. /\ \A x \in Usernames : Complete(x)'
      /\ \A v \in Workers : Written(v)'
  <2>1. CASE \E w \in Workers : Step(w)
    BY <2>1, RequestEditStep
  <2>2. CASE Elsewhere
    <3>1. UNCHANGED <<users, rights, applied>>
      BY <2>2, ElsewhereChanges
    <3>2. \A x \in Usernames : Complete(x)'
      BY <3>1 DEF EditInv, EditComplete, Complete
    <3>3. CASE UNCHANGED worker
      BY <3>1, <3>2, <3>3 DEF EditInv, Written
    <3>4. CASE Begun
      <4>1. PICK w \in Workers :
              /\ worker'[w].step \in {"read", "lookup", "own_password"}
              /\ \A v \in Workers \ {w} : worker'[v] = worker[v]
        BY <3>4, BegunChanges DEF TypeInv
      <4> QED
        BY <3>1, <3>2, <4>1 DEF EditInv, Written
    <3>5. CASE \E w \in Workers : End(w)
      <4>1. PICK w \in Workers : End(w)
        BY <3>5
      <4>2. worker'[w].step = "idle" /\ \A v \in Workers \ {w} : worker'[v] = worker[v]
        BY <4>1, WorkerAfter DEF TypeInv
      <4> QED
        BY <3>1, <3>2, <4>2 DEF EditInv, Written
    <3> QED
      BY <2>2, <3>3, <3>4, <3>5, ElsewhereChanges
  <2>3. CASE UNCHANGED accountVars
    BY <2>3 DEF accountVars, EditInv, EditComplete, Complete, Written
  <2> QED
    BY <2>1, <2>2, <2>3 DEF AccountsNext, Elsewhere
<1> QED
  BY <1>1, <1>2 DEF EditInv, EditComplete, Complete

\* After deployment no edit has been reported.
LEMMA InitEditInv == AccountsInit => EditInv
<1> SUFFICES ASSUME AccountsInit PROVE EditInv
  OBVIOUS
<1>1. worker = [w \in Workers |-> Idle] /\ Idle.step = "idle" /\ applied = [u \in Usernames |-> Nobody]
  BY DEF AccountsInit, Idle
<1> QED
  BY <1>1 DEF EditInv, EditComplete, Alone, Written, Busy, At

\* When requests do not overlap, an edit that was reported as saved was saved
\* completely, whichever commit a request before or after it was lost behind.
THEOREM ReportedEditsAreComplete ==
  ASSUME Serial
  PROVE  AccountsSpec => []EditComplete
<1>1. TypeInv /\ EditInv /\ [AccountsNext]_accountVars => EditInv'
  BY EditStep
<1>2. EditInv => EditComplete
  BY DEF EditInv
<1> QED
  BY <1>1, <1>2, InitEditInv, TypeInvariant, PTL DEF AccountsSpec

--------------------------------------------------------------------------------
(***************************************************************************)
(* What is proved of tariffs, of routing and of accounts holds of them in  *)
(* OneAtATime too, the register that is followed and those that rest.      *)
(***************************************************************************)

\* A step of one register is no step of another.
LEMMA RegistersStep ==
  ASSUME [RegistersNext]_registerVars
  PROVE  /\ register' = register
         /\ [Next]_vars /\ [EventsNext]_eventVars /\ [AccountsNext]_accountVars
BY DEF RegistersNext, registerVars, EventsNext, eventVars

\* A behaviour of the composition is one of tariffs and one of routing; when
\* accounts are followed it is one of accounts, which at rest have an
\* administrator more than a deployment leaves.
THEOREM RegistersRunTheirParts ==
  RegistersSpec => Spec /\ EventsSpec /\ (register = "accounts" => AccountsSpec)
<1>1. RegistersInit => Init /\ EventsInit /\ (register = "accounts" => AccountsInit)
  BY DEF RegistersInit
<1> QED
  BY <1>1, RegistersStep, PTL DEF RegistersSpec, Spec, EventsSpec, AccountsSpec
================================================================================
