----------------------------- MODULE LoginThrottle -----------------------------
(***************************************************************************)
(* Password sign-in of one username from one client: requests count the    *)
(* failures stored in login_attempts, try the password and store or clear  *)
(* failures, each in statements of its own.  Other usernames and clients   *)
(* have rows of their own and do not meet.                                 *)
(*                                                                         *)
(* Time passes in Ticks and a stored failure has an age; one that is older *)
(* than the window is never read again and is dropped.                     *)
(***************************************************************************)
EXTENDS Naturals, FiniteSets, FiniteSetsExt

CONSTANTS Workers,       \* requests that can be in progress together
          MaxFailures, Window, Lockout,
          MaxRows        \* bound: no further request while so many rows are recent

ASSUME SettingsAssumption ==
    /\ MaxFailures \in Nat \ {0} /\ Window \in Nat \ {0} /\ Lockout \in Nat \ {0}
    /\ MaxRows \in Nat /\ IsFiniteSet(Workers)

Ages == 0 .. Window

Steps == {"idle", "check", "expire", "verify", "fail", "succeed"}

VARIABLES is_active,   \* the account exists and is active
          failures,    \* Ages -> number of rows of that age
          worker,      \* Workers -> step of the request and the Ticks it has seen
          strikes      \* failures stored since a lock last ran out or a sign-in,
             \* counted up to MaxFailures

vars == <<is_active, failures, worker, strikes>>

\* The rows that are younger than the window.
RecentRows == UNION {{a} \X (1 .. failures[a]) : a \in Ages}
Recent == Cardinality(RecentRows)

Youngest == Min({a \in Ages : failures[a] > 0})

\* login_lock_remaining > 0; with fewer failures than the maximum there is no
\* lock, and a lock that has run out leaves rows that must be cleared.
LockReached == Recent >= MaxFailures
Locked == LockReached /\ Youngest < Lockout
RunOut == LockReached /\ Youngest >= Lockout

Doing(w, step) == worker[w].step = step

Go(w, step) == worker' = [worker EXCEPT ![w].step = step]
End(w) == worker' = [worker EXCEPT ![w] = [step |-> "idle", ticks |-> 0]]

Init ==
    /\ is_active \in BOOLEAN
    /\ failures = [a \in Ages |-> 0]
    /\ worker = [w \in Workers |-> [step |-> "idle", ticks |-> 0]]
    /\ strikes = 0

(***************************************************************************)
(* POST /login                                                             *)
(***************************************************************************)
\* Only an active account is ever locked.
Arrive(w) ==
    /\ Doing(w, "idle")
    /\ Recent < MaxRows
    /\ Go(w, IF is_active THEN "check" ELSE "verify")
    /\ UNCHANGED <<is_active, failures, strikes>>

\* Fault: a refusal renews the failures.
CheckRenewing(w) ==
    /\ Doing(w, "check")
    /\ \/ Locked /\ End(w)
       \/ RunOut /\ Go(w, "expire")
       \/ ~LockReached /\ Go(w, "verify")
    /\ failures' = IF Locked THEN [a \in Ages |-> IF a = 0 THEN Recent ELSE 0] ELSE failures
    /\ UNCHANGED <<is_active, strikes>>

\* Fault: one failure too many is let through.
CheckLate(w) ==
    /\ Doing(w, "check")
    /\ \/ Locked /\ Recent > MaxFailures /\ End(w)
       \/ RunOut /\ Go(w, "expire")
       \/ (~LockReached \/ Recent = MaxFailures) /\ Go(w, "verify")
    /\ UNCHANGED <<is_active, failures, strikes>>

Check(w) ==
    /\ Doing(w, "check")
    /\ \/ Locked /\ End(w)
       \/ RunOut /\ Go(w, "expire")
       \/ ~LockReached /\ Go(w, "verify")
    /\ UNCHANGED <<is_active, failures, strikes>>

\* clear_login_failures, which commits.
Clear ==
    /\ failures' = [a \in Ages |-> 0]
    /\ UNCHANGED is_active

Expire(w) ==
    /\ Doing(w, "expire") /\ Clear /\ Go(w, "verify")
    /\ UNCHANGED strikes

\* authenticate_user: the right password of an active account, or not.
Verify(w) ==
    /\ Doing(w, "verify")
    /\ \/ Go(w, "fail")
       \/ is_active /\ Go(w, "succeed")
    /\ UNCHANGED <<is_active, failures, strikes>>

Succeed(w) ==
    /\ Doing(w, "succeed") /\ Clear /\ End(w)
    /\ strikes' = 0

\* record_login_failure.  The message then counts the failures and reads the
\* lock, which cannot have run out while the request takes less than a lockout.
Fail(w) ==
    /\ Doing(w, "fail")
    /\ failures' = [failures EXCEPT ![0] = @ + 1]
    /\ strikes' = Min({strikes + 1, MaxFailures})
    /\ End(w)
    /\ UNCHANGED is_active

\* The connection of a request is lost between two statements.
Disconnect(w) ==
    /\ ~Doing(w, "idle")
    /\ End(w)
    /\ UNCHANGED <<is_active, failures, strikes>>

(***************************************************************************)
(* Time.  A request takes less than a lockout.                             *)
(***************************************************************************)
Aged == [a \in Ages |-> IF a = 0 THEN 0 ELSE failures[a - 1]]

Tick ==
    /\ \A w \in Workers : ~Doing(w, "idle") => worker[w].ticks + 1 < Lockout
    /\ worker' = [w \in Workers |->
                    IF Doing(w, "idle") THEN worker[w] ELSE [worker[w] EXCEPT !.ticks = @ + 1]]
    /\ failures' = Aged
    /\ strikes' = IF Locked /\ RunOut' THEN 0 ELSE strikes
    /\ UNCHANGED is_active

Step(w) ==
    \/ Check(w) \/ Expire(w) \/ Verify(w) \/ Succeed(w) \/ Fail(w)

Next ==
    \/ \E w \in Workers : Arrive(w) \/ Step(w) \/ Disconnect(w)
    \/ Tick

Spec == Init /\ [][Next]_vars

\* Threads run to their end and time does not stop; nobody has to sign in.
Fairness == (\A w \in Workers : WF_vars(Step(w))) /\ WF_vars(Tick)

FairSpec == Spec /\ Fairness

(***************************************************************************)
(* Properties                                                              *)
(***************************************************************************)
TypeOK ==
    /\ is_active \in BOOLEAN
    /\ failures \in [Ages -> 0 .. MaxRows + Cardinality(Workers)]
    /\ worker \in [Workers -> [step: Steps, ticks: 0 .. Lockout - 1]]
    /\ strikes \in 0 .. MaxFailures

\* Requests that overlap can exceed the maximum only by those in progress: an
\* active account has at most MaxFailures failures and one for each further
\* request that was let through before the last of them was stored.
FailuresBounded == is_active => Recent <= MaxFailures - 1 + Cardinality(Workers)

\* A lock that has run out leaves nothing behind: the next one takes
\* MaxFailures wrong passwords again, not the leftovers of the last.
LockEarned == is_active /\ Locked => strikes >= MaxFailures

\* A lock ends, whoever keeps trying.
LockEnds == is_active /\ Locked ~> ~Locked
================================================================================
