----------------------------- MODULE PhoneSessions -----------------------------
(***************************************************************************)
(* The same requests as PhonePool, as concurrent web requests really run   *)
(* them: each on its own connection, one SQL statement at a time, under    *)
(* READ COMMITTED.  A SELECT sees committed rows and the transaction's own *)
(* writes; an UPDATE waits for the row lock, then rewrites the newest      *)
(* committed row; nothing a transaction wrote is visible before COMMIT,    *)
(* and an error, a lost connection or a deadlock rolls everything back.    *)
(***************************************************************************)
EXTENDS Naturals, Sequences, FiniteSets, Relation

CONSTANTS Workers, Phones, Routes, LinkIds, Forms, Absent,
          Reach,   \* the numbers that the requests of a worker are about
          Ops      \* the kinds of request that are considered

VARIABLES phone, link, closings,   \* the committed database, as in PhonePool
          pc,        \* the statement each worker executes next
          req,       \* the request it serves, Absent when idle
          seen,      \* the phone row it last read
          todo,      \* the links it still has to close, in order
          wPhone,    \* its uncommitted version of req.phone, Absent if none
          wLink,     \* the link id it inserted, Absent if none
          wClosed    \* the links it closed and has not committed

Pool == INSTANCE PhonePool

db == <<phone, link, closings>>
session == <<pc, req, seen, todo, wPhone, wLink, wClosed>>
vars == <<db, session>>

\* The orders in which a SELECT may return the rows of ids.
Orders(ids) ==
    {list \in [1 .. Cardinality(ids) -> ids] :
        \A i, j \in 1 .. Cardinality(ids) : i # j => list[i] # list[j]}

\* The lists of link ids a form can post or a SELECT can return.
LinkLists == UNION {Orders(S) : S \in SUBSET LinkIds}

Requests ==
    [op: {"create", "update", "import"}, phone: Phones, form: Pool!PhoneForms]
    \cup [op: {"add"}, phone: Phones, route: Routes]
    \cup [op: {"remove"}, route: Routes, ids: LinkLists]
    \cup [op: {"spam"}, phone: Phones]

FirstStep == [create |-> "insert", update |-> "updRead", import |-> "impRead",
              add |-> "addLookup", remove |-> "remSelect", spam |-> "spamLock"]

Steps == {"idle", "insert", "impRead", "impLinks", "updRead", "updWrite", "updCollect",
          "updClose", "addLookup", "addRead", "addCheck", "addPromote", "addLink",
          "remSelect", "remClose", "remLog", "spamLock", "spamFlag", "commit"}

ASSUME FormsAssumption == Forms \subseteq Pool!PhoneForms
ASSUME LinkIdsAssumption == IsFiniteSet(LinkIds)
ASSUME AbsentAssumption ==
    Absent \notin Pool!PhoneRows \cup Pool!LinkRows \cup LinkIds \cup Requests
ASSUME ReachAssumption == Reach \in [Workers -> SUBSET Phones]
ASSUME OpsAssumption == Ops \subseteq DOMAIN FirstStep

--------------------------------------------------------------------------------
(***************************************************************************)
(* Row locks.  A lock is held from the write to the end of the             *)
(* transaction, so who holds what can be read off the uncommitted writes.  *)
(* SELECT ... FOR UPDATE and a change of the unique number lock the row    *)
(* exclusively; a foreign key to the row (a new link, a history row) needs *)
(* it shared, which an ordinary UPDATE allows.                             *)
(***************************************************************************)
Writes(w, p) == wPhone[w] # Absent /\ req[w].phone = p

Exclusive(w) ==
    req[w].op = "spam" \/ (req[w].op = "update" /\ req[w].form.renumber)

Shares(w, p) ==
    \/ wLink[w] # Absent /\ req[w].phone = p
    \/ \E l \in wClosed[w] : link[l].phone = p /\ (pc[w] = "remLog" => l # Head(todo[w]))

PhoneWriters(w, p) ==
    {v \in Workers \ {w} : Writes(v, p) \/ (Exclusive(w) /\ Shares(v, p))}
KeyHolders(w, p) == {v \in Workers \ {w} : Writes(v, p) /\ Exclusive(v)}
LinkHolders(w, l) == {v \in Workers \ {w} : l \in wClosed[v]}

\* ux_route_phone_numbers_active_link makes an insert wait for a transaction
\* that inserted, or is closing, an active link of the same route and number.
IndexHolders(w, r, p) ==
    {v \in Workers \ {w} :
        \/ wLink[v] # Absent /\ req[v].route = r /\ req[v].phone = p
        \/ \E l \in wClosed[v] : l \in Pool!LinksBetween(r, p)}

\* The transactions that the next statement of w has to wait for.
WaitsFor(w) ==
    CASE pc[w] \in {"insert", "updWrite", "spamLock"} -> PhoneWriters(w, req[w].phone)
      [] pc[w] = "addPromote" /\ seen[w].status # "used" -> PhoneWriters(w, req[w].phone)
      [] pc[w] = "addLink" -> IndexHolders(w, req[w].route, req[w].phone)
                              \cup KeyHolders(w, req[w].phone)
      [] pc[w] \in {"remClose", "updClose"} /\ todo[w] # <<>>
             -> LinkHolders(w, Head(todo[w]))
      [] pc[w] = "remLog" -> KeyHolders(w, link[Head(todo[w])].phone)
      [] OTHER -> {}

Granted(w) == WaitsFor(w) = {}

--------------------------------------------------------------------------------
(***************************************************************************)
(* Beginning and ending a request                                          *)
(***************************************************************************)
Init ==
    /\ Pool!Init
    /\ pc = [w \in Workers |-> "idle"]
    /\ req = [w \in Workers |-> Absent]
    /\ seen = [w \in Workers |-> Absent]
    /\ todo = [w \in Workers |-> <<>>]
    /\ wPhone = [w \in Workers |-> Absent]
    /\ wLink = [w \in Workers |-> Absent]
    /\ wClosed = [w \in Workers |-> {}]

\* Bound: a request that may insert a link begins only if an id is left for it.
IdLeft == Cardinality({w \in Workers : pc[w] # "idle" /\ req[w].op = "add"})
              < Cardinality({l \in LinkIds : link[l] = Absent})

Posted(w) ==
    {q \in [op: Ops \cap {"create"}, phone: Reach[w], form: Forms] :
        q.form.provider_id \/ q.form.review_required}
    \cup [op: Ops \cap {"update", "import"}, phone: Reach[w], form: Forms]
    \cup (IF IdLeft THEN [op: Ops \cap {"add"}, phone: Reach[w], route: Routes] ELSE {})
    \cup {q \in [op: Ops \cap {"remove"}, route: Routes, ids: LinkLists \ {<<>>}] :
            \A i \in DOMAIN q.ids : link[q.ids[i]] # Absent /\ link[q.ids[i]].phone \in Reach[w]}
    \cup [op: Ops \cap {"spam"}, phone: Reach[w]]

Begin(w) ==
    /\ pc[w] = "idle"
    /\ \E q \in Posted(w) :
          /\ req' = [req EXCEPT ![w] = q]
          /\ pc' = [pc EXCEPT ![w] = FirstStep[q.op]]
          /\ todo' = [todo EXCEPT ![w] = IF q.op = "remove" THEN q.ids ELSE <<>>]
    /\ UNCHANGED <<db, seen, wPhone, wLink, wClosed>>

EndSession(w) ==
    /\ pc' = [pc EXCEPT ![w] = "idle"]
    /\ req' = [req EXCEPT ![w] = Absent]
    /\ seen' = [seen EXCEPT ![w] = Absent]
    /\ todo' = [todo EXCEPT ![w] = <<>>]
    /\ wPhone' = [wPhone EXCEPT ![w] = Absent]
    /\ wLink' = [wLink EXCEPT ![w] = Absent]
    /\ wClosed' = [wClosed EXCEPT ![w] = {}]

\* except Exception: self.conn.rollback(); raise
Rollback(w) == EndSession(w) /\ UNCHANGED db

\* Fault: links are closed without a row of history.
CommitUnlogged(w) ==
    /\ pc[w] = "commit"
    /\ phone' = IF wPhone[w] = Absent THEN phone
                ELSE [phone EXCEPT ![req[w].phone] = wPhone[w]]
    /\ link' = [l \in LinkIds |->
                  CASE l = wLink[w] -> [route |-> req[w].route, phone |-> req[w].phone,
                                        is_active |-> TRUE]
                    [] l \in wClosed[w] -> [link[l] EXCEPT !.is_active = FALSE]
                    [] OTHER -> link[l]]
    /\ UNCHANGED closings
    /\ EndSession(w)

Commit(w) ==
    /\ pc[w] = "commit"
    /\ phone' = IF wPhone[w] = Absent THEN phone
                ELSE [phone EXCEPT ![req[w].phone] = wPhone[w]]
    /\ link' = [l \in LinkIds |->
                  CASE l = wLink[w] -> [route |-> req[w].route, phone |-> req[w].phone,
                                        is_active |-> TRUE]
                    [] l \in wClosed[w] -> [link[l] EXCEPT !.is_active = FALSE]
                    [] OTHER -> link[l]]
    /\ closings' = [l \in LinkIds |-> closings[l] + (IF l \in wClosed[w] THEN 1 ELSE 0)]
    /\ EndSession(w)

\* The process or its connection dies: the server undoes the transaction.
Disconnect(w) == pc[w] # "idle" /\ Rollback(w)

\* PostgreSQL breaks a cycle of waiting transactions by failing one of them.
\* Any request may end like that (Disconnect); one in a cycle has to, some time.
InDeadlock(w) ==
    LET waits == [a, b \in Workers |-> b \in WaitsFor(a)]
    IN  TransitiveClosure(waits, Workers)[w, w]

DeadlockVictim(w) == InDeadlock(w) /\ Rollback(w)

\* Go on to another statement, changing nothing else but the named session
\* variables.
Goto(w, step) == pc' = [pc EXCEPT ![w] = step]
Read(w, row) == seen' = [seen EXCEPT ![w] = row]
WritePhone(w, row) == wPhone' = [wPhone EXCEPT ![w] = row]

\* Active links as w sees them: the committed ones it has not closed itself.
VisibleLinks(w) == Pool!ActiveLinks \ wClosed[w]

--------------------------------------------------------------------------------
(***************************************************************************)
(* create_phone_number: the unique number makes a second insert fail.      *)
(***************************************************************************)
InsertPhone(w) ==
    /\ pc[w] = "insert" /\ Granted(w)
    /\ IF phone[req[w].phone] # Absent THEN Rollback(w)
       ELSE /\ WritePhone(w, Pool!CreatedRow(req[w].form))
            /\ Goto(w, "commit")
            /\ UNCHANGED <<db, req, seen, todo, wLink, wClosed>>

(***************************************************************************)
(* add_phone_to_route_by_number, then add_phone_to_route                   *)
(***************************************************************************)
LinkedTo(w) == VisibleLinks(w) \cap Pool!LinksBetween(req[w].route, req[w].phone) # {}

AddLookup(w) ==
    /\ pc[w] = "addLookup"
    /\ IF phone[req[w].phone] = Absent \/ LinkedTo(w) THEN Rollback(w)
       ELSE Goto(w, "addRead") /\ UNCHANGED <<db, req, seen, todo, wPhone, wLink, wClosed>>

AddRead(w) ==
    /\ pc[w] = "addRead"
    /\ IF ~phone[req[w].phone].is_active THEN Rollback(w)
       ELSE /\ Read(w, phone[req[w].phone])
            /\ Goto(w, "addCheck")
            /\ UNCHANGED <<db, req, todo, wPhone, wLink, wClosed>>

AddCheck(w) ==
    /\ pc[w] = "addCheck"
    /\ IF LinkedTo(w) THEN Rollback(w)
       ELSE Goto(w, "addPromote") /\ UNCHANGED <<db, req, seen, todo, wPhone, wLink, wClosed>>

\* The promotion is decided on the row read earlier and written WHERE id = ?.
AddPromote(w) ==
    /\ pc[w] = "addPromote" /\ Granted(w)
    /\ IF seen[w].status = "used" THEN UNCHANGED wPhone
       ELSE WritePhone(w, [phone[req[w].phone] EXCEPT !.status = "used"])
    /\ Goto(w, "addLink")
    /\ UNCHANGED <<db, req, seen, todo, wLink, wClosed>>

\* Fault: without the unique index, the check before the insert has to do.
AddLinkUnchecked(w) ==
    /\ pc[w] = "addLink" /\ Granted(w)
    /\ \E l \in LinkIds :
          /\ link[l] = Absent
          /\ \A v \in Workers : wLink[v] # l
          /\ wLink' = [wLink EXCEPT ![w] = l]
    /\ Goto(w, "commit")
    /\ UNCHANGED <<db, req, seen, todo, wPhone, wClosed>>

AddLink(w) ==
    /\ pc[w] = "addLink" /\ Granted(w)
    /\ IF Pool!LinksBetween(req[w].route, req[w].phone) # {} THEN Rollback(w)
       ELSE /\ \E l \in LinkIds :
                  /\ link[l] = Absent
                  /\ \A v \in Workers : wLink[v] # l
                  /\ wLink' = [wLink EXCEPT ![w] = l]
            /\ Goto(w, "commit")
            /\ UNCHANGED <<db, req, seen, todo, wPhone, wClosed>>

(***************************************************************************)
(* remove_phone_links_from_route: for each posted link, a SELECT of the    *)
(* active link, an UPDATE by id and a history row that references the      *)
(* number; one commit at the end.                                          *)
(***************************************************************************)
RemoveSelect(w) ==
    /\ pc[w] = "remSelect"
    /\ IF todo[w] = <<>> THEN Goto(w, "commit") /\ UNCHANGED todo
       ELSE IF Head(todo[w]) \in VisibleLinks(w) /\ link[Head(todo[w])].route = req[w].route
       THEN Goto(w, "remClose") /\ UNCHANGED todo
       ELSE todo' = [todo EXCEPT ![w] = Tail(@)] /\ UNCHANGED pc
    /\ UNCHANGED <<db, req, seen, wPhone, wLink, wClosed>>

RemoveClose(w) ==
    /\ pc[w] = "remClose" /\ Granted(w)
    /\ wClosed' = [wClosed EXCEPT ![w] = @ \cup {Head(todo[w])}]
    /\ Goto(w, "remLog")
    /\ UNCHANGED <<db, req, seen, todo, wPhone, wLink>>

RemoveLog(w) ==
    /\ pc[w] = "remLog" /\ Granted(w)
    /\ todo' = [todo EXCEPT ![w] = Tail(@)]
    /\ Goto(w, "remSelect")
    /\ UNCHANGED <<db, req, seen, wPhone, wLink, wClosed>>

(***************************************************************************)
(* update_phone_number, and the import of an existing number before it     *)
(***************************************************************************)
ImportRead(w) ==
    /\ pc[w] = "impRead"
    /\ IF phone[req[w].phone] = Absent THEN Rollback(w)
       ELSE /\ Read(w, phone[req[w].phone])
            /\ Goto(w, "impLinks")
            /\ UNCHANGED <<db, req, todo, wPhone, wLink, wClosed>>

ImportLinks(w) ==
    /\ pc[w] = "impLinks"
    /\ req' = [req EXCEPT ![w].form =
                 Pool!ImportForm(seen[w], Pool!LinksOfPhone(req[w].phone) # {}, @)]
    /\ Goto(w, "updRead")
    /\ UNCHANGED <<db, seen, todo, wPhone, wLink, wClosed>>

UpdateRead(w) ==
    LET row == phone[req[w].phone] IN
    /\ pc[w] = "updRead"
    /\ IF row = Absent \/ ~Pool!UpdateAccepted(row, req[w].form) THEN Rollback(w)
       ELSE /\ Read(w, row)
            /\ Goto(w, "updWrite")
            /\ UNCHANGED <<db, req, todo, wPhone, wLink, wClosed>>

UpdateWrite(w) ==
    /\ pc[w] = "updWrite" /\ Granted(w)
    /\ WritePhone(w, Pool!UpdatedRow(seen[w], phone[req[w].phone], req[w].form))
    /\ Goto(w, IF Pool!ClosesLinks(req[w].form) THEN "updCollect" ELSE "commit")
    /\ UNCHANGED <<db, req, seen, todo, wLink, wClosed>>

\* Fault: the links of the number are not looked up.
UpdateCollectNone(w) ==
    /\ pc[w] = "updCollect"
    /\ Goto(w, "updClose")
    /\ UNCHANGED <<db, req, seen, todo, wPhone, wLink, wClosed>>

UpdateCollect(w) ==
    /\ pc[w] = "updCollect"
    /\ \E list \in Orders(Pool!LinksOfPhone(req[w].phone)) :
          todo' = [todo EXCEPT ![w] = list]
    /\ Goto(w, "updClose")
    /\ UNCHANGED <<db, req, seen, wPhone, wLink, wClosed>>

UpdateClose(w) ==
    /\ pc[w] = "updClose"
    /\ IF todo[w] = <<>> THEN Goto(w, "commit") /\ UNCHANGED <<todo, wClosed>>
       ELSE /\ Granted(w)
            /\ wClosed' = [wClosed EXCEPT ![w] = @ \cup {Head(todo[w])}]
            /\ todo' = [todo EXCEPT ![w] = Tail(@)]
            /\ UNCHANGED pc
    /\ UNCHANGED <<db, req, seen, wPhone, wLink>>

(***************************************************************************)
(* save_spam_check_batch, when the new result brings the score to 5: the   *)
(* number is locked by SELECT ... FOR UPDATE and flagged if it was not.    *)
(***************************************************************************)
SpamLock(w) ==
    /\ pc[w] = "spamLock" /\ Granted(w)
    /\ IF phone[req[w].phone] = Absent THEN Rollback(w)
       ELSE /\ Read(w, phone[req[w].phone])
            /\ WritePhone(w, phone[req[w].phone])
            /\ Goto(w, "spamFlag")
            /\ UNCHANGED <<db, req, todo, wLink, wClosed>>

SpamFlag(w) ==
    /\ pc[w] = "spamFlag"
    /\ WritePhone(w, Pool!SpamFlagged(seen[w]))
    /\ Goto(w, "commit")
    /\ UNCHANGED <<db, req, seen, todo, wLink, wClosed>>

--------------------------------------------------------------------------------
Step(w) ==
    \/ InsertPhone(w)
    \/ AddLookup(w) \/ AddRead(w) \/ AddCheck(w) \/ AddPromote(w) \/ AddLink(w)
    \/ RemoveSelect(w) \/ RemoveClose(w) \/ RemoveLog(w)
    \/ ImportRead(w) \/ ImportLinks(w)
    \/ UpdateRead(w) \/ UpdateWrite(w) \/ UpdateCollect(w) \/ UpdateClose(w)
    \/ SpamLock(w) \/ SpamFlag(w)
    \/ Commit(w)

Next == \E w \in Workers : Begin(w) \/ Step(w) \/ Disconnect(w)

Spec == Init /\ [][Next]_vars

\* A thread that has begun a request keeps running; PostgreSQL grants row
\* locks in the order in which they were asked for and detects deadlocks.
Fairness ==
    /\ \A w \in Workers : SF_vars(Step(w))
    /\ WF_vars(\E w \in Workers : DeadlockVictim(w))

FairSpec == Spec /\ Fairness

--------------------------------------------------------------------------------
(***************************************************************************)
(* Properties                                                              *)
(***************************************************************************)
TypeOK ==
    /\ Pool!TypeOK
    /\ pc \in [Workers -> Steps]
    /\ req \in [Workers -> Requests \cup {Absent}]
    /\ seen \in [Workers -> Pool!PhoneRows \cup {Absent}]
    /\ todo \in [Workers -> LinkLists]
    /\ wPhone \in [Workers -> Pool!PhoneRows \cup {Absent}]
    /\ wLink \in [Workers -> LinkIds \cup {Absent}]
    /\ wClosed \in [Workers -> SUBSET LinkIds]

\* Two requests that add one number to one route at the same time never both
\* commit: the check before the insert is repeated by the unique index.
ActiveLinkUnique == Pool!ActiveLinkUnique

\* However requests overlap, a problematic number and a number without a
\* provider are under review, and a number switched off carries a date: the
\* row that update_phone_number writes was computed from a stale read, and
\* additions and spam checks write some of the same columns.
FlagsSettled ==
    \A p \in Phones : phone[p] # Absent =>
        /\ phone[p].is_problematic \/ ~phone[p].provider_id => phone[p].review_required
        /\ ~phone[p].is_active => phone[p].deactivated_at

\* However requests overlap, a link is closed only together with a history
\* row that says so, and no history row closes a link that is still active.
ClosingsLogged ==
    \A l \in LinkIds : closings[l] > 0 <=> (link[l] # Absent /\ ~link[l].is_active)

\* Requests that touch different numbers do not disturb one another: run
\* concurrently, their commits are those of the one-at-a-time PhonePool.
ImplementsPool == Pool!Spec

\* Every request ends, by a commit or a rollback, whatever the others hold.
RequestsEnd == \A w \in Workers : pc[w] # "idle" ~> pc[w] = "idle"

\* What PhonePool guarantees and concurrent requests on one number do not.
LinkedPhoneInUse == Pool!LinkedPhoneInUse
ReactivationReviewed == Pool!ReactivationReviewed
================================================================================
