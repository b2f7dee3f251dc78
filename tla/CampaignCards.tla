----------------------------- MODULE CampaignCards -----------------------------
(***************************************************************************)
(* The cards of calling campaigns as forms and imports write them,         *)
(* statement by statement: the number a campaign has in the dialler, its   *)
(* server and its GEO.  What routing makes of server and GEO is in         *)
(* CampaignRouting and CampaignSessions.                                   *)
(*                                                                         *)
(* Several is the GEO of a campaign of many; the two unique indexes treat  *)
(* it like any other.                                                      *)
(***************************************************************************)
EXTENDS Naturals

CONSTANTS CardWorkers,     \* requests that can be in progress together
          ExternalIds,     \* what company_id_external may be
          CardServers, CardGeos, Several,
          LastCard         \* bound: ids of campaigns

\* "none" stands for no campaign.
ASSUME CardAssumption == LastCard \in Nat /\ Several \notin CardGeos /\ "none" \notin ExternalIds

VARIABLES card,      \* id -> row, or NoCard
          task,      \* CardWorkers -> the request in progress
          doubled    \* campaigns created while their number was being taken

cardVars == <<card, task, doubled>>

Cards == 1 .. LastCard

CardRows == [external: ExternalIds, server: CardServers, geo: CardGeos \cup {Several}]

NoCard == [external |-> "none"]
NoTask == [step |-> "idle"]

TaskAt(w, step) == task[w].step = step

\* A transaction that has inserted or updated its row and not committed it.
Wrote(w) == TaskAt(w, "commit")

IsCard(n) == card[n] # NoCard

CardInit ==
    /\ card = [n \in Cards |-> NoCard]
    /\ task = [w \in CardWorkers |-> NoTask]
    /\ doubled = {}

Continue(w, q) == task' = [task EXCEPT ![w] = q] /\ UNCHANGED <<card, doubled>>

(***************************************************************************)
(* POST /companies/create, and a row of a file with a new number           *)
(***************************************************************************)
SubmitCard(w) ==
    /\ TaskAt(w, "idle")
    /\ \E row \in CardRows : Continue(w, [step |-> "check", id |-> 0, row |-> row, late |-> FALSE])

\* Fault: a number may be used again on another server.
TakenOnServer(row) == {n \in Cards : card[n].external = row.external /\ card[n].server = row.server}

\* The query of create_calling_company, get_calling_company_by_external_id.
Taken(row) == {n \in Cards : card[n].external = row.external}

CheckCard(w) ==
    /\ TaskAt(w, "check")
    /\ Continue(w, IF Taken(task[w].row) # {} THEN NoTask ELSE [task[w] EXCEPT !.step = "write"])

(***************************************************************************)
(* A row of a file whose number exists: _apply_company.  Without a GEO in  *)
(* the file the campaign keeps the one that was read.                      *)
(***************************************************************************)
ReadCard(w) ==
    /\ TaskAt(w, "idle")
    /\ \E row \in CardRows, kept \in BOOLEAN : \E n \in Taken(row) :
         Continue(w, [step |-> "write", id |-> n, late |-> FALSE,
                      row |-> [row EXCEPT !.geo = IF kept THEN card[n].geo ELSE @]])

(***************************************************************************)
(* POST /companies/<id>/update, of the row a form displayed                *)
(***************************************************************************)
OpenCard(w) ==
    /\ TaskAt(w, "idle")
    /\ \E n \in Cards, row \in CardRows :
         /\ IsCard(n) /\ row.external = card[n].external
         /\ Continue(w, [step |-> "old", id |-> n, shown |-> card[n], old |-> NoCard, row |-> row,
                         fresh |-> TRUE, late |-> FALSE])

\* What the change log will say the campaign was.
ReadOld(w) ==
    /\ TaskAt(w, "old")
    /\ Continue(w, [task[w] EXCEPT !.step = "edit", !.old = card[task[w].id]])

(***************************************************************************)
(* The statement that writes, and the commit                               *)
(***************************************************************************)
\* The row and its entry in an index wait for whoever writes them.
Blocked(w, row) ==
    \E v \in CardWorkers \ {w} :
        /\ Wrote(v)
        /\ \/ task[v].id # 0 /\ task[v].id = task[w].id
           \/ task[v].row = row
           \/ task[v].id # 0 /\ card[task[v].id] = row

Collides(n, row) == \E m \in Cards \ {n} : card[m] = row

\* Fault: UPDATE ... WHERE id.
MatchesById(q) == TRUE

\* UPDATE ... WHERE id AND updated_at, of a form.
Matches(q) == q.step = "edit" => q.fresh

WriteCard(w) ==
    LET q == task[w] IN
    /\ q.step \in {"write", "edit"}
    /\ ~Blocked(w, q.row)
    /\ Continue(w, IF Matches(q) /\ ~Collides(q.id, q.row) THEN [q EXCEPT !.step = "commit"]
                   ELSE NoTask)

\* What the commit of request c for campaign n means to request q.
Informed(q, n, c) ==
    CASE q.step \in {"old", "edit"} /\ q.id = n -> [q EXCEPT !.fresh = FALSE]
      [] c.id = 0 /\ q.step \in {"write", "commit"} /\ q.id = 0 /\ q.row.external = c.row.external ->
           [q EXCEPT !.late = TRUE]
      [] OTHER -> q

CommitCard(w) ==
    LET q == task[w] IN
    /\ TaskAt(w, "commit")
    /\ \E n \in Cards :
         /\ IF q.id # 0 THEN n = q.id ELSE ~IsCard(n) /\ \A m \in 1 .. n - 1 : IsCard(m)
         /\ card' = [card EXCEPT ![n] = q.row]
         /\ doubled' = IF q.late THEN doubled \cup {n} ELSE doubled
         /\ task' = [v \in CardWorkers |-> IF v = w THEN NoTask ELSE Informed(task[v], n, q)]

LeaveCard(w) ==
    /\ ~TaskAt(w, "idle")
    /\ Continue(w, NoTask)

CardNext ==
    \E w \in CardWorkers :
        \/ SubmitCard(w) \/ CheckCard(w) \/ ReadCard(w) \/ OpenCard(w) \/ ReadOld(w)
        \/ WriteCard(w) \/ CommitCard(w) \/ LeaveCard(w)

CardSpec == CardInit /\ [][CardNext]_cardVars

(***************************************************************************)
(* Properties                                                              *)
(***************************************************************************)
CardTypeOK ==
    /\ card \in [Cards -> CardRows \cup {NoCard}]
    /\ \A w \in CardWorkers : task[w].step \in {"idle", "check", "write", "old", "edit", "commit"}
    /\ doubled \subseteq Cards

\* Two campaigns have one number only if one was created while the other was.
NumbersApart ==
    \A n, m \in Cards : n # m /\ IsCard(n) /\ card[n].external = card[m].external =>
        n \in doubled \/ m \in doubled

\* The change log of an edit names the row that the edit replaced, and that is
\* the row its form displayed, whatever was imported meanwhile.
EditLogTrue ==
    [][\A w \in CardWorkers : TaskAt(w, "commit") /\ "shown" \in DOMAIN task[w]
         /\ card'[task[w].id] # card[task[w].id]
         => card[task[w].id] = task[w].old /\ task[w].old = task[w].shown]_cardVars

\* The number identifies a campaign, as the import takes for granted; not true
\* of creations that overlap.
NumbersUnique == \A n, m \in Cards : IsCard(n) /\ card[n].external = card[m].external => n = m
================================================================================
