-------------------------------- MODULE PagesProofs ------------------------------
(***************************************************************************)
(* What the pages, imports and scripts of Pages and the sign-in keep true, *)
(* each followed by itself: for any numbers of requests, rows and entries, *)
(* any limits and any failures of the kind its module describes.           *)
(***************************************************************************)
EXTENDS Pages, LoginThrottle, FiniteSetTheorems, WellFoundedInduction, TLAPS

--------------------------------------------------------------------------------
(***************************************************************************)
(* The saved cursor never passes an entry that was not sent, unless the    *)
(* entry was overtaken: for any numbers of transactions, runs and entries, *)
(* any page limit and any failures.                                        *)
(***************************************************************************)

\* Up to the cursor nothing is still to be inserted, and what is committed has
\* been sent, or will be with the entries of got.
Kept(cursor, got) ==
    \A i \in Ids : i <= cursor =>
        /\ entry[i] # "unused"
        /\ entry[i] = "open" => i \in overtaken
        /\ entry[i] = "committed" => i \in got \cup overtaken

\* Ids are given out in order, to one transaction each.
IdsInOrder ==
    /\ \A i, j \in Ids : j < i /\ entry[j] = "unused" => entry[i] = "unused"
    /\ \A w \in Writers : \A i \in inserted[w] : entry[i] = "open"
    /\ \A w, v \in Writers : w # v => inserted[w] \cap inserted[v] = {}

RunsKept ==
    \A p \in Pushers :
        /\ Kept(run[p].cursor, told)
        /\ RunAt(p, "post") => Kept(run[p].next, told \cup run[p].page)
        /\ RunAt(p, "save") => Kept(run[p].next, told)

FeedInv == FeedTypeOK /\ IdsInOrder /\ Kept(cursorFile, told) /\ RunsKept

--------------------------------------------------------------------------------
\* A set of naturals with an upper bound has a largest member.
LEMMA MaxOfBounded ==
  ASSUME NEW S \in SUBSET Nat, NEW n \in Nat, \A s \in S : s <= n, S # {}
  PROVE  Max(S) \in S /\ \A s \in S : s <= Max(S)
<1> DEFINE D == {k \in 0 .. n : n - k \in S}
<1>1. D \subseteq Nat /\ D # {}
  <2>1. PICK s \in S : s <= n
    OBVIOUS
  <2>2. n - s \in 0 .. n /\ n - (n - s) = s
    BY <2>1
  <2> QED
    BY <2>2
<1> DEFINE R == OpToRel(<, Nat)
<1>2. IsWellFoundedOn(R, Nat) /\ \A e, d \in Nat : e < d => <<e, d>> \in R
  <2>1. ASSUME NEW e \in Nat, NEW d \in Nat, e < d PROVE <<e, d>> \in R
    BY <2>1, Zenon DEF OpToRel
  <2> QED
    BY <2>1, NatLessThanWellFounded, Zenon
<1> HIDE DEF R
<1>3. PICK d \in D : \A e \in D : d <= e
  <2>1. PICK d \in D : \A e \in D : ~(<<e, d>> \in R)
    <3>1. D \subseteq Nat /\ D # {} /\ IsWellFoundedOn(R, Nat)
      BY <1>1, <1>2
    <3> HIDE DEF D
    <3> QED
      BY <3>1, WFMin
  <2>2. \A e \in D : ~(e < d)
    BY <2>1, <1>1, <1>2
  <2> QED
    BY <2>2
<1>4. \A s \in S : n - d >= s
  <2> SUFFICES ASSUME NEW s \in S PROVE n - d >= s
    OBVIOUS
  <2>1. n - s \in D
    <3>1. n - s \in 0 .. n /\ n - (n - s) = s
      OBVIOUS
    <3> QED
      BY <3>1
  <2>2. d <= n - s
    BY <2>1, <1>3
  <2> QED
    BY <2>2
<1>5. \E x \in S : \A y \in S : x >= y
  BY <1>4
<1>6. Max(S) \in S /\ \A y \in S : Max(S) >= y
  BY <1>5 DEF Max
<1> QED
  BY <1>6

\* What LIMIT keeps is closed downwards.
LEMMA FirstClosed ==
  ASSUME NEW S \in SUBSET Nat, IsFiniteSet(S), NEW n \in Nat,
         NEW i \in S, NEW j \in First(S, n), i <= j
  PROVE  i \in First(S, n)
<1> DEFINE Below(x) == {k \in S : k < x}
<1> j \in S
  BY DEF First
<1>1. Below(i) \in SUBSET Below(j)
  <2> SUFFICES ASSUME NEW k \in S, k < i PROVE k < j
    OBVIOUS
  <2> i \in Nat /\ j \in Nat /\ k \in Nat
    OBVIOUS
  <2> QED
    OBVIOUS
<1>2. IsFiniteSet(Below(j))
  BY FS_Subset
<1>3. Cardinality(Below(i)) <= Cardinality(Below(j))
  BY <1>1, <1>2, FS_Subset
<1>4. IsFiniteSet(Below(i))
  BY FS_Subset
<1>5. Cardinality(Below(i)) \in Nat /\ Cardinality(Below(j)) \in Nat
  BY <1>2, <1>4, FS_CardinalityType
<1>6. Cardinality(Below(j)) < n
  BY DEF First
<1>7. Cardinality(Below(i)) < n
  BY <1>3, <1>5, <1>6
<1> QED
  BY <1>7 DEF First

\* A page has every id between the cursor it was asked for and the one it returns.
LEMMA PageComplete ==
  ASSUME FeedAssumption, NEW last \in Nat, NEW S \in SUBSET (1 .. last), NEW after \in Nat
  PROVE  /\ Items(S, after) \subseteq S
         /\ NextCursor(S, after) \in Nat
         /\ NextCursor(S, after) = after \/ NextCursor(S, after) \in S
         /\ \A i \in S : after < i /\ i <= NextCursor(S, after) => i \in Items(S, after)
<1> DEFINE Beyond == {i \in S : i > after}
           F == Fetched(S, after)
           I == Items(S, after)
<1>1. S \in SUBSET Nat /\ IsFiniteSet(S) /\ \A s \in S : s <= last
  <2>1. IsFiniteSet(1 .. last)
    BY FS_Interval
  <2>2. IsFiniteSet(S)
    BY <2>1, FS_Subset
  <2> QED
    BY <2>2
<1>2. Beyond \in SUBSET Nat /\ IsFiniteSet(Beyond)
  BY <1>1, FS_Subset
<1>3. F \in SUBSET Beyond /\ F = First(Beyond, PageLimit + 1)
  BY DEF Fetched, First
<1>4. F \in SUBSET Nat /\ IsFiniteSet(F)
  BY <1>2, <1>3, FS_Subset
<1>5. I \in SUBSET F /\ I = First(F, PageLimit)
  BY DEF Items, First
<1>6. I \in SUBSET Nat /\ \A i \in I : i <= last
  BY <1>1, <1>3, <1>5
<1>7. CASE I = {}
  BY <1>1, <1>7 DEF NextCursor
<1>8. CASE I # {}
  <2>1. NextCursor(S, after) = Max(I)
    BY <1>8 DEF NextCursor
  <2>2. Max(I) \in I /\ \A i \in I : i <= Max(I)
    BY <1>6, <1>8, MaxOfBounded
  <2>3. ASSUME NEW i \in S, after < i, i <= Max(I) PROVE i \in I
    <3>1. i \in Beyond /\ Max(I) \in F
      BY <2>2, <2>3, <1>1, <1>5
    <3>2. i \in F
      BY <3>1, <2>3, <1>2, <1>3, FirstClosed DEF FeedAssumption
    <3> QED
      BY <3>2, <2>2, <2>3, <1>4, <1>5, FirstClosed DEF FeedAssumption
  <2> QED
    BY <2>1, <2>2, <2>3, <1>1, <1>3, <1>5, <1>6
<1> QED
  BY <1>7, <1>8
\* Inserting and settling entries keeps every promise: what a cursor has passed
\* is not inserted any more, and what was open then is overtaken.
LEMMA EntriesStep ==
  ASSUME FeedInv, UNCHANGED <<run, cursorFile, told, overtaken>>,
         \A i \in Ids : /\ entry'[i] = "unused" => entry[i] = "unused"
                        /\ entry'[i] = "open" => entry[i] \in {"unused", "open"}
                        /\ entry'[i] = "committed" => entry[i] \in {"open", "committed"}
  PROVE  Kept(cursorFile, told)' /\ RunsKept'
<1>1. Kept(cursorFile, told)'
  BY DEF FeedInv, Kept
<1>2. ASSUME NEW p \in Pushers
      PROVE  /\ Kept(run[p].cursor, told)'
             /\ RunAt(p, "post")' => Kept(run[p].next, told \cup run[p].page)'
             /\ RunAt(p, "save")' => Kept(run[p].next, told)'
  <2>1. /\ Kept(run[p].cursor, told)
        /\ RunAt(p, "post") => Kept(run[p].next, told \cup run[p].page)
        /\ RunAt(p, "save") => Kept(run[p].next, told)
    BY DEF FeedInv, RunsKept
  <2>2. Kept(run[p].cursor, told)'
    BY <2>1 DEF Kept
  <2>3. ASSUME RunAt(p, "post")' PROVE Kept(run[p].next, told \cup run[p].page)'
    BY <2>1, <2>3 DEF Kept, RunAt
  <2>4. ASSUME RunAt(p, "save")' PROVE Kept(run[p].next, told)'
    BY <2>1, <2>4 DEF Kept, RunAt
  <2> QED
    BY <2>2, <2>3, <2>4
<1> QED
  BY <1>1, <1>2 DEF RunsKept

\* A transaction that inserts an entry takes an id beyond every cursor.
LEMMA ChangeLogStep ==
  ASSUME FeedInv, NEW w \in Writers, ChangeLog(w)
  PROVE  FeedInv'
<1>1. PICK i \in Ids : /\ entry[i] = "unused" /\ \A j \in 1 .. i - 1 : entry[j] # "unused"
                       /\ entry' = [entry EXCEPT ![i] = "open"]
                       /\ inserted' = [inserted EXCEPT ![w] = @ \cup {i}]
  BY DEF ChangeLog
<1>2. UNCHANGED <<rows, run, cursorFile, told, overtaken>>
  BY DEF ChangeLog
<1>3. FeedTypeOK'
  BY <1>1, <1>2 DEF FeedInv, FeedTypeOK, EntryStates
<1>4. IdsInOrder'
  <2>1. ASSUME NEW k \in Ids, NEW j \in Ids, j < k, entry'[j] = "unused" PROVE entry'[k] = "unused"
    <3>1. j # i /\ entry[j] = "unused"
      BY <1>1, <2>1 DEF FeedInv, FeedTypeOK
    <3>2. j \notin 1 .. i - 1
      BY <3>1, <1>1
    <3>3. k # i
      BY <3>2, <2>1 DEF Ids
    <3> QED
      BY <3>1, <3>3, <2>1, <1>1 DEF FeedInv, FeedTypeOK, IdsInOrder
  <2>2. \A v \in Writers : \A k \in inserted'[v] : entry'[k] = "open"
    BY <1>1 DEF FeedInv, FeedTypeOK, IdsInOrder
  <2>3. \A v \in Writers : i \notin inserted[v]
    BY <1>1 DEF FeedInv, IdsInOrder
  <2>4. \A u, v \in Writers : u # v => inserted'[u] \cap inserted'[v] = {}
    BY <1>1, <2>3 DEF FeedInv, FeedTypeOK, IdsInOrder
  <2> QED
    BY <2>1, <2>2, <2>4 DEF IdsInOrder
<1>5. \A j \in Ids : /\ entry'[j] = "unused" => entry[j] = "unused"
                     /\ entry'[j] = "open" => entry[j] \in {"unused", "open"}
                     /\ entry'[j] = "committed" => entry[j] \in {"open", "committed"}
  BY <1>1, <1>2 DEF FeedInv, FeedTypeOK, EntryStates
<1>6. Kept(cursorFile, told)' /\ RunsKept'
  BY <1>2, <1>5, EntriesStep
<1> QED
  BY <1>3, <1>4, <1>6 DEF FeedInv

\* A commit or a rollback settles entries that every cursor beyond them has overtaken.
LEMMA FinishStep ==
  ASSUME FeedInv, NEW w \in Writers, NEW outcome \in {"committed", "void"}, Finish(w, outcome)
  PROVE  FeedInv'
<1>1. /\ entry' = [i \in Ids |-> IF i \in inserted[w] THEN outcome ELSE entry[i]]
      /\ inserted' = [inserted EXCEPT ![w] = {}]
      /\ UNCHANGED <<rows, run, cursorFile, told, overtaken>>
  BY DEF Finish
<1>2. FeedTypeOK'
  BY <1>1 DEF FeedInv, FeedTypeOK, EntryStates
<1>3. \A i \in inserted[w] : i \in Ids /\ entry[i] = "open"
  BY DEF FeedInv, FeedTypeOK, IdsInOrder
<1>4. IdsInOrder'
  <2>1. \A i, j \in Ids : j < i /\ entry'[j] = "unused" => entry'[i] = "unused"
    BY <1>1, <1>3 DEF FeedInv, IdsInOrder
  <2>2. \A v \in Writers : \A i \in inserted'[v] : entry'[i] = "open"
    <3> SUFFICES ASSUME NEW v \in Writers, NEW i \in inserted'[v] PROVE entry'[i] = "open"
      OBVIOUS
    <3>1. v # w /\ i \in inserted[v] /\ i \in Ids
      BY <1>1 DEF FeedInv, FeedTypeOK
    <3>2. i \notin inserted[w] /\ entry[i] = "open"
      BY <3>1 DEF FeedInv, IdsInOrder
    <3> QED
      BY <3>1, <3>2, <1>1
  <2>3. \A u, v \in Writers : u # v => inserted'[u] \cap inserted'[v] = {}
    BY <1>1 DEF FeedInv, FeedTypeOK, IdsInOrder
  <2> QED
    BY <2>1, <2>2, <2>3 DEF IdsInOrder
<1>5. \A j \in Ids : /\ entry'[j] = "unused" => entry[j] = "unused"
                     /\ entry'[j] = "open" => entry[j] \in {"unused", "open"}
                     /\ entry'[j] = "committed" => entry[j] \in {"open", "committed"}
  BY <1>1, <1>3
<1>6. Kept(cursorFile, told)' /\ RunsKept'
  BY <1>1, <1>5, EntriesStep
<1> QED
  BY <1>2, <1>4, <1>6 DEF FeedInv

--------------------------------------------------------------------------------
\* A step of one run that leaves the change log alone keeps what the other runs
\* and the file know, if its own run keeps it.
LEMMA RunStep ==
  ASSUME FeedInv, FeedTypeOK', NEW p \in Pushers,
         UNCHANGED <<entry, inserted>>, told \subseteq told', overtaken \subseteq overtaken',
         Kept(cursorFile, told)',
         \A q \in Pushers \ {p} : run'[q] = run[q],
         Kept(run[p].cursor, told)',
         RunAt(p, "post")' => Kept(run[p].next, told \cup run[p].page)',
         RunAt(p, "save")' => Kept(run[p].next, told)'
  PROVE  FeedInv'
<1>1. IdsInOrder'
  BY DEF FeedInv, IdsInOrder
<1>2. ASSUME NEW q \in Pushers \ {p}
      PROVE  /\ Kept(run[q].cursor, told)'
             /\ RunAt(q, "post")' => Kept(run[q].next, told \cup run[q].page)'
             /\ RunAt(q, "save")' => Kept(run[q].next, told)'
  BY DEF FeedInv, RunsKept, Kept, RunAt
<1>3. RunsKept'
  BY <1>2 DEF RunsKept
<1> QED
  BY <1>1, <1>3 DEF FeedInv

\* The cursor 0 of a run that has not begun promises nothing.
LEMMA EndRunStep ==
  ASSUME FeedInv, NEW p \in Pushers, EndRun(p), UNCHANGED <<entry, inserted, rows, overtaken>>,
         told \subseteq told', told' \subseteq Ids, cursorFile' \in Nat, Kept(cursorFile, told)'
  PROVE  FeedInv'
<1>1. run' = [run EXCEPT ![p] = NoRun]
  BY DEF EndRun
<1>2. NoRun \in [step: RunSteps, at: Nat, items: SUBSET Rows, always: SUBSET Rows,
                 cursor: Nat, page: SUBSET Ids, next: Nat]
  BY DEF NoRun, RunSteps
<1>3. FeedTypeOK'
  BY <1>1, <1>2 DEF FeedInv, FeedTypeOK
<1>4. run'[p] = NoRun /\ \A q \in Pushers \ {p} : run'[q] = run[q]
  BY <1>1 DEF FeedInv, FeedTypeOK
<1>5. Kept(run[p].cursor, told)' /\ ~RunAt(p, "post")' /\ ~RunAt(p, "save")'
  BY <1>4 DEF NoRun, Kept, RunAt, Ids
<1> QED
  BY <1>3, <1>4, <1>5, RunStep

LEMMA ChangeRowStep == ASSUME FeedInv, NEW r \in Rows, ChangeRow(r) PROVE FeedInv'
<1>1. /\ rows' = IF r \in rows THEN rows \ {r} ELSE rows \cup {r}
      /\ run' = [p \in Pushers |-> [run[p] EXCEPT !.always = @ \ {r}]]
      /\ UNCHANGED <<entry, inserted, cursorFile, told, overtaken>>
  BY DEF ChangeRow
<1>2. FeedTypeOK'
  BY <1>1 DEF FeedInv, FeedTypeOK
<1>3. \A p \in Pushers : /\ run'[p].step = run[p].step /\ run'[p].cursor = run[p].cursor
                         /\ run'[p].page = run[p].page /\ run'[p].next = run[p].next
  BY <1>1 DEF FeedInv, FeedTypeOK
<1>4. IdsInOrder' /\ Kept(cursorFile, told)'
  BY <1>1 DEF FeedInv, IdsInOrder, Kept
<1>5. RunsKept'
  BY <1>1, <1>3 DEF FeedInv, RunsKept, Kept, RunAt
<1> QED
  BY <1>2, <1>4, <1>5 DEF FeedInv

\* A run starts with the cursor of the file.
LEMMA StartRunStep == ASSUME FeedInv, NEW p \in Pushers, StartRun(p) PROVE FeedInv'
<1>1. PICK step \in {"section", "read"} :
         run' = [run EXCEPT ![p] = [NoRun EXCEPT !.step = step, !.cursor = cursorFile,
                                                 !.always = IF step = "section" THEN rows ELSE {}]]
  BY DEF StartRun
<1>2. UNCHANGED <<entry, inserted, rows, cursorFile, told, overtaken>>
  BY DEF StartRun
<1>3. FeedTypeOK'
  BY <1>1, <1>2 DEF FeedInv, FeedTypeOK, NoRun, RunSteps
<1>4. /\ run'[p].cursor = cursorFile /\ run'[p].step = step
      /\ \A q \in Pushers \ {p} : run'[q] = run[q]
  BY <1>1 DEF FeedInv, FeedTypeOK, NoRun
<1>5. Kept(run[p].cursor, told)' /\ ~RunAt(p, "post")' /\ ~RunAt(p, "save")' /\ Kept(cursorFile, told)'
  BY <1>1, <1>2, <1>4 DEF FeedInv, Kept, RunAt
<1> QED
  BY <1>2, <1>3, <1>4, <1>5, RunStep

LEMMA ReadSectionStep ==
  ASSUME FeedAssumption, FeedInv, NEW p \in Pushers, ReadSection(p) PROVE FeedInv'
<1> DEFINE at == run[p].at
           step == IF HasMore(rows, at) THEN "section" ELSE "post_snapshot"
<1>1. /\ run' = [run EXCEPT ![p].step = step, ![p].at = NextCursor(rows, at),
                            ![p].items = @ \cup Items(rows, at)]
      /\ UNCHANGED <<entry, inserted, rows, cursorFile, told, overtaken>>
  BY DEF ReadSection
<1>2. NextCursor(rows, at) \in Nat /\ Items(rows, at) \subseteq Rows
  <2>1. rows \in SUBSET (1 .. LastRow) /\ at \in Nat /\ LastRow \in Nat
    BY DEF FeedInv, FeedTypeOK, Rows, FeedAssumption
  <2> QED
    BY <2>1, PageComplete DEF Rows
<1>3. step \in {"section", "post_snapshot"}
  OBVIOUS
<1> HIDE DEF at, step
<1>4. FeedTypeOK'
  <2>1. run[p].items \cup Items(rows, at) \in SUBSET Rows
    BY <1>2 DEF FeedInv, FeedTypeOK
  <2>2. step \in RunSteps
    BY <1>3 DEF RunSteps
  <2>3. [run[p] EXCEPT !.step = step, !.at = NextCursor(rows, at),
                       !.items = @ \cup Items(rows, at)]
        \in [step: RunSteps, at: Nat, items: SUBSET Rows, always: SUBSET Rows,
            cursor: Nat, page: SUBSET Ids, next: Nat]
    BY <1>2, <2>1, <2>2 DEF FeedInv, FeedTypeOK
  <2> QED
    BY <1>1, <2>3 DEF FeedInv, FeedTypeOK
<1>5. /\ run'[p].cursor = run[p].cursor /\ run'[p].step = step
      /\ \A q \in Pushers \ {p} : run'[q] = run[q]
  BY <1>1 DEF FeedInv, FeedTypeOK
<1>6. Kept(run[p].cursor, told)' /\ ~RunAt(p, "post")' /\ ~RunAt(p, "save")' /\ Kept(cursorFile, told)'
  BY <1>1, <1>3, <1>5 DEF FeedInv, RunsKept, Kept, RunAt
<1> QED
  BY <1>1, <1>4, <1>5, <1>6, RunStep

LEMMA PostSnapshotStep == ASSUME FeedInv, NEW p \in Pushers, PostSnapshot(p) PROVE FeedInv'
<1>1. UNCHANGED <<entry, inserted, rows, cursorFile, told, overtaken>>
  BY DEF PostSnapshot
<1>2. Kept(cursorFile, told)'
  BY <1>1 DEF FeedInv, Kept
<1>3. CASE EndRun(p)
  BY <1>1, <1>2, <1>3, EndRunStep DEF FeedInv, FeedTypeOK
<1>4. CASE run' = [run EXCEPT ![p].step = "read", ![p].items = {}, ![p].at = 0, ![p].always = {}]
  <2>1. FeedTypeOK'
    <3>1. [run[p] EXCEPT !.step = "read", !.items = {}, !.at = 0, !.always = {}]
          \in [step: RunSteps, at: Nat, items: SUBSET Rows, always: SUBSET Rows,
              cursor: Nat, page: SUBSET Ids, next: Nat]
      BY DEF FeedInv, FeedTypeOK, RunSteps
    <3> QED
      BY <1>1, <1>4, <3>1 DEF FeedInv, FeedTypeOK
  <2>2. /\ run'[p].cursor = run[p].cursor /\ run'[p].step = "read"
        /\ \A q \in Pushers \ {p} : run'[q] = run[q]
    BY <1>4 DEF FeedInv, FeedTypeOK
  <2>3. Kept(run[p].cursor, told)' /\ ~RunAt(p, "post")' /\ ~RunAt(p, "save")'
    BY <1>1, <2>2 DEF FeedInv, RunsKept, Kept, RunAt
  <2> QED
    BY <1>1, <1>2, <2>1, <2>2, <2>3, RunStep
<1> QED
  BY <1>3, <1>4 DEF PostSnapshot

\* A page has every entry committed between the two cursors; those still open
\* below the new cursor are overtaken from here on.
LEMMA ReadEventsStep ==
  ASSUME FeedAssumption, FeedInv, NEW p \in Pushers, ReadEvents(p) PROVE FeedInv'
<1> DEFINE cursor == run[p].cursor
           batch == Items(Committed, cursor)
           next == NextCursor(Committed, cursor)
<1>1. /\ run' = [run EXCEPT ![p].step = "post", ![p].page = batch, ![p].next = next]
      /\ overtaken' = overtaken \cup {i \in Open : i <= next}
      /\ UNCHANGED <<entry, inserted, rows, cursorFile, told>>
  BY DEF ReadEvents
<1>2. /\ batch \subseteq Committed /\ next \in Nat
      /\ next = cursor \/ next \in Committed
      /\ \A i \in Committed : cursor < i /\ i <= next => i \in batch
  <2>1. Committed \in SUBSET (1 .. LastId) /\ cursor \in Nat /\ LastId \in Nat
    BY DEF FeedInv, FeedTypeOK, Committed, Ids, FeedAssumption
  <2> QED
    BY <2>1, PageComplete
<1>3. cursor \in Nat /\ Kept(cursor, told)
  BY DEF FeedInv, FeedTypeOK, RunsKept
<1> HIDE DEF cursor, batch, next
<1>4. FeedTypeOK'
  <2>1. batch \in SUBSET Ids /\ overtaken' \in SUBSET Ids
    BY <1>1, <1>2 DEF FeedInv, FeedTypeOK, Committed, Open
  <2>2. [run[p] EXCEPT !.step = "post", !.page = batch, !.next = next]
        \in [step: RunSteps, at: Nat, items: SUBSET Rows, always: SUBSET Rows,
            cursor: Nat, page: SUBSET Ids, next: Nat]
    BY <1>2, <2>1 DEF FeedInv, FeedTypeOK, RunSteps
  <2> QED
    BY <1>1, <2>1, <2>2 DEF FeedInv, FeedTypeOK
<1>5. /\ run'[p].cursor = cursor /\ run'[p].step = "post" /\ run'[p].page = batch /\ run'[p].next = next
      /\ \A q \in Pushers \ {p} : run'[q] = run[q]
  BY <1>1 DEF FeedInv, FeedTypeOK, cursor
<1>6. ASSUME NEW i \in Ids, i <= next
      PROVE  /\ entry[i] # "unused"
             /\ entry[i] = "open" => i \in overtaken'
             /\ entry[i] = "committed" => i \in told \cup batch \cup overtaken'
  <2>1. CASE i <= cursor
    BY <2>1, <1>1, <1>3 DEF Kept
  <2>2. CASE ~(i <= cursor)
    <3>1. cursor < i /\ next \in Committed
      BY <2>2, <1>2, <1>3, <1>6 DEF Ids
    <3>2. entry[next] = "committed" /\ next \in Ids
      BY <3>1 DEF Committed
    <3>3. entry[i] # "unused"
      <4>1. CASE i = next
        BY <4>1, <3>2
      <4>2. CASE i # next
        <5>1. i < next
          BY <4>2, <1>6, <1>2 DEF Ids
        <5> QED
          BY <5>1, <3>2 DEF FeedInv, IdsInOrder
      <4> QED
        BY <4>1, <4>2
    <3> QED
      BY <3>1, <3>3, <1>1, <1>2, <1>6 DEF Committed, Open
  <2> QED
    BY <2>1, <2>2
<1>7. Kept(run[p].next, told \cup run[p].page)'
  BY <1>1, <1>5, <1>6 DEF Kept
<1>8. Kept(run[p].cursor, told)' /\ Kept(cursorFile, told)' /\ ~RunAt(p, "save")'
  BY <1>1, <1>3, <1>5 DEF FeedInv, Kept, RunAt
<1> QED
  BY <1>1, <1>4, <1>5, <1>7, <1>8, RunStep

LEMMA PostEventsStep == ASSUME FeedInv, NEW p \in Pushers, PostEvents(p) PROVE FeedInv'
<1>1. /\ RunAt(p, "post")
      /\ told' \in {told, told \cup run[p].page}
      /\ UNCHANGED <<entry, inserted, rows, cursorFile, overtaken>>
  BY DEF PostEvents
<1>2. run[p].page \subseteq Ids /\ told \subseteq told' /\ told' \subseteq Ids
  BY <1>1 DEF FeedInv, FeedTypeOK
<1>3. Kept(cursorFile, told)'
  BY <1>1, <1>2 DEF FeedInv, Kept
<1>4. CASE EndRun(p)
  BY <1>1, <1>2, <1>3, <1>4, EndRunStep DEF FeedInv, FeedTypeOK
<1>5. CASE told' = told \cup run[p].page /\ run' = [run EXCEPT ![p].step = "save"]
  <2>1. FeedTypeOK'
    BY <1>1, <1>2, <1>5 DEF FeedInv, FeedTypeOK, RunSteps
  <2>2. /\ run'[p].cursor = run[p].cursor /\ run'[p].next = run[p].next /\ run'[p].step = "save"
        /\ \A q \in Pushers \ {p} : run'[q] = run[q]
    BY <1>5 DEF FeedInv, FeedTypeOK
  <2>3. Kept(run[p].cursor, told) /\ Kept(run[p].next, told \cup run[p].page)
    BY <1>1 DEF FeedInv, RunsKept
  <2>4. Kept(run[p].cursor, told)' /\ Kept(run[p].next, told)' /\ ~RunAt(p, "post")'
    BY <1>1, <1>5, <2>2, <2>3 DEF Kept, RunAt
  <2> QED
    BY <1>1, <1>2, <1>3, <2>1, <2>2, <2>4, RunStep
<1> QED
  BY <1>4, <1>5 DEF PostEvents

LEMMA SaveCursorStep == ASSUME FeedInv, NEW p \in Pushers, SaveCursor(p) PROVE FeedInv'
<1>1. /\ RunAt(p, "save") /\ cursorFile' = run[p].next /\ EndRun(p)
      /\ UNCHANGED <<entry, inserted, rows, told, overtaken>>
  BY DEF SaveCursor
<1>2. Kept(run[p].next, told) /\ run[p].next \in Nat
  BY <1>1 DEF FeedInv, FeedTypeOK, RunsKept
<1>3. Kept(cursorFile, told)'
  BY <1>1, <1>2 DEF Kept
<1> QED
  BY <1>1, <1>2, <1>3, EndRunStep DEF FeedInv, FeedTypeOK

LEMMA BreakRunStep == ASSUME FeedInv, NEW p \in Pushers, BreakRun(p) PROVE FeedInv'
<1>1. EndRun(p) /\ UNCHANGED <<entry, inserted, rows, cursorFile, told, overtaken>>
  BY DEF BreakRun
<1>2. Kept(cursorFile, told)'
  BY <1>1 DEF FeedInv, Kept
<1> QED
  BY <1>1, <1>2, EndRunStep DEF FeedInv, FeedTypeOK

--------------------------------------------------------------------------------
LEMMA FeedInvInductive == ASSUME FeedAssumption PROVE FeedSpec => []FeedInv
<1>1. FeedInit => FeedInv
  <2> SUFFICES ASSUME FeedInit PROVE FeedInv
    OBVIOUS
  <2>1. FeedTypeOK
    BY DEF FeedInit, FeedTypeOK, EntryStates, NoRun, RunSteps
  <2>2. IdsInOrder
    BY DEF FeedInit, IdsInOrder
  <2>3. Kept(cursorFile, told) /\ RunsKept
    BY DEF FeedInit, Kept, RunsKept, RunAt, NoRun, Ids
  <2> QED
    BY <2>1, <2>2, <2>3 DEF FeedInv
<1>2. FeedInv /\ [FeedNext]_feedVars => FeedInv'
  <2> SUFFICES ASSUME FeedInv, [FeedNext]_feedVars PROVE FeedInv'
    OBVIOUS
  <2>1. ASSUME NEW w \in Writers, ChangeLog(w) \/ Finish(w, "committed") \/ Finish(w, "void")
        PROVE  FeedInv'
    BY <2>1, ChangeLogStep, FinishStep
  <2>2. ASSUME NEW r \in Rows, ChangeRow(r) PROVE FeedInv'
    BY <2>2, ChangeRowStep
  <2>3. ASSUME NEW p \in Pushers,
               StartRun(p) \/ ReadSection(p) \/ PostSnapshot(p) \/ ReadEvents(p)
               \/ PostEvents(p) \/ SaveCursor(p) \/ BreakRun(p)
        PROVE  FeedInv'
    BY <2>3, StartRunStep, ReadSectionStep, PostSnapshotStep, ReadEventsStep, PostEventsStep,
       SaveCursorStep, BreakRunStep
  <2>4. CASE UNCHANGED feedVars
    BY <2>4 DEF feedVars, FeedInv, FeedTypeOK, IdsInOrder, RunsKept, Kept, RunAt, Committed, Open
  <2> QED
    BY <2>1, <2>2, <2>3, <2>4 DEF FeedNext
<1> QED
  BY <1>1, <1>2, PTL DEF FeedSpec

\* Entries, cursors and runs keep their types, for every number of entries and
\* every page limit.
THEOREM FeedTypeCorrect == FeedSpec => []FeedTypeOK
<1>1. FeedInv => FeedTypeOK
  BY DEF FeedInv
<1> QED
  BY <1>1, FeedInvInductive, FeedAssumption, PTL

\* The push script never saves a cursor beyond an entry it has not sent, unless
\* the entry was committed after a later one was sent, although runs overlap,
\* fail at any step and move the cursor back.
THEOREM OnlyOvertakenSkipped == FeedSpec => []NothingSkipped
<1>1. FeedInv => NothingSkipped
  BY DEF FeedInv, NothingSkipped, Kept, Committed
<1> QED
  BY <1>1, FeedInvInductive, FeedAssumption, PTL

--------------------------------------------------------------------------------
(* Snapshots.                                                              *)

\* What has been there since the run began is in the pages read so far, or
\* beyond the cursor.
Gathered(p) ==
    /\ RunAt(p, "section") => /\ run[p].always \subseteq rows
                              /\ \A r \in run[p].always : r <= run[p].at => r \in run[p].items
    /\ RunAt(p, "post_snapshot") => run[p].always \subseteq run[p].items

LEMMA SmallestExists ==
  ASSUME NEW S \in SUBSET Nat, S # {}
  PROVE  \E m \in S : \A n \in S : m <= n
<1> DEFINE R == OpToRel(<, Nat)
<1>1. IsWellFoundedOn(R, Nat) /\ \A e, d \in Nat : e < d => <<e, d>> \in R
  <2>1. ASSUME NEW e \in Nat, NEW d \in Nat, e < d PROVE <<e, d>> \in R
    BY <2>1, Zenon DEF OpToRel
  <2> QED
    BY <2>1, NatLessThanWellFounded, Zenon
<1> HIDE DEF R
<1>2. PICK m \in S : \A n \in S : ~(<<n, m>> \in R)
  <2>1. S \subseteq Nat /\ S # {} /\ IsWellFoundedOn(R, Nat)
    BY <1>1
  <2> QED
    BY <2>1, WFMin
<1>3. \A n \in S : ~(n < m)
  BY <1>1, <1>2
<1> QED
  BY <1>3

\* The page without a successor ends the list: LIMIT + 1 finds any row beyond it.
LEMMA LastPage ==
  ASSUME NEW last \in Nat, NEW S \in SUBSET (1 .. last), NEW after \in Nat, ~HasMore(S, after)
  PROVE  \A i \in S : i > after => i \in Items(S, after)
<1> DEFINE Beyond == {i \in S : i > after}
           F == Fetched(S, after)
           Below(T, i) == {j \in T : j < i}
<1>1. Beyond \in SUBSET Nat /\ IsFiniteSet(Beyond)
  <2>1. IsFiniteSet(1 .. last)
    BY FS_Interval
  <2>2. Beyond \subseteq 1 .. last
    OBVIOUS
  <2> QED
    BY <2>1, <2>2, FS_Subset
<1>2. F \in SUBSET Beyond /\ \A i \in Beyond : Cardinality(Below(Beyond, i)) < PageLimit + 1 => i \in F
  BY DEF Fetched, First
<1>3. IsFiniteSet(F) /\ Cardinality(F) \in Nat
  BY <1>1, <1>2, FS_Subset, FS_CardinalityType
<1>4. Cardinality(F) <= PageLimit /\ PageLimit \in Nat
  BY <1>3, FeedAssumption DEF HasMore
<1> HIDE DEF F
<1>5. Beyond \subseteq F
  <2> SUFFICES ASSUME Beyond \ F # {} PROVE FALSE
    OBVIOUS
  <2> DEFINE Rest == Beyond \ F
  <2>1. Rest \in SUBSET Nat /\ Rest # {}
    BY <1>1
  <2>2. PICK m \in Rest : \A n \in Rest : m <= n
    <3> HIDE DEF Rest
    <3> QED
      BY <2>1, SmallestExists
  <2>3. Below(Beyond, m) \subseteq F
    BY <1>1, <2>2
  <2>4. Cardinality(Below(Beyond, m)) <= Cardinality(F) /\ Cardinality(Below(Beyond, m)) \in Nat
    <3>1. IsFiniteSet(Below(Beyond, m))
      BY <1>3, <2>3, FS_Subset
    <3> QED
      BY <1>3, <2>3, <3>1, FS_Subset, FS_CardinalityType
  <2> QED
    BY <1>2, <1>3, <1>4, <2>2, <2>4
<1>6. ASSUME NEW i \in F PROVE Cardinality(Below(F, i)) < PageLimit
  <2>1. Below(F, i) \subseteq F /\ Below(F, i) # F
    <3>1. i \in Nat /\ ~(i < i)
      BY <1>1, <1>2
    <3> QED
      BY <3>1
  <2>2. IsFiniteSet(Below(F, i)) /\ Cardinality(Below(F, i)) \in Nat
    BY <1>3, <2>1, FS_Subset, FS_CardinalityType
  <2> HIDE DEF Below
  <2>3. Cardinality(Below(F, i)) <= Cardinality(F) /\ Cardinality(Below(F, i)) # Cardinality(F)
    BY <1>3, <2>1, FS_Subset
  <2> QED
    BY <1>3, <1>4, <2>2, <2>3
<1> QED
  BY <1>5, <1>6 DEF Items, First, F

LEMMA GatheredStep ==
  ASSUME FeedInv, \A p \in Pushers : Gathered(p), FeedNext
  PROVE  \A p \in Pushers : Gathered(p)'
<1> SUFFICES ASSUME NEW p \in Pushers PROVE Gathered(p)'
  OBVIOUS
<1>1. FeedTypeOK /\ Gathered(p)
  BY DEF FeedInv
<1>2. ASSUME UNCHANGED rows, run'[p] = run[p] PROVE Gathered(p)'
  BY <1>1, <1>2 DEF Gathered, RunAt
<1>3. ASSUME NEW w \in Writers, ChangeLog(w) \/ Finish(w, "committed") \/ Finish(w, "void")
      PROVE  Gathered(p)'
  BY <1>2, <1>3 DEF ChangeLog, Finish
<1>4. ASSUME NEW r \in Rows, ChangeRow(r) PROVE Gathered(p)'
  <2>1. /\ rows' = IF r \in rows THEN rows \ {r} ELSE rows \cup {r}
        /\ run'[p] = [run[p] EXCEPT !.always = @ \ {r}]
    BY <1>4 DEF ChangeRow
  <2>2. /\ run'[p].step = run[p].step /\ run'[p].at = run[p].at /\ run'[p].items = run[p].items
        /\ run'[p].always = run[p].always \ {r}
    BY <1>1, <2>1 DEF FeedTypeOK
  <2> QED
    BY <1>1, <2>1, <2>2 DEF Gathered, RunAt
<1>5. ASSUME NEW q \in Pushers, UNCHANGED rows, NEW r, run' = [run EXCEPT ![q] = r],
             r.step \notin {"section", "post_snapshot"}
      PROVE  Gathered(p)'
  <2>1. p # q => run'[p] = run[p]
    BY <1>1, <1>5 DEF FeedTypeOK
  <2>2. p = q => run'[p] = r
    BY <1>1, <1>5 DEF FeedTypeOK
  <2> QED
    BY <1>2, <1>5, <2>1, <2>2 DEF Gathered, RunAt
<1>6. ASSUME NEW q \in Pushers, UNCHANGED rows, EndRun(q) PROVE Gathered(p)'
  BY <1>5, <1>6 DEF EndRun, NoRun
<1>7. ASSUME NEW q \in Pushers, StartRun(q) PROVE Gathered(p)'
  <2>1. PICK step \in {"section", "read"} :
          run' = [run EXCEPT ![q] = [NoRun EXCEPT !.step = step, !.cursor = cursorFile,
                                                  !.always = IF step = "section" THEN rows ELSE {}]]
    BY <1>7 DEF StartRun
  <2>2. UNCHANGED rows
    BY <1>7 DEF StartRun
  <2>3. CASE p # q
    BY <1>1, <1>2, <2>1, <2>2, <2>3 DEF FeedTypeOK
  <2>4. CASE p = q
    <3>1. /\ run'[p].step = step /\ run'[p].at = 0 /\ run'[p].items = {}
          /\ step = "section" => run'[p].always = rows
      BY <1>1, <2>1, <2>4 DEF FeedTypeOK, NoRun
    <3>2. \A r \in rows : ~(r <= 0)
      BY <1>1 DEF FeedTypeOK, Rows
    <3> QED
      BY <2>2, <3>1, <3>2 DEF Gathered, RunAt
  <2> QED
    BY <2>3, <2>4
<1>8. ASSUME NEW q \in Pushers, ReadSection(q) PROVE Gathered(p)'
  <2> DEFINE at == run[q].at
             step == IF HasMore(rows, at) THEN "section" ELSE "post_snapshot"
  <2>1. /\ RunAt(q, "section") /\ UNCHANGED rows
        /\ run' = [run EXCEPT ![q].step = step, ![q].at = NextCursor(rows, at),
                              ![q].items = @ \cup Items(rows, at)]
    BY <1>8 DEF ReadSection
  <2>2. CASE p # q
    BY <1>1, <1>2, <2>1, <2>2 DEF FeedTypeOK
  <2>3. CASE p = q
    <3>1. rows \in SUBSET (1 .. LastRow) /\ at \in Nat /\ LastRow \in Nat
      BY <1>1, FeedAssumption DEF FeedTypeOK, Rows
    <3>2. /\ NextCursor(rows, at) \in Nat
          /\ \A i \in rows : at < i /\ i <= NextCursor(rows, at) => i \in Items(rows, at)
      BY <3>1, FeedAssumption, PageComplete
    <3>3. ~HasMore(rows, at) => \A i \in rows : i > at => i \in Items(rows, at)
      BY <3>1, LastPage
    <3>4. /\ run'[p].step = step /\ run'[p].at = NextCursor(rows, at)
          /\ run'[p].items = run[p].items \cup Items(rows, at) /\ run'[p].always = run[p].always
      BY <1>1, <2>1, <2>3 DEF FeedTypeOK
    <3>5. /\ run[p].always \subseteq rows
          /\ \A r \in run[p].always : r \in Nat /\ (r <= at => r \in run[p].items)
      BY <1>1, <2>1, <2>3, <3>1 DEF Gathered
    <3> HIDE DEF at
    <3>6. \A r \in run[p].always : r <= at \/ (at < r /\ r > at)
      BY <3>1, <3>5
    <3> QED
      BY <2>1, <3>2, <3>3, <3>4, <3>5, <3>6 DEF Gathered, RunAt
  <2> QED
    BY <2>2, <2>3
<1>9. ASSUME NEW q \in Pushers, PostSnapshot(q) \/ ReadEvents(q) \/ PostEvents(q) PROVE Gathered(p)'
  <2>1. UNCHANGED rows
    BY <1>9 DEF PostSnapshot, ReadEvents, PostEvents
  <2>2. CASE EndRun(q)
    BY <1>6, <2>1, <2>2
  <2>3. CASE p # q /\ ~EndRun(q)
    BY <1>1, <1>2, <1>9, <2>1, <2>3 DEF FeedTypeOK, PostSnapshot, ReadEvents, PostEvents
  <2>4. CASE p = q /\ ~EndRun(q)
    <3>1. run'[p].step \in {"read", "post", "save"}
      BY <1>1, <1>9, <2>4 DEF FeedTypeOK, PostSnapshot, ReadEvents, PostEvents
    <3> QED
      BY <3>1 DEF Gathered, RunAt
  <2> QED
    BY <2>2, <2>3, <2>4
<1>10. ASSUME NEW q \in Pushers, SaveCursor(q) \/ BreakRun(q) PROVE Gathered(p)'
  BY <1>6, <1>10 DEF SaveCursor, BreakRun
<1> QED
  BY <1>3, <1>4, <1>7, <1>8, <1>9, <1>10 DEF FeedNext

\* A snapshot that is posted has every row that was there all the time it was
\* read, for any page limit: no row is skipped between two pages or behind the
\* last one, however the others come and go.
THEOREM SnapshotsAreWhole == FeedSpec => []SnapshotWhole
<1> DEFINE Collected == \A p \in Pushers : Gathered(p)
<1>1. FeedInit => Collected
  BY DEF FeedInit, Gathered, RunAt, NoRun
<1>2. FeedInv /\ Collected /\ [FeedNext]_feedVars => Collected'
  <2> SUFFICES ASSUME FeedInv, Collected, [FeedNext]_feedVars PROVE Collected'
    OBVIOUS
  <2>1. CASE UNCHANGED feedVars
    BY <2>1 DEF feedVars, Gathered, RunAt
  <2> QED
    BY <2>1, GatheredStep
<1>3. Collected => SnapshotWhole
  BY DEF Gathered, SnapshotWhole
<1> QED
  BY <1>1, <1>2, <1>3, FeedInvInductive, FeedAssumption, PTL DEF FeedSpec

--------------------------------------------------------------------------------
(***************************************************************************)
(* What overlapping saves of SPAM batches keep true, for any numbers of    *)
(* requests, tokens and purchased numbers, whatever their replies say.     *)
(***************************************************************************)

Results == [token: Tokens, before: 0 .. 5, after: 0 .. 5]

Partial(S, T) == UNION {[D -> T] : D \in SUBSET S}

SaveForms ==
    [step: SaveSteps \ {"idle"}, token: Tokens, reply: Partial(Numbers, Replies),
     map: Partial(Purchased, SUBSET SpamRoutes), seen: Partial(Purchased, Flags),
     valid: SUBSET Purchased, done: Partial(Purchased, Results)]

AllForms == SaveForms \cup {NoSpamForm}

SpamTypeInv ==
    /\ score \in [Purchased -> 0 .. 5]
    /\ raised \in [Purchased -> Flags]
    /\ members \subseteq SpamRoutes \X Purchased
    /\ batches \in [Tokens -> 0 .. 1]
    /\ log \in [Purchased -> Seq(Results)]
    /\ form \in [SpamWorkers -> AllForms]

\* The rows a save has locked until it ends.
LocksHeld(f) ==
    IF f.step \in {"validate", "insert", "score"} THEN DOMAIN f.reply \cap Purchased ELSE {}

\* What a save in progress knows of the tables: the flags it read are those of
\* the rows it has locked, what it has computed starts from their scores, and
\* the token it has inserted is not saved by another.
Current(f) ==
    f.step # "idle" =>
        /\ f.step \in {"insert", "score"} => f.valid \subseteq DOMAIN f.reply
        /\ \A n \in LocksHeld(f) : f.seen[n] = raised[n]
        /\ f.step = "score" => batches[f.token] = 0
        /\ \A n \in DOMAIN f.done :
             /\ f.step = "score" /\ n \in f.valid
             /\ f.done[n].token = f.token /\ f.done[n].before = score[n]

\* Two saves lock different rows, and their tokens differ once they are inserted.
Apart(f, g) ==
    /\ LocksHeld(f) \cap LocksHeld(g) = {}
    /\ f.step = "score" /\ g.step = "score" => f.token # g.token

FormsInv ==
    /\ \A w \in SpamWorkers : Current(form[w])
    /\ \A v, w \in SpamWorkers : v # w => Apart(form[v], form[w])

\* Every result is one of a saved batch.
LogKnown == \A n \in Purchased : \A i \in DOMAIN log[n] : batches[log[n][i].token] = 1

SpamInv == SpamTypeInv /\ FormsInv /\ LogKnown /\ ScoreChain /\ TokenScoresOnce

--------------------------------------------------------------------------------
LEMMA PairBounds ==
  ASSUME NEW a \in Int, NEW b \in Int
  PROVE  /\ Max({a, b}) \in {a, b} /\ Max({a, b}) >= a
         /\ Min({a, b}) \in {a, b} /\ Min({a, b}) <= a
<1>1. \E x \in {a, b} : \A y \in {a, b} : x >= y
  <2>1. CASE a >= b
    BY <2>1
  <2>2. CASE b >= a
    BY <2>2
  <2> QED
    BY <2>1, <2>2
<1>2. \E x \in {a, b} : \A y \in {a, b} : x =< y
  <2>1. CASE a =< b
    BY <2>1
  <2>2. CASE b =< a
    BY <2>2
  <2> QED
    BY <2>1, <2>2
<1>3. Max({a, b}) \in {a, b} /\ \A y \in {a, b} : Max({a, b}) >= y
  BY <1>1 DEF Max
<1>4. Min({a, b}) \in {a, b} /\ \A y \in {a, b} : Min({a, b}) =< y
  BY <1>2 DEF Min
<1> QED
  BY <1>3, <1>4

\* Whatever a reply says, a score stays between 0 and 5.
LEMMA ScoredBounded ==
  ASSUME NEW before \in 0 .. 5, NEW marks
  PROVE  Scored(before, marks) \in 0 .. 5
<1>1. Max({0, before - 1}) \in 0 .. 5
  <2>1. Max({0, before - 1}) \in {0, before - 1} /\ Max({0, before - 1}) >= 0
    BY PairBounds
  <2> QED
    BY <2>1
<1>2. Min({5, before + 2}) \in 0 .. 5 /\ Min({5, before + 1}) \in 0 .. 5
  <2> 5 \in Int
    OBVIOUS
  <2>1. \A b \in Int : Min({5, b}) \in {5, b} /\ Min({5, b}) <= 5
    BY PairBounds, Zenon
  <2>2. before + 2 \in Int /\ before + 1 \in Int
    OBVIOUS
  <2>3. Min({5, before + 2}) \in {5, before + 2} /\ Min({5, before + 2}) <= 5
    BY ONLY <2>1, <2>2, Zenon
  <2>4. Min({5, before + 1}) \in {5, before + 1} /\ Min({5, before + 1}) <= 5
    BY ONLY <2>1, <2>2, Zenon
  <2> QED
    BY <2>3, <2>4
<1> QED
  BY <1>1, <1>2 DEF Scored

\* A function that is defined on a part of a set.
LEMMA PartialIs ==
  ASSUME NEW S, NEW T, NEW f \in Partial(S, T)
  PROVE  DOMAIN f \subseteq S /\ f \in [DOMAIN f -> T]
BY DEF Partial

LEMMA IsPartial ==
  ASSUME NEW S, NEW T, NEW D \in SUBSET S, NEW f \in [D -> T]
  PROVE  f \in Partial(S, T)
BY DEF Partial

\* The step of a request that changes its form and no table.
LEMMA FormStep ==
  ASSUME SpamInv, NEW w \in SpamWorkers, NEW f \in AllForms,
         form' = [form EXCEPT ![w] = f],
         UNCHANGED <<score, raised, members, batches, log>>,
         Current(f),
         \A v \in SpamWorkers \ {w} : Apart(form[v], f)
  PROVE  SpamInv'
<1>1. SpamTypeInv'
  BY DEF SpamInv, SpamTypeInv
<1>2. form'[w] = f /\ \A v \in SpamWorkers \ {w} : form'[v] = form[v]
  BY DEF SpamInv, SpamTypeInv
<1>3. \A g : Current(g)' <=> Current(g)
  BY DEF Current, LocksHeld
<1>4. FormsInv'
  <2>1. \A v \in SpamWorkers : Current(form'[v])
    BY <1>2 DEF SpamInv, FormsInv
  <2>2. ASSUME NEW u \in SpamWorkers, NEW v \in SpamWorkers, u # v
        PROVE  Apart(form'[u], form'[v])
    <3>1. CASE u # w /\ v # w
      BY <1>2, <2>2, <3>1 DEF SpamInv, FormsInv
    <3>2. CASE v = w
      BY <1>2, <2>2, <3>2
    <3>3. CASE u = w
      BY <1>2, <2>2, <3>3 DEF Apart
    <3> QED
      BY <3>1, <3>2, <3>3
  <2>3. \A v \in SpamWorkers : Current(form[v])'
    BY <2>1 DEF Current, LocksHeld
  <2> QED
    BY <2>2, <2>3 DEF FormsInv, Apart, LocksHeld
<1>5. LogKnown' /\ ScoreChain' /\ TokenScoresOnce'
  BY DEF SpamInv, LogKnown, ScoreChain, TokenScoresOnce
<1> QED
  BY <1>1, <1>4, <1>5 DEF SpamInv

LEMMA IdleForm ==
  ASSUME NEW g
  PROVE  Current(NoSpamForm) /\ Apart(g, NoSpamForm) /\ NoSpamForm \in AllForms
BY DEF Current, Apart, NoSpamForm, LocksHeld, AllForms

LEMMA AbandonStep ==
  ASSUME SpamInv, NEW w \in SpamWorkers, Abandon(w),
         UNCHANGED <<score, raised, members, batches, log>>
  PROVE  SpamInv'
BY IdleForm, FormStep DEF Abandon

\* A save that goes on without computing or writing anything.
LEMMA ProceedStep ==
  ASSUME SpamInv, NEW w \in SpamWorkers, NEW step \in SaveSteps \ {"idle"}, Proceed(w, step),
         UNCHANGED <<score, raised, members, batches, log>>,
         form[w].step # "idle",
         Current([form[w] EXCEPT !.step = step]),
         \A v \in SpamWorkers \ {w} : Apart(form[v], [form[w] EXCEPT !.step = step])
  PROVE  SpamInv'
<1> DEFINE f == [form[w] EXCEPT !.step = step]
<1>1. form[w] \in SaveForms
  BY DEF SpamInv, SpamTypeInv, AllForms, NoSpamForm
<1>2. f \in AllForms
  BY <1>1 DEF AllForms, SaveForms
<1>3. form' = [form EXCEPT ![w] = f]
  BY DEF Proceed
<1> HIDE DEF f
<1> QED
  BY <1>2, <1>3, FormStep DEF f

LEMMA SubmitKeeps ==
  ASSUME SpamAssumption, SpamInv, NEW w \in SpamWorkers, Submit(w)
  PROVE  SpamInv'
<1>1. PICK t \in Tokens, asked \in SUBSET Numbers :
      \E reply \in [asked -> Replies], map \in [asked \cap Purchased -> SUBSET SpamRoutes] :
        form' = [form EXCEPT ![w] = [step |-> "token", token |-> t, reply |-> reply, map |-> map,
                                     seen |-> Nothing, valid |-> {}, done |-> Nothing]]
  BY Zenon DEF Submit
<1>2. PICK reply \in [asked -> Replies], map \in [asked \cap Purchased -> SUBSET SpamRoutes] :
        form' = [form EXCEPT ![w] = [step |-> "token", token |-> t, reply |-> reply, map |-> map,
                                     seen |-> Nothing, valid |-> {}, done |-> Nothing]]
  BY <1>1
<1> DEFINE f == [step |-> "token", token |-> t, reply |-> reply, map |-> map,
                 seen |-> Nothing, valid |-> {}, done |-> Nothing]
<1>3. reply \in Partial(Numbers, Replies) /\ map \in Partial(Purchased, SUBSET SpamRoutes)
  BY IsPartial
<1>4. Nothing \in Partial(Purchased, Flags) /\ Nothing \in Partial(Purchased, Results)
  <2>1. \A T : Nothing \in [{} -> T]
    BY DEF Nothing
  <2> QED
    BY <2>1, IsPartial
<1>5. f \in AllForms
  BY <1>3, <1>4 DEF AllForms, SaveForms, SaveSteps
<1>6. Current(f) /\ \A g : Apart(g, f)
  <2>1. DOMAIN Nothing = {}
    BY DEF Nothing
  <2> QED
    BY <2>1 DEF Current, Apart, LocksHeld
<1>7. UNCHANGED <<score, raised, members, batches, log>>
  BY DEF Submit
<1> HIDE DEF f
<1> QED
  BY <1>2, <1>5, <1>6, <1>7, FormStep DEF f

LEMMA LockPhonesKeeps ==
  ASSUME SpamAssumption, SpamInv, NEW w \in SpamWorkers, LockPhones(w)
  PROVE  SpamInv'
<1> DEFINE wanted == DOMAIN form[w].reply \cap Purchased
           seen == [n \in wanted |-> raised[n]]
           f == [form[w] EXCEPT !.step = "validate", !.seen = seen]
<1>1. form[w] \in SaveForms /\ form[w].step = "lock" /\ Current(form[w])
  BY DEF SpamInv, SpamTypeInv, FormsInv, AllForms, NoSpamForm, LockPhones, FormAt
<1>2. form' = [form EXCEPT ![w] = f]
  BY DEF LockPhones
<1>3. seen \in Partial(Purchased, Flags)
  <2>1. seen \in [wanted -> Flags] /\ wanted \in SUBSET Purchased
    BY DEF SpamInv, SpamTypeInv
  <2> QED
    BY <2>1, IsPartial
<1>4. /\ f \in SaveForms /\ f.step = "validate" /\ f.seen = seen
      /\ f.reply = form[w].reply /\ f.done = form[w].done
  <2> HIDE DEF seen
  <2> QED
    BY <1>1, <1>3 DEF SaveForms, SaveSteps
<1>5. LocksHeld(f) = wanted
  BY <1>4 DEF LocksHeld
<1>6. Current(f)
  BY <1>1, <1>4, <1>5 DEF Current
<1>7. ASSUME NEW v \in SpamWorkers \ {w} PROVE Apart(form[v], f)
  <2>1. \A n \in wanted : ~Holds(v, n)
    BY DEF LockPhones
  <2> QED
    BY <2>1, <1>4, <1>5 DEF Apart, LocksHeld, Holds
<1>8. UNCHANGED <<score, raised, members, batches, log>>
  BY DEF LockPhones
<1> HIDE DEF f
<1> QED
  BY <1>2, <1>4, <1>6, <1>7, <1>8, FormStep DEF AllForms

LEMMA ValidateKeeps ==
  ASSUME SpamAssumption, SpamInv, NEW w \in SpamWorkers, Validate(w)
  PROVE  SpamInv'
<1> DEFINE valid == {n \in Ready(form[w]) : form[w].map[n] \X {n} \subseteq members}
           f == [form[w] EXCEPT !.step = "insert", !.valid = valid]
<1>1. form[w] \in SaveForms /\ form[w].step = "validate" /\ Current(form[w])
  BY DEF SpamInv, SpamTypeInv, FormsInv, AllForms, NoSpamForm, Validate, FormAt
<1>2. UNCHANGED <<score, raised, members, batches, log>>
  BY DEF Validate
<1>3. CASE Abandon(w)
  BY <1>2, <1>3, AbandonStep
<1>4. CASE form' = [form EXCEPT ![w].step = "insert", ![w].valid = valid]
  <2>1. valid \subseteq DOMAIN form[w].reply \cap Purchased
    BY DEF Ready
  <2>2. form' = [form EXCEPT ![w] = f]
    BY <1>4
  <2> HIDE DEF valid
  <2>3. /\ f \in SaveForms /\ f.step = "insert" /\ f.valid = valid /\ f.seen = form[w].seen
        /\ f.reply = form[w].reply /\ f.done = form[w].done
    BY <1>1, <2>1 DEF SaveForms, SaveSteps
  <2> HIDE DEF f
  <2>4. LocksHeld(f) = LocksHeld(form[w])
    BY <1>1, <2>3 DEF LocksHeld
  <2>5. Current(f)
    BY <1>1, <2>1, <2>3, <2>4 DEF Current
  <2>6. \A v \in SpamWorkers \ {w} : Apart(form[v], f)
    BY <1>1, <2>3, <2>4 DEF SpamInv, FormsInv, Apart
  <2> QED
    BY <1>2, <2>2, <2>3, <2>5, <2>6, FormStep DEF AllForms
<1> QED
  BY <1>3, <1>4 DEF Validate

LEMMA InsertBatchKeeps ==
  ASSUME SpamAssumption, SpamInv, NEW w \in SpamWorkers, InsertBatch(w)
  PROVE  SpamInv'
<1> DEFINE f == [form[w] EXCEPT !.step = "score"]
<1>1. form[w] \in SaveForms /\ form[w].step = "insert" /\ Current(form[w])
  BY DEF SpamInv, SpamTypeInv, FormsInv, AllForms, NoSpamForm, InsertBatch, FormAt
<1>2. UNCHANGED <<score, raised, members, batches, log>>
  BY DEF InsertBatch
<1>3. CASE Abandon(w)
  BY <1>2, <1>3, AbandonStep
<1>4. CASE batches[form[w].token] <= 0 /\ Proceed(w, "score")
  <2>1. /\ f.step = "score" /\ f.token = form[w].token /\ f.valid = form[w].valid
        /\ f.seen = form[w].seen /\ f.reply = form[w].reply /\ f.done = form[w].done
    BY <1>1 DEF SaveForms
  <2>2. batches[f.token] = 0
    BY <1>1, <1>4, <2>1 DEF SpamInv, SpamTypeInv, SaveForms
  <2> HIDE DEF f
  <2>3. LocksHeld(f) = LocksHeld(form[w])
    BY <1>1, <2>1 DEF LocksHeld
  <2>4. Current(f)
    BY <1>1, <2>1, <2>2, <2>3 DEF Current
  <2>5. \A v \in SpamWorkers \ {w} : Apart(form[v], f)
    BY <1>1, <2>1, <2>3 DEF SpamInv, FormsInv, Apart, InsertBatch, FormAt
  <2> QED
    BY <1>1, <1>2, <1>4, <2>4, <2>5, ProceedStep DEF f, SaveSteps
<1>5. batches[form[w].token] \in 0 .. 1
  BY <1>1 DEF SpamInv, SpamTypeInv, SaveForms
<1> QED
  BY <1>3, <1>4, <1>5 DEF InsertBatch

LEMMA ScoreNumberKeeps ==
  ASSUME SpamAssumption, SpamInv, NEW w \in SpamWorkers, ScoreNumber(w)
  PROVE  SpamInv'
<1>1. form[w] \in SaveForms /\ form[w].step = "score" /\ Current(form[w])
  BY DEF SpamInv, SpamTypeInv, FormsInv, AllForms, NoSpamForm, ScoreNumber, FormAt
<1>2. PICK n \in form[w].valid \ DOMAIN form[w].done :
        form' = [form EXCEPT ![w].done =
                  [m \in DOMAIN form[w].done \cup {n} |->
                     IF m = n THEN [token |-> form[w].token, before |-> score[n],
                                    after |-> Scored(score[n], form[w].reply[n])]
                     ELSE form[w].done[m]]]
  BY DEF ScoreNumber
<1> DEFINE result == [token |-> form[w].token, before |-> score[n],
                      after |-> Scored(score[n], form[w].reply[n])]
           done == [m \in DOMAIN form[w].done \cup {n} |->
                      IF m = n THEN result ELSE form[w].done[m]]
           f == [form[w] EXCEPT !.done = done]
<1>3. n \in Purchased /\ score[n] \in 0 .. 5
  BY <1>1 DEF SaveForms, SpamInv, SpamTypeInv
<1>4. result \in Results /\ result.token = form[w].token /\ result.before = score[n]
  BY <1>1, <1>3, ScoredBounded DEF Results, SaveForms
<1>5. form' = [form EXCEPT ![w] = f]
  BY <1>2
<1> HIDE DEF result
<1>6. DOMAIN form[w].done \subseteq Purchased /\ form[w].done \in [DOMAIN form[w].done -> Results]
  BY <1>1, PartialIs DEF SaveForms
<1>7. done \in Partial(Purchased, Results)
  <2>1. done \in [DOMAIN form[w].done \cup {n} -> Results]
    BY <1>4, <1>6
  <2>2. DOMAIN form[w].done \cup {n} \in SUBSET Purchased
    BY <1>3, <1>6
  <2> QED
    BY <2>1, <2>2, IsPartial
<1>8. /\ DOMAIN done = DOMAIN form[w].done \cup {n}
      /\ done[n] = result
      /\ \A m \in DOMAIN form[w].done : m # n /\ done[m] = form[w].done[m]
  OBVIOUS
<1> HIDE DEF done
<1>9. /\ f \in SaveForms /\ f.step = "score" /\ f.token = form[w].token
      /\ f.valid = form[w].valid /\ f.seen = form[w].seen /\ f.reply = form[w].reply
      /\ f.done = done
  BY <1>1, <1>7 DEF SaveForms
<1> HIDE DEF f
<1>10. LocksHeld(f) = LocksHeld(form[w])
  BY <1>1, <1>9 DEF LocksHeld
<1>11. Current(f)
  BY <1>1, <1>4, <1>8, <1>9, <1>10 DEF Current
<1>12. \A v \in SpamWorkers \ {w} : Apart(form[v], f)
  BY <1>1, <1>9, <1>10 DEF SpamInv, FormsInv, Apart
<1>13. UNCHANGED <<score, raised, members, batches, log>>
  BY DEF ScoreNumber
<1> QED
  BY <1>5, <1>9, <1>11, <1>12, <1>13, FormStep DEF AllForms

\* The one step that writes the tables.
LEMMA CommitFacts ==
  ASSUME SpamAssumption, SpamInv, NEW w \in SpamWorkers, SaveCommit(w)
  PROVE  /\ form[w] \in SaveForms /\ form[w].step = "score" /\ Current(form[w])
         /\ form[w].valid \subseteq LocksHeld(form[w]) /\ DOMAIN form[w].done = form[w].valid
         /\ \A n \in form[w].valid :
              /\ form[w].done[n] \in Results
              /\ form[w].done[n].token = form[w].token
              /\ form[w].done[n].before = score[n]
         /\ batches[form[w].token] = 0
         /\ batches' = [batches EXCEPT ![form[w].token] = 1]
         /\ \A n \in Purchased \ form[w].valid :
              score'[n] = score[n] /\ log'[n] = log[n] /\ raised'[n] = raised[n]
         /\ \A n \in form[w].valid :
              /\ score'[n] = form[w].done[n].after
              /\ log'[n] = Append(log[n], form[w].done[n])
              /\ raised'[n] = IF Reached(form[w].done[n]) THEN Raised ELSE raised[n]
<1>1. form[w] \in SaveForms /\ form[w].step = "score" /\ Current(form[w])
  BY DEF SpamInv, SpamTypeInv, FormsInv, AllForms, NoSpamForm, SaveCommit, FormAt
<1>2. DOMAIN form[w].done = form[w].valid
  BY DEF SaveCommit
<1>3. form[w].valid \subseteq LocksHeld(form[w])
  BY <1>1 DEF Current, LocksHeld, SaveForms
<1>4. ASSUME NEW n \in form[w].valid
      PROVE  /\ form[w].done[n] \in Results
             /\ form[w].done[n].token = form[w].token
             /\ form[w].done[n].before = score[n]
  <2>1. form[w].done \in [form[w].valid -> Results]
    BY <1>1, <1>2, PartialIs DEF SaveForms
  <2> QED
    BY <1>1, <1>2, <2>1 DEF Current
<1>5. batches[form[w].token] = 0 /\ form[w].token \in Tokens
  BY <1>1 DEF Current, SaveForms
<1>6. batches' = [batches EXCEPT ![form[w].token] = 1]
  <2>1. batches' = [batches EXCEPT ![form[w].token] = batches[form[w].token] + 1]
    BY DEF SaveCommit
  <2> QED
    BY <1>5, <2>1
<1>7. form[w].valid \subseteq Purchased
  BY <1>1 DEF SaveForms
<1>8. /\ score' = [n \in Purchased |-> IF n \in form[w].valid THEN form[w].done[n].after ELSE score[n]]
      /\ log' = [n \in Purchased |-> IF n \in form[w].valid THEN Append(log[n], form[w].done[n])
                                     ELSE log[n]]
      /\ raised' = [n \in Purchased |-> IF n \in form[w].valid /\ Reached(form[w].done[n])
                                        THEN FlagsAfter(form[w], n) ELSE raised[n]]
  BY DEF SaveCommit
<1>9. \A n \in form[w].valid : raised'[n] = IF Reached(form[w].done[n]) THEN Raised ELSE raised[n]
  BY <1>7, <1>8 DEF FlagsAfter
<1> QED
  BY <1>1, <1>2, <1>3, <1>4, <1>5, <1>6, <1>7, <1>8, <1>9

LEMMA CommitForms ==
  ASSUME SpamAssumption, SpamInv, NEW w \in SpamWorkers, SaveCommit(w)
  PROVE  FormsInv'
<1>1. form'[w] = NoSpamForm /\ \A v \in SpamWorkers \ {w} : form'[v] = form[v]
  BY DEF SpamInv, SpamTypeInv, SaveCommit, Abandon
<1>2. ASSUME NEW v \in SpamWorkers \ {w} PROVE Current(form[v])'
  <2>1. form[v] \in AllForms /\ Current(form[v]) /\ Apart(form[v], form[w])
    BY DEF SpamInv, SpamTypeInv, FormsInv
  <2> SUFFICES ASSUME form[v].step # "idle" PROVE Current(form[v])'
    BY <1>1 DEF Current
  <2>2. form[v] \in SaveForms
    BY <2>1 DEF AllForms, NoSpamForm
  <2>3. LocksHeld(form[v]) \cap form[w].valid = {} /\ LocksHeld(form[v]) \subseteq Purchased
    BY <2>1, CommitFacts DEF Apart, LocksHeld
  <2>4. \A n \in LocksHeld(form[v]) : raised'[n] = raised[n] /\ score'[n] = score[n]
    BY <2>3, CommitFacts
  <2>5. form[v].step = "score" => batches'[form[v].token] = 0
    <3>1. form[v].step = "score" => form[v].token # form[w].token
      BY <2>1, CommitFacts DEF Apart
    <3>2. form[v].token \in Tokens /\ batches' = [batches EXCEPT ![form[w].token] = 1]
      BY <2>2, CommitFacts DEF SaveForms
    <3> QED
      BY <2>1, <3>1, <3>2 DEF Current, SpamInv, SpamTypeInv
  <2>6. form[v].step = "score" => DOMAIN form[v].done \subseteq LocksHeld(form[v])
    BY <2>1, <2>2 DEF Current, LocksHeld, SaveForms
  <2>7. form'[v] = form[v]
    BY <1>1
  <2> QED
    BY <2>1, <2>4, <2>5, <2>6, <2>7 DEF Current, LocksHeld
<1>3. Current(form[w])' /\ \A g : Apart(NoSpamForm, g) /\ Apart(g, NoSpamForm)
  BY <1>1 DEF Current, Apart, LocksHeld, NoSpamForm
<1>4. \A u, v \in SpamWorkers : u # v => Apart(form'[u], form'[v])
  BY <1>1, <1>3 DEF SpamInv, FormsInv
<1> QED
  BY <1>2, <1>3, <1>4 DEF FormsInv, Apart, LocksHeld

LEMMA CommitLog ==
  ASSUME SpamAssumption, SpamInv, NEW w \in SpamWorkers, SaveCommit(w)
  PROVE  SpamTypeInv' /\ LogKnown' /\ ScoreChain' /\ TokenScoresOnce'
<1> DEFINE t == form[w].token
           valid == form[w].valid
<1>1. /\ valid \subseteq Purchased /\ t \in Tokens /\ batches[t] = 0
      /\ batches' = [batches EXCEPT ![t] = 1]
  BY CommitFacts DEF SaveForms
<1>2. log \in [Purchased -> Seq(Results)] /\ score \in [Purchased -> 0 .. 5]
  BY DEF SpamInv, SpamTypeInv
<1>3. ASSUME NEW n \in valid
      PROVE  /\ log'[n] \in Seq(Results) /\ score'[n] \in 0 .. 5
             /\ Len(log'[n]) = Len(log[n]) + 1
             /\ \A i \in 1 .. Len(log[n]) : log'[n][i] = log[n][i]
             /\ log'[n][Len(log[n]) + 1].token = t
             /\ log'[n][Len(log[n]) + 1].before = score[n]
             /\ log'[n][Len(log[n]) + 1].after = score'[n]
  <2>1. log[n] \in Seq(Results)
    BY <1>1, <1>2
  <2>2. PICK r \in Results : /\ log'[n] = Append(log[n], r) /\ r.token = t
                             /\ r.before = score[n] /\ r.after = score'[n]
    BY CommitFacts
  <2>3. r.after \in 0 .. 5
    BY DEF Results
  <2> QED
    BY <2>1, <2>2, <2>3
<1>4. \A n \in Purchased \ valid : score'[n] = score[n] /\ log'[n] = log[n]
  BY CommitFacts
<1>5. SpamTypeInv'
  <2>1. \A n \in Purchased : raised'[n] \in Flags
    <3>1. \A n \in Purchased : raised'[n] = raised[n] \/ raised'[n] = Raised
      BY CommitFacts
    <3>2. Raised \in Flags /\ \A n \in Purchased : raised[n] \in Flags
      BY DEF Raised, Flags, SpamInv, SpamTypeInv
    <3> QED
      BY <3>1, <3>2
  <2>2. \A n \in Purchased : score'[n] \in 0 .. 5 /\ log'[n] \in Seq(Results)
    BY <1>2, <1>3, <1>4
  <2>3. /\ score' = [n \in Purchased |-> score'[n]] /\ log' = [n \in Purchased |-> log'[n]]
        /\ raised' = [n \in Purchased |-> raised'[n]]
    BY DEF SaveCommit
  <2>4. score' \in [Purchased -> 0 .. 5] /\ raised' \in [Purchased -> Flags]
        /\ log' \in [Purchased -> Seq(Results)]
    BY <2>1, <2>2, <2>3
  <2>5. form' \in [SpamWorkers -> AllForms]
    BY IdleForm DEF SaveCommit, Abandon, SpamInv, SpamTypeInv
  <2>6. batches' \in [Tokens -> 0 .. 1] /\ members' = members
    BY <1>1 DEF SaveCommit, SpamInv, SpamTypeInv
  <2> QED
    BY <2>4, <2>5, <2>6 DEF SpamInv, SpamTypeInv
<1>6. \A n \in Purchased : \A i \in 1 .. Len(log[n]) :
         log[n][i].token \in Tokens /\ log[n][i].token # t /\ batches'[log[n][i].token] = 1
  <2> SUFFICES ASSUME NEW n \in Purchased, NEW i \in 1 .. Len(log[n])
               PROVE  log[n][i].token \in Tokens /\ log[n][i].token # t
                      /\ batches'[log[n][i].token] = 1
    OBVIOUS
  <2>1. log[n] \in Seq(Results) /\ i \in DOMAIN log[n]
    BY <1>2
  <2>2. log[n][i].token \in Tokens
    <3>1. log[n][i] \in Results
      BY <2>1
    <3> QED
      BY <3>1 DEF Results
  <2>3. batches[log[n][i].token] = 1
    BY <2>1 DEF SpamInv, LogKnown
  <2> QED
    BY <1>1, <2>2, <2>3 DEF SpamInv, SpamTypeInv
<1>7. LogKnown'
  <2> SUFFICES ASSUME NEW n \in Purchased, NEW i \in DOMAIN log'[n]
               PROVE  batches'[log'[n][i].token] = 1
    BY DEF LogKnown
  <2>1. CASE n \notin valid
    <3>1. log'[n] = log[n] /\ log[n] \in Seq(Results)
      BY <1>2, <1>4, <2>1
    <3> QED
      BY <1>6, <3>1
  <2>2. CASE n \in valid
    <3>1. log[n] \in Seq(Results) /\ i \in 1 .. Len(log[n]) + 1
      BY <1>2, <1>3, <2>2
    <3>2. batches'[t] = 1
      BY <1>1 DEF SpamInv, SpamTypeInv
    <3> QED
      BY <1>3, <1>6, <2>2, <3>1, <3>2
  <2> QED
    BY <2>1, <2>2
<1>8. ScoreChain'
  <2> SUFFICES ASSUME NEW n \in Purchased
               PROVE  /\ \A i \in 1 .. Len(log'[n]) - 1 : log'[n][i].after = log'[n][i + 1].before
                      /\ log'[n] # <<>> => log'[n][Len(log'[n])].after = score'[n]
    BY DEF ScoreChain
  <2>1. /\ \A i \in 1 .. Len(log[n]) - 1 : log[n][i].after = log[n][i + 1].before
        /\ log[n] # <<>> => log[n][Len(log[n])].after = score[n]
    BY DEF SpamInv, ScoreChain
  <2>2. CASE n \notin valid
    BY <1>4, <2>1, <2>2
  <2>3. CASE n \in valid
    <3>1. log[n] \in Seq(Results) /\ Len(log[n]) \in Nat
      BY <1>2
    <3>2. ASSUME NEW i \in 1 .. Len(log'[n]) - 1
          PROVE  log'[n][i].after = log'[n][i + 1].before
      <4>1. i \in 1 .. Len(log[n])
        BY <1>3, <2>3, <3>1
      <4>2. CASE i < Len(log[n])
        <5>1. i + 1 \in 1 .. Len(log[n]) /\ i \in 1 .. Len(log[n]) - 1
          BY <3>1, <4>1, <4>2
        <5>2. log'[n][i] = log[n][i] /\ log'[n][i + 1] = log[n][i + 1]
          BY <1>3, <2>3, <3>1, <4>1, <5>1
        <5> QED
          BY <2>1, <5>1, <5>2
      <4>3. CASE i = Len(log[n])
        <5>1. log[n] # <<>>
          BY <3>1, <4>1
        <5> QED
          BY <1>3, <2>1, <2>3, <4>1, <4>3, <5>1
      <4> QED
        BY <3>1, <4>1, <4>2, <4>3
    <3> QED
      BY <1>3, <2>3, <3>1, <3>2
  <2> QED
    BY <2>2, <2>3
<1>9. TokenScoresOnce'
  <2>1. \A s \in Tokens : batches'[s] <= 1
    BY <1>5 DEF SpamTypeInv
  <2>2. ASSUME NEW n \in Purchased, NEW i \in DOMAIN log'[n], NEW j \in DOMAIN log'[n],
               log'[n][i].token = log'[n][j].token
        PROVE  i = j
    <3>1. \A k, l \in DOMAIN log[n] : log[n][k].token = log[n][l].token => k = l
      BY DEF SpamInv, TokenScoresOnce
    <3>2. CASE n \notin valid
      BY <1>4, <2>2, <3>1, <3>2
    <3>3. CASE n \in valid
      <4>1. /\ log[n] \in Seq(Results) /\ DOMAIN log[n] = 1 .. Len(log[n]) /\ Len(log[n]) \in Nat
            /\ i \in 1 .. Len(log[n]) + 1 /\ j \in 1 .. Len(log[n]) + 1
        BY <1>2, <1>3, <3>3
      <4>2. CASE i \in 1 .. Len(log[n]) /\ j \in 1 .. Len(log[n])
        BY <1>3, <2>2, <3>1, <3>3, <4>1, <4>2
      <4>3. CASE i = Len(log[n]) + 1 /\ j \in 1 .. Len(log[n])
        BY <1>3, <1>6, <2>2, <3>3, <4>3
      <4>4. CASE j = Len(log[n]) + 1 /\ i \in 1 .. Len(log[n])
        BY <1>3, <1>6, <2>2, <3>3, <4>4
      <4> QED
        BY <4>1, <4>2, <4>3, <4>4
    <3> QED
      BY <3>2, <3>3
  <2> QED
    BY <2>1, <2>2 DEF TokenScoresOnce
<1> QED
  BY <1>5, <1>7, <1>8, <1>9

LEMMA EditFlagsKeeps ==
  ASSUME SpamAssumption, SpamInv, NEW n \in Purchased, EditFlags(n)
  PROVE  SpamInv'
<1>1. PICK flags \in Flags : raised' = [raised EXCEPT ![n] = flags]
  BY DEF EditFlags
<1>2. UNCHANGED <<score, members, batches, log, form>>
  BY DEF EditFlags
<1>3. SpamTypeInv'
  BY <1>1, <1>2 DEF SpamInv, SpamTypeInv
<1>4. ASSUME NEW w \in SpamWorkers PROVE Current(form[w])'
  <2>1. n \notin LocksHeld(form[w]) /\ LocksHeld(form[w]) \subseteq Purchased
    BY DEF EditFlags, Holds, LocksHeld
  <2>2. \A m \in LocksHeld(form[w]) : raised'[m] = raised[m]
    BY <1>1, <2>1 DEF SpamInv, SpamTypeInv
  <2> QED
    BY <1>2, <2>2 DEF SpamInv, FormsInv, Current, LocksHeld
<1>5. FormsInv'
  BY <1>2, <1>4 DEF SpamInv, FormsInv, Apart, LocksHeld
<1>6. LogKnown' /\ ScoreChain' /\ TokenScoresOnce'
  BY <1>2 DEF SpamInv, LogKnown, ScoreChain, TokenScoresOnce
<1> QED
  BY <1>3, <1>5, <1>6 DEF SpamInv

LEMMA ChangeMemberKeeps ==
  ASSUME SpamInv, ChangeMember
  PROVE  SpamInv'
<1>1. UNCHANGED <<score, raised, batches, log, form>> /\ members' \subseteq SpamRoutes \X Purchased
  BY DEF ChangeMember, SpamInv, SpamTypeInv
<1> QED
  BY <1>1 DEF SpamInv, SpamTypeInv, FormsInv, Current, Apart, LocksHeld, LogKnown, ScoreChain,
              TokenScoresOnce

LEMMA ReadTokenKeeps ==
  ASSUME SpamInv, NEW w \in SpamWorkers, ReadToken(w)
  PROVE  SpamInv'
<1>1. form[w] \in SaveForms /\ form[w].step = "token" /\ Current(form[w])
  BY DEF SpamInv, SpamTypeInv, FormsInv, AllForms, NoSpamForm, ReadToken, FormAt
<1>2. UNCHANGED <<score, raised, members, batches, log>>
  BY DEF ReadToken
<1>3. CASE Proceed(w, "lock")
  <2> DEFINE f == [form[w] EXCEPT !.step = "lock"]
  <2>1. f.step = "lock" /\ f.done = form[w].done
    BY <1>1 DEF SaveForms
  <2> HIDE DEF f
  <2>2. Current(f) /\ \A v \in SpamWorkers \ {w} : Apart(form[v], f)
    BY <1>1, <2>1 DEF Current, Apart, LocksHeld
  <2> QED
    BY <1>1, <1>2, <1>3, <2>2, ProceedStep DEF f, SaveSteps
<1> QED
  BY <1>2, <1>3, AbandonStep DEF ReadToken

--------------------------------------------------------------------------------
LEMMA SpamInvInit ==
  ASSUME SpamAssumption, SpamInit
  PROVE  SpamInv
<1>1. SpamTypeInv
  <2>1. <<>> \in Seq(Results)
    OBVIOUS
  <2>2. [is_problematic |-> FALSE, review_required |-> FALSE] \in Flags
    BY DEF Flags
  <2>3. score \in [Purchased -> 0 .. 5]
    BY DEF SpamInit, SpamAssumption
  <2>4. raised \in [Purchased -> Flags] /\ log \in [Purchased -> Seq(Results)]
    BY <2>1, <2>2, Zenon DEF SpamInit
  <2>5. form \in [SpamWorkers -> AllForms]
    BY IdleForm DEF SpamInit
  <2>6. batches \in [Tokens -> 0 .. 1] /\ members \subseteq SpamRoutes \X Purchased
    BY DEF SpamInit
  <2> QED
    BY <2>3, <2>4, <2>5, <2>6 DEF SpamTypeInv
<1>2. FormsInv
  BY DEF SpamInit, FormsInv, Current, Apart, LocksHeld, NoSpamForm
<1>3. LogKnown /\ ScoreChain /\ TokenScoresOnce
  BY DEF SpamInit, LogKnown, ScoreChain, TokenScoresOnce
<1> QED
  BY <1>1, <1>2, <1>3 DEF SpamInv

LEMMA SpamInvStep ==
  ASSUME SpamAssumption, SpamInv, [SpamNext]_spamVars
  PROVE  SpamInv'
<1>1. ASSUME NEW w \in SpamWorkers, Submit(w) PROVE SpamInv'
  BY <1>1, SubmitKeeps
<1>2. ASSUME NEW w \in SpamWorkers, ReadToken(w) PROVE SpamInv'
  BY <1>2, ReadTokenKeeps
<1>3. ASSUME NEW w \in SpamWorkers, LockPhones(w) PROVE SpamInv'
  BY <1>3, LockPhonesKeeps
<1>4. ASSUME NEW w \in SpamWorkers, Validate(w) PROVE SpamInv'
  BY <1>4, ValidateKeeps
<1>5. ASSUME NEW w \in SpamWorkers, InsertBatch(w) PROVE SpamInv'
  BY <1>5, InsertBatchKeeps
<1>6. ASSUME NEW w \in SpamWorkers, ScoreNumber(w) PROVE SpamInv'
  BY <1>6, ScoreNumberKeeps
<1>7. ASSUME NEW w \in SpamWorkers, SaveCommit(w) PROVE SpamInv'
  BY <1>7, CommitForms, CommitLog DEF SpamInv
<1>8. ASSUME NEW w \in SpamWorkers, LoseSave(w) PROVE SpamInv'
  BY <1>8, AbandonStep DEF LoseSave
<1>9. ASSUME NEW n \in Purchased, EditFlags(n) PROVE SpamInv'
  BY <1>9, EditFlagsKeeps
<1>10. ASSUME ChangeMember PROVE SpamInv'
  BY <1>10, ChangeMemberKeeps
<1>11. CASE UNCHANGED spamVars
  BY <1>11 DEF spamVars, SpamInv, SpamTypeInv, FormsInv, Current, Apart, LocksHeld, LogKnown, ScoreChain,
               TokenScoresOnce
<1> QED
  BY <1>1, <1>2, <1>3, <1>4, <1>5, <1>6, <1>7, <1>8, <1>9, <1>10, <1>11 DEF SpamNext

\* Whatever saves overlap, the tables and the forms have the values they are
\* declared with.
THEOREM SpamInvariant == SpamSpec => []SpamInv
<1>1. SpamInit => SpamInv
  BY SpamAssumption, SpamInvInit
<1>2. SpamInv /\ [SpamNext]_spamVars => SpamInv'
  BY SpamAssumption, SpamInvStep
<1> QED
  BY <1>1, <1>2, PTL DEF SpamSpec

\* save_spam_check_batch scores a form once, however often and at whatever
\* moments it is saved (repository.py:4911).
THEOREM FormsScoreOnce == SpamSpec => []TokenScoresOnce
<1>1. SpamInv => TokenScoresOnce
  BY DEF SpamInv
<1> QED
  BY <1>1, SpamInvariant, PTL

\* The results of a number lead from one score to the next and to the present
\* one: the rows locked FOR UPDATE serialise the saves of a number.
THEOREM ScoresFollowResults == SpamSpec => []ScoreChain
<1>1. SpamInv => ScoreChain
  BY DEF SpamInv
<1> QED
  BY <1>1, SpamInvariant, PTL

\* The save that brings a number to the full score raises both of its flags, and
\* no save touches them otherwise.
THEOREM FullScoreRaisesFlags == SpamSpec => FlagsRaisedAtFive
<1>1. ASSUME SpamInv, SpamNext, NEW n \in Purchased, log'[n] # log[n]
      PROVE  raised'[n] = IF score[n] < 5 /\ score'[n] = 5 THEN Raised ELSE raised[n]
  <2>1. PICK w \in SpamWorkers : SaveCommit(w)
    BY <1>1 DEF SpamNext, Submit, ReadToken, LockPhones, Validate, InsertBatch, ScoreNumber,
                LoseSave, EditFlags, ChangeMember
  <2>2. n \in form[w].valid
    BY <1>1, <2>1, SpamAssumption, CommitFacts
  <2>3. /\ form[w].done[n].before = score[n] /\ form[w].done[n].after = score'[n]
        /\ raised'[n] = IF Reached(form[w].done[n]) THEN Raised ELSE raised[n]
    BY <1>1, <2>1, <2>2, SpamAssumption, CommitFacts
  <2> QED
    BY <2>3 DEF Reached
<1>2. SpamInv /\ [SpamNext]_spamVars =>
        [\A n \in Purchased : log'[n] # log[n] =>
           raised'[n] = IF score[n] < 5 /\ score'[n] = 5 THEN Raised ELSE raised[n]]_spamVars
  BY <1>1
<1> QED
  BY <1>2, SpamInvariant, PTL DEF SpamSpec, FlagsRaisedAtFive

--------------------------------------------------------------------------------
(***************************************************************************)
(* Routes, their history and what refers to them stay together whichever   *)
(* imports, rollbacks and edits overlap: for any numbers of requests,      *)
(* routes and files.                                                       *)
(***************************************************************************)

AnyRow == RouteRows \cup {NoRoute, Removed}

ImportFields == {"step", "file", "at", "seen", "exists", "wrote", "touched"}

\* An import that is about to apply a row has checked that there is one, and
\* before an update also its provider.
IsImport(q) ==
    /\ q = [k \in ImportFields |-> q[k]]
    /\ q.step \in {"row", "apply", "update", "done", "failed"}
    /\ q.file \in Files /\ q.at \in Nat \ {0}
    /\ q.step \in {"apply", "update"} => q.at \in DOMAIN q.file
    /\ q.step = "update" => q.file[q.at].provider \in KnownProviders

EditForms == [step: {"form", "save"}, id: RouteIds, shown: RouteRows, fresh: BOOLEAN]

Rollbacks ==
    [step: {"preview", "find", "clear", "delete"}, todo: SUBSET RouteNames,
     ready: SUBSET RouteNames, target: 0 .. LastRoute, cleared: SUBSET RouteIds,
     deleted: SUBSET RouteIds]

\* What a rollback knows of the routes, table, while it is in progress: those it
\* has deleted are there for everybody else and nothing refers to them; the only
\* other route whose history it has deleted is the one it deletes next.
Knows(q, table, refs) ==
    /\ q.step = "preview" => q.cleared = {}
    /\ q.deleted \subseteq q.cleared
    /\ \A i \in q.deleted : table[i] \in RouteRows /\ i \notin refs
    /\ \A i \in q.cleared : table[i] # NoRoute
    /\ q.step \in {"clear", "delete"} => q.target \in RouteIds /\ table[q.target] # NoRoute
    /\ \A i \in q.cleared \ q.deleted :
         table[i] \in RouteRows => q.step = "delete" /\ i = q.target

\* A form that is fresh displays the row as it is.
RequestOK(q, table, refs) ==
    \/ q = NoRequest
    \/ IsImport(q)
    \/ q \in EditForms /\ (q.fresh => table[q.id] = q.shown)
    \/ q \in Rollbacks /\ Knows(q, table, refs)

ClearedBy(q) == IF q.step \in {"find", "clear", "delete"} THEN q.cleared ELSE {}

\* Two rollbacks never wait for the commit of one another with the history of
\* one route deleted by both.
ClearedApart ==
    \A v, w \in RouteWorkers : v # w => ClearedBy(request[v]) \cap ClearedBy(request[w]) = {}

RouteTypeInv ==
    /\ route \in [RouteIds -> AnyRow]
    /\ recorded \subseteq RouteIds /\ referenced \subseteq RouteIds
    /\ request = [w \in RouteWorkers |-> request[w]]

RequestsOK == \A w \in RouteWorkers : RequestOK(request[w], route, referenced)

RouteInv == RouteTypeInv /\ RoutesRecorded /\ RequestsOK /\ ClearedApart

--------------------------------------------------------------------------------
\* The rows of routes have names, unlike the two absent rows.
LEMMA RowsNamed ==
  ASSUME RouteAssumption, NEW row \in AnyRow
  PROVE  /\ row.name \in RouteNames <=> row \in RouteRows
         /\ row \in RouteRows => row # NoRoute /\ row # Removed
BY DEF RouteAssumption, AnyRow, RouteRows, NoRoute, Removed

LEMMA NamedRoute ==
  ASSUME RouteAssumption, RouteTypeInv, NEW n \in RouteNames, NEW i \in Named(n)
  PROVE  i \in RouteIds /\ IsRoute(i) /\ route[i] # NoRoute
<1>1. i \in RouteIds /\ route[i].name = n /\ route[i] \in AnyRow
  BY DEF Named, RouteTypeInv
<1> QED
  BY <1>1, RowsNamed DEF IsRoute

LEMMA TouchedImport ==
  ASSUME NEW q, IsImport(q), NEW names
  PROVE  IsImport(Touched(q, names)) /\ Touched(q, names).step = q.step
<1> DEFINE r == Touched(q, names)
<1>1. /\ r = [k \in ImportFields |-> r[k]]
      /\ r.step = q.step /\ r.file = q.file /\ r.at = q.at
  BY DEF Touched, IsImport, ImportFields
<1> QED
  BY <1>1 DEF IsImport

LEMMA KindsApart ==
  ASSUME NEW q, NEW table, NEW refs, RequestOK(q, table, refs)
  PROVE  /\ q.step = "idle" => q = NoRequest
         /\ q.step \in {"row", "apply", "update", "done", "failed"} => IsImport(q)
         /\ q.step \in {"form", "save"} => q \in EditForms /\ (q.fresh => table[q.id] = q.shown)
         /\ q.step \in {"preview", "find", "clear", "delete"} =>
              q \in Rollbacks /\ Knows(q, table, refs)
         /\ q.step \in {"idle", "row", "apply", "update", "done", "failed", "form", "save",
                        "preview", "find", "clear", "delete"}
<1>1. CASE q = NoRequest
  BY <1>1 DEF NoRequest
<1>2. CASE IsImport(q)
  BY <1>2 DEF IsImport
<1>3. CASE q \in EditForms /\ (q.fresh => table[q.id] = q.shown)
  BY <1>3 DEF EditForms
<1>4. CASE q \in Rollbacks /\ Knows(q, table, refs)
  BY <1>4 DEF Rollbacks
<1> QED
  BY <1>1, <1>2, <1>3, <1>4 DEF RequestOK

\* A step of one request that changes no table.
LEMMA GoOnStep ==
  ASSUME RouteInv, NEW w \in RouteWorkers, NEW q, GoOn(w, q),
         UNCHANGED <<route, recorded, referenced>>,
         RequestOK(q, route, referenced),
         \A v \in RouteWorkers \ {w} : ClearedBy(request[v]) \cap ClearedBy(q) = {}
  PROVE  RouteInv'
<1>1. /\ request'[w] = q /\ \A v \in RouteWorkers \ {w} : request'[v] = request[v]
      /\ request' = [v \in RouteWorkers |-> request'[v]]
  BY DEF GoOn, RouteInv, RouteTypeInv
<1>2. RouteTypeInv'
  BY <1>1 DEF RouteInv, RouteTypeInv
<1>3. RoutesRecorded'
  BY DEF RouteInv, RoutesRecorded, IsRoute
<1>4. RequestsOK'
  BY <1>1 DEF RouteInv, RequestsOK
<1>5. ClearedApart'
  <2> SUFFICES ASSUME NEW u \in RouteWorkers, NEW v \in RouteWorkers, u # v
               PROVE  ClearedBy(request'[u]) \cap ClearedBy(request'[v]) = {}
    BY DEF ClearedApart, ClearedBy
  <2>1. CASE u # w /\ v # w
    BY <1>1, <2>1 DEF RouteInv, ClearedApart
  <2>2. CASE u = w
    BY <1>1, <2>2
  <2>3. CASE v = w
    BY <1>1, <2>3
  <2> QED
    BY <2>1, <2>2, <2>3
<1> QED
  BY <1>2, <1>3, <1>4, <1>5 DEF RouteInv

\* Requests other than rollbacks have deleted nothing.
LEMMA NothingCleared ==
  ASSUME NEW q, q.step \notin {"find", "clear", "delete"}
  PROVE  ClearedBy(q) = {}
BY DEF ClearedBy

LEMMA IdleOK ==
  ASSUME NEW table, NEW refs
  PROVE  RequestOK(NoRequest, table, refs) /\ ClearedBy(NoRequest) = {}
BY DEF RequestOK, ClearedBy, NoRequest

LEMMA LeaveStep ==
  ASSUME RouteInv, NEW w \in RouteWorkers, GoOn(w, NoRequest),
         UNCHANGED <<route, recorded, referenced>>
  PROVE  RouteInv'
BY IdleOK, GoOnStep

\* A step of an import that changes no table.
LEMMA ImportStep ==
  ASSUME RouteInv, NEW w \in RouteWorkers, NEW q, GoOn(w, q), IsImport(q),
         UNCHANGED <<route, recorded, referenced>>
  PROVE  RouteInv'
<1>1. ClearedBy(q) = {}
  BY NothingCleared DEF IsImport
<1> QED
  BY <1>1, GoOnStep DEF RequestOK

--------------------------------------------------------------------------------
\* What the other requests do when one of them creates route i or changes it.
LEMMA NoticeKeeps ==
  ASSUME RouteAssumption, RouteTypeInv, NEW q, RequestOK(q, route, referenced), NEW i \in RouteIds,
         route' \in [RouteIds -> AnyRow],
         \A j \in RouteIds \ {i} : route'[j] = route[j],
         IsRoute(i)',
         \/ route[i] = NoRoute
         \/ IsRoute(i) /\ (q.step \in {"find", "clear", "delete"} => i \notin q.deleted)
  PROVE  /\ RequestOK(Notice(q, i), route', referenced)
         /\ Notice(q, i).step = q.step
         /\ ClearedBy(Notice(q, i)) = ClearedBy(q)
<1>1. CASE q.step = "idle"
  BY <1>1, KindsApart, IdleOK DEF Notice
<1>2. CASE q.step \in {"row", "apply", "update", "done", "failed"}
  <2>1. IsImport(q)
    BY <1>2, KindsApart
  <2>2. Notice(q, i) = q \/ \E names : Notice(q, i) = Touched(q, names)
    BY <1>2 DEF Notice
  <2>3. IsImport(Notice(q, i)) /\ Notice(q, i).step = q.step
    BY <2>1, <2>2, TouchedImport
  <2> QED
    BY <1>2, <2>3, NothingCleared DEF RequestOK
<1>3. CASE q.step \in {"form", "save"}
  <2>1. q \in EditForms /\ (q.fresh => route[q.id] = q.shown)
    BY <1>3, KindsApart
  <2>2. CASE q.id = i
    <3>1. Notice(q, i) = [q EXCEPT !.fresh = FALSE]
      BY <1>3, <2>2 DEF Notice
    <3>2. /\ Notice(q, i) \in EditForms /\ Notice(q, i).fresh = FALSE
          /\ Notice(q, i).step = q.step
      BY <2>1, <3>1 DEF EditForms
    <3> QED
      BY <1>3, <3>2, NothingCleared DEF RequestOK
  <2>3. CASE q.id # i
    <3>1. Notice(q, i) = q /\ route'[q.id] = route[q.id]
      BY <1>3, <2>1, <2>3 DEF Notice, EditForms
    <3> QED
      BY <2>1, <3>1 DEF RequestOK
  <2> QED
    BY <2>2, <2>3
<1>4. CASE q.step \in {"preview", "find", "clear", "delete"}
  <2>1. Notice(q, i) = q /\ q \in Rollbacks /\ Knows(q, route, referenced)
    BY <1>4, KindsApart DEF Notice
  <2>2. route'[i] \in RouteRows /\ route'[i] # NoRoute
    BY RowsNamed DEF IsRoute
  <2>3. /\ i \notin q.deleted
        /\ q.deleted \subseteq RouteIds /\ q.cleared \subseteq RouteIds
    <3>1. q.deleted \subseteq RouteIds /\ q.cleared \subseteq RouteIds
      BY <2>1 DEF Rollbacks
    <3>2. CASE route[i] = NoRoute
      BY <2>1, <3>1, <3>2 DEF Knows
    <3>3. CASE q.step = "preview"
      BY <2>1, <3>3 DEF Knows
    <3> QED
      BY <1>4, <3>1, <3>2, <3>3
  <2>4. \A j \in q.cleared : route[j] # NoRoute
    BY <2>1 DEF Knows
  <2>5. Knows(q, route', referenced)
    <3>1. \A j \in q.deleted : route'[j] \in RouteRows /\ j \notin referenced
      BY <2>1, <2>3 DEF Knows
    <3>2. \A j \in q.cleared : route'[j] # NoRoute
      BY <2>2, <2>3, <2>4
    <3>3. q.step \in {"clear", "delete"} => q.target \in RouteIds /\ route'[q.target] # NoRoute
      BY <2>1, <2>2 DEF Knows
    <3>4. ASSUME NEW j \in q.cleared \ q.deleted, route'[j] \in RouteRows
          PROVE  q.step = "delete" /\ j = q.target
      <4>1. CASE j # i
        BY <2>1, <2>3, <3>4, <4>1 DEF Knows
      <4>2. CASE j = i
        <5>1. route[i] \in RouteRows
          BY <2>4, <4>2 DEF IsRoute
        <5> QED
          BY <2>1, <3>4, <4>2, <5>1 DEF Knows
      <4> QED
        BY <4>1, <4>2
    <3> QED
      BY <2>1, <3>1, <3>2, <3>3, <3>4 DEF Knows
  <2> QED
    BY <2>1, <2>5 DEF RequestOK
<1> QED
  BY <1>1, <1>2, <1>3, <1>4, KindsApart

\* Request w, which is no rollback, creates or changes a route.
LEMMA ChangeStep ==
  ASSUME RouteAssumption, RouteInv, NEW w \in RouteWorkers, NEW q, NEW i \in RouteIds,
         Change(w, q, i), IsImport(q) \/ q = NoRequest,
         route' \in [RouteIds -> AnyRow],
         \A j \in RouteIds \ {i} : route'[j] = route[j],
         IsRoute(i)', i \in recorded', recorded' \ {i} = recorded \ {i},
         UNCHANGED referenced,
         route[i] = NoRoute \/ (IsRoute(i) /\ ~Deleting(i))
  PROVE  RouteInv'
<1>1. /\ request'[w] = q /\ \A v \in RouteWorkers \ {w} : request'[v] = Notice(request[v], i)
      /\ request' = [v \in RouteWorkers |-> request'[v]]
  BY DEF Change
<1>2. RouteTypeInv'
  BY <1>1 DEF RouteInv, RouteTypeInv
<1>3. RoutesRecorded'
  BY DEF RouteInv, RoutesRecorded, IsRoute
<1>4. ASSUME NEW v \in RouteWorkers \ {w}
      PROVE  RequestOK(request'[v], route', referenced) /\ ClearedBy(request'[v]) = ClearedBy(request[v])
  <2>1. \/ route[i] = NoRoute
        \/ /\ IsRoute(i)
           /\ request[v].step \in {"find", "clear", "delete"} => i \notin request[v].deleted
    BY DEF Deleting
  <2> QED
    BY <1>1, <2>1, NoticeKeeps DEF RouteInv, RequestsOK
<1>5. RequestOK(request'[w], route', referenced) /\ ClearedBy(request'[w]) = {}
  <2>1. CASE IsImport(q)
    BY <1>1, <2>1, NothingCleared DEF RequestOK, IsImport
  <2>2. CASE q = NoRequest
    BY <1>1, <2>2, IdleOK
  <2> QED
    BY <2>1, <2>2
<1>6. RequestsOK'
  BY <1>4, <1>5 DEF RequestsOK
<1>7. ClearedApart'
  <2>1. \A u, v \in RouteWorkers : u # v =>
           ClearedBy(request'[u]) \cap ClearedBy(request'[v]) = {}
    BY <1>4, <1>5 DEF RouteInv, ClearedApart
  <2> QED
    BY <2>1 DEF ClearedApart, ClearedBy
<1> QED
  BY <1>2, <1>3, <1>6, <1>7 DEF RouteInv

\* What NewRoute leaves of the tables.
LEMMA NewRouteFacts ==
  ASSUME RouteAssumption, RouteTypeInv, NEW i \in RouteIds, NEW n \in RouteNames, NEW p \in KnownProviders,
         NewRoute(i, n, p)
  PROVE  /\ route' \in [RouteIds -> AnyRow]
         /\ \A j \in RouteIds \ {i} : route'[j] = route[j]
         /\ IsRoute(i)' /\ route[i] = NoRoute
         /\ recorded' = recorded \cup {i} /\ UNCHANGED referenced
<1>1. [name |-> n, provider |-> p] \in RouteRows
  BY DEF RouteRows
<1> QED
  BY <1>1 DEF NewRoute, RouteTypeInv, AnyRow, IsRoute

LEMMA CreateRouteKeeps ==
  ASSUME RouteAssumption, RouteInv, CreateRoute
  PROVE  RouteInv'
<1>1. PICK i \in RouteIds, n \in RouteNames, p \in KnownProviders :
        /\ NewRoute(i, n, p)
        /\ request' = [v \in RouteWorkers |-> Notice(request[v], i)]
  BY DEF CreateRoute
<1>2. /\ route' \in [RouteIds -> AnyRow]
      /\ \A j \in RouteIds \ {i} : route'[j] = route[j]
      /\ IsRoute(i)' /\ route[i] = NoRoute
      /\ recorded' = recorded \cup {i} /\ UNCHANGED referenced
  BY <1>1, NewRouteFacts DEF RouteInv
<1>3. RouteTypeInv'
  BY <1>1, <1>2 DEF RouteInv, RouteTypeInv
<1>4. RoutesRecorded'
  BY <1>2 DEF RouteInv, RoutesRecorded, IsRoute
<1>5. ASSUME NEW v \in RouteWorkers
      PROVE  RequestOK(request'[v], route', referenced) /\ ClearedBy(request'[v]) = ClearedBy(request[v])
  BY <1>1, <1>2, NoticeKeeps DEF RouteInv, RequestsOK
<1>6. RequestsOK'
  BY <1>2, <1>5 DEF RequestsOK
<1>7. ClearedApart'
  <2>1. \A u, v \in RouteWorkers : u # v =>
           ClearedBy(request'[u]) \cap ClearedBy(request'[v]) = {}
    BY <1>5 DEF RouteInv, ClearedApart
  <2> QED
    BY <2>1 DEF ClearedApart, ClearedBy
<1> QED
  BY <1>3, <1>4, <1>6, <1>7 DEF RouteInv

LEMMA ReferKeeps ==
  ASSUME RouteAssumption, RouteInv, NEW i \in RouteIds, Refer(i)
  PROVE  RouteInv'
<1>1. ~Deleting(i) /\ referenced' = referenced \cup {i} /\ UNCHANGED <<route, recorded, request>>
  BY DEF Refer
<1>2. ASSUME NEW v \in RouteWorkers
      PROVE  RequestOK(request[v], route, referenced')
  <2>1. RequestOK(request[v], route, referenced)
    BY DEF RouteInv, RequestsOK
  <2>2. CASE request[v] \in Rollbacks /\ Knows(request[v], route, referenced)
    <3>1. i \notin request[v].deleted
      <4>1. CASE request[v].step = "preview"
        BY <2>2, <4>1 DEF Knows
      <4> QED
        BY <1>1, <2>2, <4>1 DEF Deleting, Rollbacks
    <3> QED
      BY <1>1, <2>2, <3>1 DEF RequestOK, Knows
  <2> QED
    BY <2>1, <2>2 DEF RequestOK
<1>3. RouteTypeInv' /\ RoutesRecorded' /\ ClearedApart'
  BY <1>1 DEF RouteInv, RouteTypeInv, RoutesRecorded, IsRoute, ClearedApart, ClearedBy
<1> QED
  BY <1>1, <1>2, <1>3 DEF RouteInv, RequestsOK

--------------------------------------------------------------------------------
LEMMA NextRowOK ==
  ASSUME NEW w \in RouteWorkers, IsImport(request[w])
  PROVE  /\ IsImport(NextRow(w))
         /\ \A names : IsImport([NextRow(w) EXCEPT !.wrote = @ \cup names])
<1> DEFINE q == request[w]
           r == NextRow(w)
<1>1. /\ q = [k \in ImportFields |-> q[k]] /\ q.file \in Files /\ q.at \in Nat \ {0}
      /\ q.at + 1 \in Nat \ {0}
  BY DEF IsImport
<1>2. /\ r = [k \in ImportFields |-> r[k]]
      /\ r.step = "row" /\ r.file = q.file /\ r.at = q.at + 1
  BY <1>1 DEF NextRow, ImportFields
<1> HIDE DEF r, q
<1>3. ASSUME NEW names
      PROVE  IsImport([r EXCEPT !.wrote = @ \cup names])
  <2> DEFINE x == [r EXCEPT !.wrote = @ \cup names]
  <2>1. x = [k \in ImportFields |-> x[k]] /\ x.step = "row" /\ x.file = r.file /\ x.at = r.at
    BY <1>2 DEF ImportFields
  <2> QED
    BY <1>1, <1>2, <2>1 DEF IsImport
<1>4. IsImport(r)
  BY <1>1, <1>2 DEF IsImport
<1> QED
  BY <1>3, <1>4 DEF r

\* The request of an import that is at a step of its own.
LEMMA ImportAt ==
  ASSUME RouteInv, NEW w \in RouteWorkers,
         request[w].step \in {"row", "apply", "update", "done", "failed"}
  PROVE  IsImport(request[w])
BY KindsApart DEF RouteInv, RequestsOK

\* A row of a file that is being imported.
LEMMA RowType ==
  ASSUME RouteAssumption, NEW w \in RouteWorkers, IsImport(request[w]),
         request[w].step \in {"apply", "update"}
  PROVE  Row(w) \in FileRows /\ Row(w).name \in RouteNames
<1>1. request[w].file \in Seq(FileRows) /\ request[w].at \in DOMAIN request[w].file
  BY DEF RouteAssumption, IsImport
<1>2. Row(w) \in FileRows
  BY <1>1 DEF Row
<1> QED
  BY <1>2 DEF FileRows

LEMMA StartImportKeeps ==
  ASSUME RouteAssumption, RouteInv, NEW w \in RouteWorkers, StartImport(w)
  PROVE  RouteInv'
<1>1. PICK file \in Files :
        GoOn(w, [step |-> "row", file |-> file, at |-> 1, seen |-> {}, exists |-> FALSE,
                 wrote |-> {}, touched |-> {}])
  BY DEF StartImport
<1> DEFINE q == [step |-> "row", file |-> file, at |-> 1, seen |-> {}, exists |-> FALSE,
                 wrote |-> {}, touched |-> {}]
<1>2. IsImport(q)
  <2>1. /\ q = [k \in ImportFields |-> q[k]]
        /\ q.step = "row" /\ q.file = file /\ q.at = 1
    BY DEF ImportFields
  <2> HIDE DEF q
  <2> QED
    BY <2>1 DEF IsImport
<1> HIDE DEF q
<1> QED
  BY <1>1, <1>2, ImportStep DEF q, StartImport

LEMMA ReadRowKeeps ==
  ASSUME RouteAssumption, RouteInv, NEW w \in RouteWorkers, ReadRow(w)
  PROVE  RouteInv'
<1> DEFINE q == request[w]
           r == [q EXCEPT !.step = "apply", !.exists = Named(Row(w).name) # {},
                          !.seen = @ \cup {Row(w).name}]
<1>1. IsImport(q) /\ q.at <= Len(q.file)
  BY ImportAt DEF ReadRow, AtStep
<1>2. q.at \in DOMAIN q.file
  BY <1>1 DEF RouteAssumption, IsImport
<1>3. r = [k \in ImportFields |-> r[k]] /\ r.step = "apply" /\ r.file = q.file /\ r.at = q.at
  BY <1>1 DEF IsImport, ImportFields
<1>4. GoOn(w, NextRow(w)) \/ GoOn(w, r)
  BY DEF ReadRow
<1>5. UNCHANGED <<route, recorded, referenced>>
  BY DEF ReadRow
<1> HIDE DEF r
<1>6. IsImport(r)
  BY <1>1, <1>2, <1>3 DEF IsImport
<1> QED
  BY <1>1, <1>4, <1>5, <1>6, NextRowOK, ImportStep

LEMMA SkipRowKeeps ==
  ASSUME RouteAssumption, RouteInv, NEW w \in RouteWorkers, SkipRow(w)
  PROVE  RouteInv'
BY ImportAt, NextRowOK, ImportStep DEF SkipRow, AtStep

LEMMA FetchRouteKeeps ==
  ASSUME RouteAssumption, RouteInv, NEW w \in RouteWorkers, FetchRoute(w)
  PROVE  RouteInv'
<1> DEFINE q == request[w]
           r == [q EXCEPT !.step = "update"]
<1>1. IsImport(q) /\ q.step = "apply" /\ Row(w).provider \in KnownProviders
  BY ImportAt DEF FetchRoute, AtStep
<1>2. r = [k \in ImportFields |-> r[k]] /\ r.step = "update" /\ r.file = q.file /\ r.at = q.at
  BY <1>1 DEF IsImport, ImportFields
<1>3. GoOn(w, r) /\ UNCHANGED <<route, recorded, referenced>>
  BY DEF FetchRoute
<1> HIDE DEF r
<1>4. IsImport(r)
  BY <1>1, <1>2 DEF IsImport, Row
<1> QED
  BY <1>3, <1>4, ImportStep

LEMMA InsertRowKeeps ==
  ASSUME RouteAssumption, RouteInv, NEW w \in RouteWorkers, InsertRow(w)
  PROVE  RouteInv'
<1>1. IsImport(request[w]) /\ request[w].step = "apply"
  BY ImportAt DEF InsertRow, AtStep
<1>2. PICK i \in RouteIds :
        NewRoute(i, Row(w).name, Row(w).provider) /\ Change(w, NoteWritten(w), i)
  BY DEF InsertRow
<1>3. Row(w).name \in RouteNames /\ Row(w).provider \in KnownProviders
  BY <1>1, RowType DEF InsertRow
<1>4. /\ route' \in [RouteIds -> AnyRow]
      /\ \A j \in RouteIds \ {i} : route'[j] = route[j]
      /\ IsRoute(i)' /\ route[i] = NoRoute
      /\ recorded' = recorded \cup {i} /\ UNCHANGED referenced
  BY <1>2, <1>3, NewRouteFacts DEF RouteInv
<1>5. IsImport(NoteWritten(w))
  BY <1>1, NextRowOK DEF NoteWritten
<1>6. i \in recorded' /\ recorded' \ {i} = recorded \ {i}
  BY <1>4
<1> QED
  BY <1>2, <1>4, <1>5, <1>6, ChangeStep

LEMMA InsertFailsKeeps ==
  ASSUME RouteAssumption, RouteInv, NEW w \in RouteWorkers, InsertFails(w)
  PROVE  RouteInv'
<1> DEFINE q == request[w]
           r == [q EXCEPT !.step = "failed", !.seen = {}, !.touched = {}]
<1>1. IsImport(q)
  BY ImportAt DEF InsertFails, AtStep
<1>2. r = [k \in ImportFields |-> r[k]] /\ r.step = "failed" /\ r.file = q.file /\ r.at = q.at
  BY <1>1 DEF IsImport, ImportFields
<1>3. GoOn(w, r) /\ UNCHANGED <<route, recorded, referenced>>
  BY DEF InsertFails
<1> HIDE DEF r
<1>4. IsImport(r)
  BY <1>1, <1>2 DEF IsImport
<1> QED
  BY <1>3, <1>4, ImportStep

LEMMA EndImportKeeps ==
  ASSUME RouteAssumption, RouteInv, NEW w \in RouteWorkers, EndImport(w)
  PROVE  RouteInv'
<1> DEFINE q == request[w]
           r == [q EXCEPT !.step = "done", !.seen = {}, !.wrote = {}]
<1>1. IsImport(q)
  BY ImportAt DEF EndImport, AtStep
<1>2. r = [k \in ImportFields |-> r[k]] /\ r.step = "done" /\ r.file = q.file /\ r.at = q.at
  BY <1>1 DEF IsImport, ImportFields
<1>3. GoOn(w, r) /\ UNCHANGED <<route, recorded, referenced>>
  BY DEF EndImport
<1> HIDE DEF r
<1>4. IsImport(r)
  BY <1>1, <1>2 DEF IsImport
<1> QED
  BY <1>3, <1>4, ImportStep

LEMMA UpdateRowKeeps ==
  ASSUME RouteAssumption, RouteInv, NEW w \in RouteWorkers, UpdateRow(w)
  PROVE  RouteInv'
<1>1. IsImport(request[w]) /\ request[w].step = "update" /\ Row(w).provider \in KnownProviders
  BY ImportAt DEF UpdateRow, AtStep, IsImport, Row
<1>2. Row(w).name \in RouteNames
  BY <1>1, RowType
<1>3. UNCHANGED <<recorded, referenced>>
  BY DEF UpdateRow
<1>4. CASE GoOn(w, NextRow(w)) /\ UNCHANGED route
  BY <1>1, <1>3, <1>4, NextRowOK, ImportStep
<1>5. ASSUME NEW i \in Named(Row(w).name), ~Deleting(i),
             route' = [route EXCEPT ![i].provider = Row(w).provider],
             Change(w, NoteWritten(w), i)
      PROVE  RouteInv'
  <2>1. i \in RouteIds /\ IsRoute(i)
    BY <1>2, <1>5, NamedRoute DEF RouteInv
  <2>2. [route[i] EXCEPT !.provider = Row(w).provider] \in RouteRows
    BY <1>1, <2>1 DEF IsRoute, RouteRows
  <2>3. /\ route' \in [RouteIds -> AnyRow]
        /\ \A j \in RouteIds \ {i} : route'[j] = route[j]
        /\ IsRoute(i)'
    <3> DEFINE row == [route[i] EXCEPT !.provider = Row(w).provider]
    <3>1. route' = [route EXCEPT ![i] = row] /\ row \in AnyRow /\ row \in RouteRows
      BY <1>5, <2>2 DEF AnyRow
    <3> HIDE DEF row
    <3> QED
      BY <2>1, <3>1 DEF RouteInv, RouteTypeInv, IsRoute
  <2>4. i \in recorded
    BY <2>1 DEF RouteInv, RoutesRecorded
  <2>5. IsImport(NoteWritten(w))
    BY <1>1, NextRowOK DEF NoteWritten
  <2> QED
    BY <1>3, <1>5, <2>1, <2>3, <2>4, <2>5, ChangeStep
<1> QED
  BY <1>4, <1>5 DEF UpdateRow

--------------------------------------------------------------------------------
LEMMA RollbackAt ==
  ASSUME RouteInv, NEW w \in RouteWorkers,
         request[w].step \in {"preview", "find", "clear", "delete"}
  PROVE  request[w] \in Rollbacks /\ Knows(request[w], route, referenced)
BY KindsApart DEF RouteInv, RequestsOK

\* A rollback goes on without having deleted more history.
LEMMA RollbackStep ==
  ASSUME RouteInv, NEW w \in RouteWorkers, NEW q, GoOn(w, q),
         UNCHANGED <<route, recorded, referenced>>,
         q \in Rollbacks, Knows(q, route, referenced),
         ClearedBy(q) \subseteq ClearedBy(request[w])
  PROVE  RouteInv'
<1>1. RequestOK(q, route, referenced)
  BY DEF RequestOK
<1>2. \A v \in RouteWorkers \ {w} : ClearedBy(request[v]) \cap ClearedBy(q) = {}
  BY DEF RouteInv, ClearedApart
<1> QED
  BY <1>1, <1>2, GoOnStep

LEMMA StartRollbackKeeps ==
  ASSUME RouteAssumption, RouteInv, NEW w \in RouteWorkers, StartRollback(w)
  PROVE  RouteInv'
<1>1. PICK names \in SUBSET RouteNames :
        GoOn(w, [step |-> "preview", todo |-> names, ready |-> {}, target |-> 0,
                 cleared |-> {}, deleted |-> {}])
  BY DEF StartRollback
<1> DEFINE q == [step |-> "preview", todo |-> names, ready |-> {}, target |-> 0,
                 cleared |-> {}, deleted |-> {}]
<1>2. q \in Rollbacks
  BY DEF RouteAssumption, Rollbacks
<1>3. Knows(q, route, referenced) /\ ClearedBy(q) = {}
  BY DEF Knows, ClearedBy
<1>4. UNCHANGED <<route, recorded, referenced>>
  BY DEF StartRollback
<1> HIDE DEF q
<1>5. GoOn(w, q)
  BY <1>1 DEF q
<1> QED
  BY <1>2, <1>3, <1>4, <1>5, RollbackStep

LEMMA PreviewRouteKeeps ==
  ASSUME RouteAssumption, RouteInv, NEW w \in RouteWorkers, PreviewRoute(w)
  PROVE  RouteInv'
<1>1. /\ request[w] \in Rollbacks /\ Knows(request[w], route, referenced)
      /\ request[w].step = "preview"
  BY RollbackAt DEF PreviewRoute, AtStep
<1>2. PICK n \in request[w].todo :
        GoOn(w, [request[w] EXCEPT !.todo = @ \ {n},
                                   !.ready = IF Named(n) \ referenced # {} THEN @ \cup {n} ELSE @])
  BY DEF PreviewRoute
<1> DEFINE q == [request[w] EXCEPT !.todo = @ \ {n},
                                   !.ready = IF Named(n) \ referenced # {} THEN @ \cup {n} ELSE @]
<1>3. n \in RouteNames
  BY <1>1 DEF Rollbacks
<1>4. /\ q \in Rollbacks /\ q.step = "preview" /\ q.cleared = request[w].cleared
      /\ q.deleted = request[w].deleted
  BY <1>1, <1>3 DEF Rollbacks
<1>5. UNCHANGED <<route, recorded, referenced>>
  BY DEF PreviewRoute
<1> HIDE DEF q
<1>6. Knows(q, route, referenced) /\ ClearedBy(q) = {}
  BY <1>1, <1>4 DEF Knows, ClearedBy
<1>7. GoOn(w, q)
  BY <1>2 DEF q
<1> QED
  BY <1>4, <1>5, <1>6, <1>7, RollbackStep

LEMMA EndPreviewKeeps ==
  ASSUME RouteAssumption, RouteInv, NEW w \in RouteWorkers, EndPreview(w)
  PROVE  RouteInv'
<1> DEFINE q == [request[w] EXCEPT !.step = "find", !.todo = request[w].ready, !.ready = {}]
<1>1. /\ request[w] \in Rollbacks /\ Knows(request[w], route, referenced)
      /\ request[w].step = "preview"
  BY RollbackAt DEF EndPreview, AtStep
<1>2. /\ q \in Rollbacks /\ q.step = "find" /\ q.cleared = request[w].cleared
      /\ q.deleted = request[w].deleted
  BY <1>1 DEF Rollbacks
<1>3. GoOn(w, q) /\ UNCHANGED <<route, recorded, referenced>>
  BY DEF EndPreview
<1> HIDE DEF q
<1>4. Knows(q, route, referenced) /\ ClearedBy(q) = {}
  BY <1>1, <1>2 DEF Knows, ClearedBy
<1> QED
  BY <1>2, <1>3, <1>4, RollbackStep

LEMMA FindRouteKeeps ==
  ASSUME RouteAssumption, RouteInv, NEW w \in RouteWorkers, FindRoute(w)
  PROVE  RouteInv'
<1>1. /\ request[w] \in Rollbacks /\ Knows(request[w], route, referenced)
      /\ request[w].step = "find"
  BY RollbackAt DEF FindRoute, AtStep
<1>2. UNCHANGED <<route, recorded, referenced>>
  BY DEF FindRoute
<1>3. ASSUME NEW n \in request[w].todo, GoOn(w, [request[w] EXCEPT !.todo = @ \ {n}])
      PROVE  RouteInv'
  <2> DEFINE q == [request[w] EXCEPT !.todo = @ \ {n}]
  <2>1. /\ q \in Rollbacks /\ q.step = "find" /\ q.cleared = request[w].cleared
        /\ q.deleted = request[w].deleted
    BY <1>1 DEF Rollbacks
  <2>2. GoOn(w, q)
    BY <1>3
  <2> HIDE DEF q
  <2>3. Knows(q, route, referenced) /\ ClearedBy(q) = ClearedBy(request[w])
    BY <1>1, <2>1 DEF Knows, ClearedBy
  <2> QED
    BY <1>2, <2>1, <2>2, <2>3, RollbackStep
<1>4. ASSUME NEW n \in request[w].todo, NEW i \in Named(n),
             GoOn(w, [request[w] EXCEPT !.step = "clear", !.todo = @ \ {n}, !.target = i])
      PROVE  RouteInv'
  <2> DEFINE q == [request[w] EXCEPT !.step = "clear", !.todo = @ \ {n}, !.target = i]
  <2>1. i \in RouteIds /\ route[i] # NoRoute /\ i \in 0 .. LastRoute
    <3>1. n \in RouteNames
      BY <1>1 DEF Rollbacks
    <3> QED
      BY <1>4, <3>1, NamedRoute DEF RouteInv, RouteAssumption, RouteIds
  <2>2. /\ q \in Rollbacks /\ q.step = "clear" /\ q.cleared = request[w].cleared
        /\ q.deleted = request[w].deleted /\ q.target = i
    BY <1>1, <2>1 DEF Rollbacks
  <2>3. GoOn(w, q)
    BY <1>4
  <2> HIDE DEF q
  <2>4. Knows(q, route, referenced) /\ ClearedBy(q) = ClearedBy(request[w])
    BY <1>1, <2>1, <2>2 DEF Knows, ClearedBy
  <2> QED
    BY <1>2, <2>2, <2>3, <2>4, RollbackStep
<1>5. PICK n \in request[w].todo :
        \/ GoOn(w, [request[w] EXCEPT !.todo = @ \ {n}])
        \/ \E i \in Named(n) \ request[w].deleted :
             GoOn(w, [request[w] EXCEPT !.step = "clear", !.todo = @ \ {n}, !.target = i])
  <2>1. request[w].todo \subseteq RouteNames
    BY <1>1 DEF Rollbacks
  <2> QED
    BY <2>1 DEF FindRoute
<1> QED
  BY <1>3, <1>4, <1>5

LEMMA ClearHistoryKeeps ==
  ASSUME RouteAssumption, RouteInv, NEW w \in RouteWorkers, ClearHistory(w)
  PROVE  RouteInv'
<1> DEFINE i == request[w].target
           q == [request[w] EXCEPT !.step = "delete", !.cleared = @ \cup {i}]
<1>1. /\ request[w] \in Rollbacks /\ Knows(request[w], route, referenced)
      /\ request[w].step = "clear"
  BY RollbackAt DEF ClearHistory, AtStep
<1>2. i \in RouteIds /\ route[i] # NoRoute
  BY <1>1 DEF Knows
<1>3. /\ q \in Rollbacks /\ q.step = "delete" /\ q.cleared = request[w].cleared \cup {i}
      /\ q.deleted = request[w].deleted /\ q.target = i
  BY <1>1, <1>2 DEF Rollbacks
<1>4. GoOn(w, q) /\ UNCHANGED <<route, recorded, referenced>>
  BY DEF ClearHistory
<1>5. \A v \in RouteWorkers \ {w} : i \notin ClearedBy(request[v])
  BY DEF ClearHistory, ClearedBy
<1> HIDE DEF i, q
<1>6. Knows(q, route, referenced) /\ ClearedBy(q) = ClearedBy(request[w]) \cup {i}
  BY <1>1, <1>2, <1>3 DEF Knows, ClearedBy
<1>7. \A v \in RouteWorkers \ {w} : ClearedBy(request[v]) \cap ClearedBy(q) = {}
  BY <1>5, <1>6 DEF RouteInv, ClearedApart
<1> QED
  BY <1>3, <1>4, <1>6, <1>7, GoOnStep DEF RequestOK

LEMMA DeleteRouteKeeps ==
  ASSUME RouteAssumption, RouteInv, NEW w \in RouteWorkers, DeleteRoute(w)
  PROVE  RouteInv'
<1> DEFINE i == request[w].target
<1>1. /\ request[w] \in Rollbacks /\ Knows(request[w], route, referenced)
      /\ request[w].step = "delete"
  BY RollbackAt DEF DeleteRoute, AtStep
<1>9. 0 \in 0 .. LastRoute
  BY DEF RouteAssumption
<1>2. UNCHANGED <<route, recorded, referenced>>
  BY DEF DeleteRoute
<1>3. CASE ~IsRoute(i) /\ GoOn(w, [request[w] EXCEPT !.step = "find", !.target = 0])
  <2> DEFINE q == [request[w] EXCEPT !.step = "find", !.target = 0]
  <2>1. /\ q \in Rollbacks /\ q.step = "find" /\ q.cleared = request[w].cleared
        /\ q.deleted = request[w].deleted
    BY <1>1, <1>9 DEF Rollbacks
  <2>2. GoOn(w, q)
    BY <1>3
  <2> HIDE DEF q
  <2>3. Knows(q, route, referenced) /\ ClearedBy(q) = ClearedBy(request[w])
    BY <1>1, <1>3, <2>1 DEF Knows, ClearedBy, IsRoute
  <2> QED
    BY <1>2, <2>1, <2>2, <2>3, RollbackStep
<1>4. CASE /\ IsRoute(i) /\ Deletable(w, i)
           /\ GoOn(w, [request[w] EXCEPT !.step = "find", !.target = 0, !.deleted = @ \cup {i}])
  <2> DEFINE q == [request[w] EXCEPT !.step = "find", !.target = 0, !.deleted = @ \cup {i}]
  <2>1. i \notin referenced /\ i \in request[w].cleared /\ i \in RouteIds
    BY <1>1, <1>4 DEF Deletable, Rollbacks
  <2>2. /\ q \in Rollbacks /\ q.step = "find" /\ q.cleared = request[w].cleared
        /\ q.deleted = request[w].deleted \cup {i}
    BY <1>1, <1>9, <2>1 DEF Rollbacks
  <2>3. GoOn(w, q)
    BY <1>4
  <2> HIDE DEF q
  <2>4. Knows(q, route, referenced) /\ ClearedBy(q) = ClearedBy(request[w])
    BY <1>1, <1>4, <2>1, <2>2 DEF Knows, ClearedBy, IsRoute
  <2> QED
    BY <1>2, <2>2, <2>3, <2>4, RollbackStep
<1>5. CASE GoOn(w, NoRequest)
  BY <1>2, <1>5, LeaveStep
<1>6. CASE ~IsRoute(i)
  BY <1>3, <1>6 DEF DeleteRoute
<1>7. CASE IsRoute(i) /\ Deletable(w, i)
  BY <1>4, <1>7 DEF DeleteRoute
<1>8. CASE IsRoute(i) /\ ~Deletable(w, i)
  BY <1>5, <1>8 DEF DeleteRoute
<1> QED
  BY <1>6, <1>7, <1>8

\* The commit of a rollback, seen by another request.
LEMMA CommitSeen ==
  ASSUME RouteAssumption, RouteInv, NEW w \in RouteWorkers, CommitRollback(w),
         NEW v \in RouteWorkers \ {w}
  PROVE  /\ RequestOK(request'[v], route', referenced)
         /\ ClearedBy(request'[v]) = ClearedBy(request[v])
<1> DEFINE gone == request[w].deleted
           q == request[v]
           Told(r) == CASE r.step \in {"row", "apply", "update", "done"} ->
                             Touched(r, {route[i].name : i \in gone})
                        [] r.step \in {"form", "save"} /\ r.id \in gone -> [r EXCEPT !.fresh = FALSE]
                        [] OTHER -> r
<1>1. request'[v] = Told(q)
  BY DEF CommitRollback
<1>2. \A i \in RouteIds : route'[i] = IF i \in gone THEN Removed ELSE route[i]
  BY DEF CommitRollback
<1>3. RequestOK(q, route, referenced)
  BY DEF RouteInv, RequestsOK
<1>4. CASE q.step = "idle"
  BY <1>1, <1>3, <1>4, KindsApart, IdleOK
<1>5. CASE q.step \in {"row", "apply", "update", "done", "failed"}
  <2>1. IsImport(q)
    BY <1>3, <1>5, KindsApart
  <2>2. Told(q) = q \/ \E names : Told(q) = Touched(q, names)
    BY <1>5
  <2>3. IsImport(Told(q)) /\ Told(q).step = q.step
    BY <2>1, <2>2, TouchedImport
  <2> QED
    BY <1>1, <1>5, <2>3, NothingCleared DEF RequestOK
<1>6. CASE q.step \in {"form", "save"}
  <2>1. q \in EditForms /\ (q.fresh => route[q.id] = q.shown)
    BY <1>3, <1>6, KindsApart
  <2>2. CASE q.id \in gone
    <3>1. Told(q) = [q EXCEPT !.fresh = FALSE]
      BY <1>6, <2>2
    <3>2. Told(q) \in EditForms /\ Told(q).fresh = FALSE /\ Told(q).step = q.step
      BY <2>1, <3>1 DEF EditForms
    <3> QED
      BY <1>1, <1>6, <3>2, NothingCleared DEF RequestOK
  <2>3. CASE q.id \notin gone
    <3>1. Told(q) = q /\ route'[q.id] = route[q.id]
      BY <1>2, <1>6, <2>1, <2>3 DEF EditForms
    <3> QED
      BY <1>1, <2>1, <3>1 DEF RequestOK
  <2> QED
    BY <2>2, <2>3
<1>7. CASE q.step \in {"preview", "find", "clear", "delete"}
  <2>1. Told(q) = q /\ q \in Rollbacks /\ Knows(q, route, referenced)
    BY <1>3, <1>7, KindsApart
  <2>2. gone \subseteq ClearedBy(request[w])
    <3>1. request[w].step = "find" /\ Knows(request[w], route, referenced)
      BY RollbackAt DEF CommitRollback, AtStep
    <3> QED
      BY <3>1 DEF Knows, ClearedBy
  <2>3. q.cleared \subseteq ClearedBy(q) /\ q.cleared \subseteq RouteIds
    BY <1>7, <2>1 DEF Knows, ClearedBy, Rollbacks
  <2>4. q.cleared \cap gone = {}
    BY <2>2, <2>3 DEF RouteInv, ClearedApart
  <2>5. \A i \in q.cleared : route'[i] = route[i]
    BY <1>2, <2>3, <2>4
  <2>6. \A i \in RouteIds : route[i] # NoRoute => route'[i] # NoRoute
    BY <1>2 DEF Removed, NoRoute
  <2>7. Knows(q, route', referenced)
    BY <2>1, <2>5, <2>6 DEF Knows
  <2> QED
    BY <1>1, <2>1, <2>7 DEF RequestOK
<1> QED
  BY <1>3, <1>4, <1>5, <1>6, <1>7, KindsApart

LEMMA CommitRollbackKeeps ==
  ASSUME RouteAssumption, RouteInv, NEW w \in RouteWorkers, CommitRollback(w)
  PROVE  RouteInv'
<1>1. /\ request[w] \in Rollbacks /\ Knows(request[w], route, referenced)
      /\ request[w].step = "find"
  BY RollbackAt DEF CommitRollback, AtStep
<1>2. /\ \A i \in RouteIds : route'[i] = IF i \in request[w].deleted THEN Removed ELSE route[i]
      /\ route' = [i \in RouteIds |-> route'[i]]
      /\ recorded' = recorded \ request[w].cleared /\ UNCHANGED referenced
      /\ request'[w] = NoRequest
      /\ request' = [v \in RouteWorkers |-> request'[v]]
  BY DEF CommitRollback
<1>3. RouteTypeInv'
  <2>1. \A i \in RouteIds : route'[i] \in AnyRow
    BY <1>2 DEF RouteInv, RouteTypeInv, AnyRow
  <2> QED
    BY <1>2, <2>1 DEF RouteInv, RouteTypeInv
<1>4. RoutesRecorded'
  <2> SUFFICES ASSUME NEW i \in RouteIds
               PROVE  i \in recorded' <=> route'[i] \in RouteRows
    BY DEF RoutesRecorded, IsRoute
  <2>1. i \in recorded <=> route[i] \in RouteRows
    BY DEF RouteInv, RoutesRecorded, IsRoute
  <2>2. CASE i \in request[w].deleted
    <3>1. route'[i] = Removed /\ Removed \notin RouteRows /\ i \in request[w].cleared
      BY <1>1, <1>2, <2>2, RowsNamed DEF Knows, AnyRow
    <3> QED
      BY <1>2, <3>1
  <2>3. CASE i \notin request[w].deleted
    <3>1. route'[i] = route[i]
      BY <1>2, <2>3
    <3>2. i \in request[w].cleared => route[i] \notin RouteRows
      BY <1>1, <2>3 DEF Knows
    <3> QED
      BY <1>2, <2>1, <3>1, <3>2
  <2> QED
    BY <2>2, <2>3
<1>5. RequestsOK'
  BY <1>2, CommitSeen, IdleOK DEF RequestsOK
<1>6. ClearedApart'
  <2>1. \A u, v \in RouteWorkers : u # v =>
           ClearedBy(request'[u]) \cap ClearedBy(request'[v]) = {}
    BY <1>2, CommitSeen, IdleOK DEF RouteInv, ClearedApart
  <2> QED
    BY <2>1 DEF ClearedApart, ClearedBy
<1> QED
  BY <1>3, <1>4, <1>5, <1>6 DEF RouteInv

--------------------------------------------------------------------------------
\* The request of an edit.
LEMMA EditAt ==
  ASSUME RouteInv, NEW w \in RouteWorkers, request[w].step \in {"form", "save"}
  PROVE  request[w] \in EditForms /\ (request[w].fresh => route[request[w].id] = request[w].shown)
BY KindsApart DEF RouteInv, RequestsOK

LEMMA EditStep ==
  ASSUME RouteInv, NEW w \in RouteWorkers, NEW q \in EditForms, GoOn(w, q),
         UNCHANGED <<route, recorded, referenced>>, q.fresh => route[q.id] = q.shown
  PROVE  RouteInv'
<1>1. RequestOK(q, route, referenced)
  BY DEF RequestOK
<1>2. ClearedBy(q) = {}
  BY DEF EditForms, ClearedBy
<1> QED
  BY <1>1, <1>2, GoOnStep

LEMMA OpenEditKeeps ==
  ASSUME RouteAssumption, RouteInv, NEW w \in RouteWorkers, OpenEdit(w)
  PROVE  RouteInv'
<1>1. PICK i \in RouteIds :
        IsRoute(i) /\ GoOn(w, [step |-> "form", id |-> i, shown |-> route[i], fresh |-> TRUE])
  BY DEF OpenEdit
<1> DEFINE q == [step |-> "form", id |-> i, shown |-> route[i], fresh |-> TRUE]
<1>2. q \in EditForms /\ route[q.id] = q.shown
  BY <1>1 DEF EditForms, IsRoute
<1>3. GoOn(w, q) /\ UNCHANGED <<route, recorded, referenced>>
  BY <1>1 DEF OpenEdit
<1> HIDE DEF q
<1> QED
  BY <1>2, <1>3, EditStep

LEMMA ReadEditedKeeps ==
  ASSUME RouteAssumption, RouteInv, NEW w \in RouteWorkers, ReadEdited(w)
  PROVE  RouteInv'
<1>1. request[w] \in EditForms /\ (request[w].fresh => route[request[w].id] = request[w].shown)
  BY EditAt DEF ReadEdited, AtStep
<1>2. UNCHANGED <<route, recorded, referenced>>
  BY DEF ReadEdited
<1>3. CASE GoOn(w, NoRequest)
  BY <1>2, <1>3, LeaveStep
<1>4. CASE GoOn(w, [request[w] EXCEPT !.step = "save"])
  <2> DEFINE q == [request[w] EXCEPT !.step = "save"]
  <2>1. /\ q \in EditForms /\ q.id = request[w].id /\ q.shown = request[w].shown
        /\ q.fresh = request[w].fresh
    BY <1>1 DEF EditForms
  <2>2. GoOn(w, q)
    BY <1>4
  <2> HIDE DEF q
  <2> QED
    BY <1>1, <1>2, <2>1, <2>2, EditStep
<1> QED
  BY <1>3, <1>4 DEF ReadEdited

\* A rollback that is about to delete a route whose history it has deleted finds
\* the new row of history that an edit has written.
LEMMA RecordKeeps ==
  ASSUME RouteAssumption, NEW q, NEW table, NEW refs, NEW i \in RouteIds,
         RequestOK(q, table, refs), table[i] \in RouteRows,
         q.step \in {"find", "clear", "delete"} => i \notin q.deleted
  PROVE  /\ RequestOK(Record(q, i), table, refs)
         /\ ClearedBy(Record(q, i)) \subseteq ClearedBy(q)
         /\ i \notin ClearedBy(Record(q, i))
<1>1. CASE q.step \in {"clear", "delete"}
  <2>1. q \in Rollbacks /\ Knows(q, table, refs)
    BY <1>1, KindsApart
  <2> DEFINE r == Record(q, i)
  <2>2. /\ r \in Rollbacks /\ r.step = q.step /\ r.cleared = q.cleared \ {i}
        /\ r.deleted = q.deleted /\ r.target = q.target
    BY <1>1, <2>1 DEF Record, Rollbacks
  <2> HIDE DEF r
  <2>3. Knows(r, table, refs)
    BY <1>1, <2>1, <2>2 DEF Knows
  <2>4. ClearedBy(r) = ClearedBy(q) \ {i}
    BY <1>1, <2>2 DEF ClearedBy
  <2> QED
    BY <2>2, <2>3, <2>4 DEF RequestOK, r
<1>2. CASE q.step \notin {"clear", "delete"}
  <2>1. Record(q, i) = q
    BY <1>2 DEF Record
  <2>2. i \notin ClearedBy(q)
    <3>1. CASE q.step = "find"
      <4>1. Knows(q, table, refs)
        BY <3>1, KindsApart
      <4> QED
        BY <3>1, <4>1 DEF Knows, ClearedBy
    <3> QED
      BY <1>2, <3>1 DEF ClearedBy
  <2> QED
    BY <2>1, <2>2
<1> QED
  BY <1>1, <1>2

LEMMA SaveEditKeeps ==
  ASSUME RouteAssumption, RouteInv, NEW w \in RouteWorkers, SaveEdit(w)
  PROVE  RouteInv'
<1>0. request[w] \in EditForms /\ (request[w].fresh => route[request[w].id] = request[w].shown)
  BY EditAt DEF SaveEdit, AtStep
<1> PICK i \in RouteIds : i = request[w].id
  BY <1>0 DEF EditForms
<1>1. IsRoute(i) /\ ~Deleting(i)
  BY <1>0 DEF SaveEdit, EditForms, IsRoute
<1>2. PICK r \in RouteRows :
        /\ route' = [route EXCEPT ![i] = r]
        /\ request' = [v \in RouteWorkers |-> IF v = w THEN NoRequest
                                              ELSE Record(Notice(request[v], i), i)]
  BY DEF SaveEdit
<1>3. recorded' = recorded \cup {i} /\ UNCHANGED referenced
  BY DEF SaveEdit
<1>4. /\ route' \in [RouteIds -> AnyRow] /\ IsRoute(i)'
      /\ \A j \in RouteIds \ {i} : route'[j] = route[j]
  BY <1>1, <1>2 DEF RouteInv, RouteTypeInv, AnyRow, IsRoute
<1>5. RouteTypeInv'
  BY <1>1, <1>2, <1>3, <1>4 DEF RouteInv, RouteTypeInv
<1>6. RoutesRecorded'
  BY <1>3, <1>4 DEF RouteInv, RoutesRecorded, IsRoute
<1>7. ASSUME NEW v \in RouteWorkers \ {w}
      PROVE  /\ RequestOK(request'[v], route', referenced)
             /\ ClearedBy(request'[v]) \subseteq ClearedBy(request[v])
  <2> DEFINE q == Notice(request[v], i)
  <2>1. request[v].step \in {"find", "clear", "delete"} => i \notin request[v].deleted
    BY <1>1 DEF Deleting
  <2>2. RequestOK(q, route', referenced) /\ q.step = request[v].step
        /\ ClearedBy(q) = ClearedBy(request[v])
    BY <1>1, <1>4, <2>1, NoticeKeeps DEF RouteInv, RequestsOK
  <2>3. q.step \in {"find", "clear", "delete"} => i \notin q.deleted
    BY <2>1, <2>2 DEF Notice
  <2>4. request'[v] = Record(q, i) /\ route'[i] \in RouteRows
    BY <1>2, <1>4 DEF IsRoute
  <2> HIDE DEF q
  <2>5. /\ RequestOK(Record(q, i), route', referenced)
        /\ ClearedBy(Record(q, i)) \subseteq ClearedBy(q)
    BY <2>2, <2>3, <2>4, RecordKeeps
  <2> QED
    BY <2>2, <2>4, <2>5
<1>8. RequestOK(request'[w], route', referenced) /\ ClearedBy(request'[w]) = {}
  BY <1>2, IdleOK
<1>9. RequestsOK'
  BY <1>3, <1>7, <1>8 DEF RequestsOK
<1>10. ClearedApart'
  <2>1. \A u, v \in RouteWorkers : u # v =>
           ClearedBy(request'[u]) \cap ClearedBy(request'[v]) = {}
    BY <1>7, <1>8 DEF RouteInv, ClearedApart
  <2> QED
    BY <2>1 DEF ClearedApart, ClearedBy
<1> QED
  BY <1>5, <1>6, <1>9, <1>10 DEF RouteInv

LEMMA SaveUnchangedKeeps ==
  ASSUME RouteAssumption, RouteInv, NEW w \in RouteWorkers, SaveUnchanged(w)
  PROVE  RouteInv'
<1>1. request[w] \in EditForms /\ (request[w].fresh => route[request[w].id] = request[w].shown)
  BY EditAt DEF SaveUnchanged, AtStep
<1> PICK i \in RouteIds : i = request[w].id
  BY <1>1 DEF EditForms
<1>2. IsRoute(i) /\ ~Deleting(i)
  BY <1>1 DEF SaveUnchanged, EditForms, IsRoute
<1>3. Change(w, NoRequest, i) /\ UNCHANGED <<route, recorded, referenced>>
  BY DEF SaveUnchanged
<1>4. /\ route' \in [RouteIds -> AnyRow] /\ IsRoute(i)' /\ i \in recorded'
      /\ \A j \in RouteIds \ {i} : route'[j] = route[j]
  BY <1>2, <1>3 DEF RouteInv, RouteTypeInv, IsRoute, RoutesRecorded
<1> QED
  BY <1>2, <1>3, <1>4, ChangeStep

--------------------------------------------------------------------------------
LEMMA RouteInvInit ==
  ASSUME RouteAssumption, RouteInit
  PROVE  RouteInv
<1>1. RouteTypeInv
  <2>1. route \in [RouteIds -> AnyRow]
    BY DEF RouteInit, AnyRow
  <2> QED
    BY <2>1 DEF RouteInit, RouteTypeInv
<1>2. RoutesRecorded
  BY DEF RouteInit, RoutesRecorded
<1>3. RequestsOK /\ ClearedApart
  BY IdleOK DEF RouteInit, RequestsOK, ClearedApart
<1> QED
  BY <1>1, <1>2, <1>3 DEF RouteInv

LEMMA RouteInvStep ==
  ASSUME RouteAssumption, RouteInv, [RouteNext]_routeVars
  PROVE  RouteInv'
<1>1. CASE CreateRoute
  BY <1>1, CreateRouteKeeps
<1>2. ASSUME NEW i \in RouteIds, Refer(i) PROVE RouteInv'
  BY <1>2, ReferKeeps
<1>3. ASSUME NEW w \in RouteWorkers,
             \/ StartImport(w) \/ ReadRow(w) \/ SkipRow(w) \/ FetchRoute(w) \/ InsertRow(w)
             \/ InsertFails(w) \/ UpdateRow(w) \/ EndImport(w)
      PROVE  RouteInv'
  BY <1>3, StartImportKeeps, ReadRowKeeps, SkipRowKeeps, FetchRouteKeeps, InsertRowKeeps,
     InsertFailsKeeps, UpdateRowKeeps, EndImportKeeps
<1>4. ASSUME NEW w \in RouteWorkers,
             \/ StartRollback(w) \/ PreviewRoute(w) \/ EndPreview(w) \/ FindRoute(w)
             \/ ClearHistory(w) \/ DeleteRoute(w) \/ CommitRollback(w)
      PROVE  RouteInv'
  BY <1>4, StartRollbackKeeps, PreviewRouteKeeps, EndPreviewKeeps, FindRouteKeeps,
     ClearHistoryKeeps, DeleteRouteKeeps, CommitRollbackKeeps
<1>5. ASSUME NEW w \in RouteWorkers,
             OpenEdit(w) \/ ReadEdited(w) \/ SaveEdit(w) \/ SaveUnchanged(w) \/ Leave(w)
      PROVE  RouteInv'
  BY <1>5, OpenEditKeeps, ReadEditedKeeps, SaveEditKeeps, SaveUnchangedKeeps, LeaveStep DEF Leave
<1>6. CASE UNCHANGED routeVars
  BY <1>6 DEF routeVars, RouteInv, RouteTypeInv, RoutesRecorded, IsRoute, RequestsOK, ClearedApart,
              ClearedBy
<1> QED
  BY <1>1, <1>2, <1>3, <1>4, <1>5, <1>6 DEF RouteNext

\* Rows, requests and what they know of each other are as declared, whichever
\* imports, rollbacks and edits overlap.
THEOREM RouteInvariant == RouteSpec => []RouteInv
<1>1. RouteInit => RouteInv
  BY RouteAssumption, RouteInvInit
<1>2. RouteInv /\ [RouteNext]_routeVars => RouteInv'
  BY RouteAssumption, RouteInvStep
<1> QED
  BY <1>1, <1>2, PTL DEF RouteSpec

\* apply_route_rollback deletes the history of a route before the route
\* (importer.py:854); the two never come apart.
THEOREM RoutesKeepTheirHistory == RouteSpec => []RoutesRecorded
<1>1. RouteInv => RoutesRecorded
  BY DEF RouteInv
<1> QED
  BY <1>1, RouteInvariant, PTL

\* Only a rollback removes routes.
LEMMA OthersKeepRoutes ==
  ASSUME RouteInv, RouteNext, NEW i \in RouteIds, IsRoute(i), ~IsRoute(i)'
  PROVE  \E w \in RouteWorkers : CommitRollback(w)
<1>1. route'[i] # route[i]
  BY DEF IsRoute
<1>2. ASSUME CreateRoute PROVE FALSE
  <2>1. PICK j \in RouteIds : \E row :
          /\ route[j] = NoRoute /\ route' = [route EXCEPT ![j] = row]
    BY <1>2 DEF CreateRoute, NewRoute
  <2>2. route[i] # NoRoute
    BY RouteAssumption, RowsNamed DEF IsRoute, AnyRow
  <2> QED
    BY <1>1, <2>1, <2>2 DEF RouteInv, RouteTypeInv
<1>3. ASSUME NEW w \in RouteWorkers, InsertRow(w) PROVE FALSE
  <2>1. PICK j \in RouteIds : \E row :
          /\ route[j] = NoRoute /\ route' = [route EXCEPT ![j] = row]
    BY <1>3 DEF InsertRow, NewRoute
  <2>2. route[i] # NoRoute
    BY RouteAssumption, RowsNamed DEF IsRoute, AnyRow
  <2> QED
    BY <1>1, <2>1, <2>2 DEF RouteInv, RouteTypeInv
<1>4. ASSUME NEW w \in RouteWorkers, UpdateRow(w) PROVE FALSE
  <2>1. Row(w).provider \in KnownProviders
    BY <1>4, ImportAt DEF UpdateRow, AtStep, IsImport, Row
  <2>2. PICK j \in RouteIds : route' = [route EXCEPT ![j].provider = Row(w).provider]
    BY <1>1, <1>4 DEF UpdateRow, Named
  <2>3. route'[i] = [route[i] EXCEPT !.provider = Row(w).provider]
    BY <1>1, <2>2 DEF RouteInv, RouteTypeInv
  <2> QED
    BY <2>1, <2>3 DEF IsRoute, RouteRows
<1>5. ASSUME NEW w \in RouteWorkers, SaveEdit(w) PROVE FALSE
  <2>1. PICK r \in RouteRows : route' = [route EXCEPT ![request[w].id] = r]
    BY <1>5 DEF SaveEdit
  <2> QED
    BY <1>1, <2>1 DEF RouteInv, RouteTypeInv, IsRoute
<1> QED
  BY <1>1, <1>2, <1>3, <1>4, <1>5
     DEF RouteNext, Refer, StartImport, ReadRow, SkipRow, FetchRoute, InsertFails, EndImport,
         StartRollback, PreviewRoute, EndPreview, FindRoute, ClearHistory, DeleteRoute, OpenEdit,
         ReadEdited, SaveUnchanged, Leave

\* A reference that is made after the preview of a rollback keeps its route
\* (importer.py:816).
THEOREM RollbacksSpareReferenced == RouteSpec => RollbackSpares
<1>1. ASSUME RouteInv, RouteNext, NEW i \in RouteIds, IsRoute(i), ~IsRoute(i)'
      PROVE  i \notin referenced
  <2>1. PICK w \in RouteWorkers : CommitRollback(w)
    BY <1>1, OthersKeepRoutes
  <2>2. i \in request[w].deleted
    BY <1>1, <2>1 DEF CommitRollback, IsRoute
  <2>3. Knows(request[w], route, referenced)
    BY <1>1, <2>1, RollbackAt DEF CommitRollback, AtStep
  <2> QED
    BY <2>2, <2>3 DEF Knows
<1>2. RouteInv /\ [RouteNext]_routeVars =>
        [\A i \in RouteIds : IsRoute(i) /\ ~IsRoute(i)' => i \notin referenced]_routeVars
  BY <1>1
<1> QED
  BY <1>2, RouteInvariant, PTL DEF RouteSpec, RollbackSpares

\* A form that is saved while another request changes or removes routes goes on.
LEMMA SaveGoesOn ==
  ASSUME NEW q \in EditForms, q.step = "save"
  PROVE  /\ [q EXCEPT !.fresh = FALSE].step = "save"
         /\ \A i : Notice(q, i).step = "save" /\ Record(Notice(q, i), i).step = "save"
<1>1. [q EXCEPT !.fresh = FALSE].step = "save"
  BY DEF EditForms
<1>2. ASSUME NEW i PROVE Notice(q, i).step = "save"
  <2>1. Notice(q, i) = q \/ Notice(q, i) = [q EXCEPT !.fresh = FALSE]
    BY DEF Notice
  <2> QED
    BY <1>1, <2>1
<1>3. \A i : Record(Notice(q, i), i) = Notice(q, i)
  BY <1>2 DEF Record
<1> QED
  BY <1>1, <1>2, <1>3

\* The UPDATE of an edit form finds its row as the form displayed it
\* (repository.py:1854), whichever import or edit came in between.
THEOREM EditsReplaceWhatTheyShow == RouteSpec => EditsSeen
<1>1. ASSUME RouteInv, RouteNext, NEW w \in RouteWorkers, AtStep(w, "save"),
             route'[request[w].id] # route[request[w].id], request'[w].step = "idle"
      PROVE  route[request[w].id] = request[w].shown
  <2>1. /\ request[w] \in EditForms /\ request[w].step = "save"
        /\ request[w].fresh => route[request[w].id] = request[w].shown
    BY <1>1, EditAt DEF AtStep
  <2>2. ~(route' = route)
    BY <1>1
  <2>3. ~CreateRoute
    BY <1>1, <2>1, SaveGoesOn DEF CreateRoute
  <2>4. ASSUME NEW v \in RouteWorkers, InsertRow(v) \/ UpdateRow(v) PROVE FALSE
    <3>1. PICK q, i : Change(v, q, i)
      BY <2>2, <2>4 DEF InsertRow, UpdateRow
    <3>2. v # w
      BY <2>1, <2>4 DEF InsertRow, UpdateRow, AtStep
    <3> QED
      BY <1>1, <2>1, <3>1, <3>2, SaveGoesOn DEF Change
  <2>5. ASSUME NEW v \in RouteWorkers, CommitRollback(v) PROVE FALSE
    <3>1. v # w
      BY <2>1, <2>5 DEF CommitRollback, AtStep
    <3>2. request'[w] = request[w] \/ request'[w] = [request[w] EXCEPT !.fresh = FALSE]
      BY <2>1, <2>5, <3>1 DEF CommitRollback
    <3> QED
      BY <1>1, <2>1, <3>2, SaveGoesOn
  <2>6. ASSUME NEW v \in RouteWorkers, SaveEdit(v) PROVE v = w
    <3>1. v # w => request'[w].step = "save"
      BY <2>1, <2>6, SaveGoesOn DEF SaveEdit
    <3> QED
      BY <1>1, <3>1
  <2>7. SaveEdit(w)
    BY <1>1, <2>2, <2>3, <2>4, <2>5, <2>6
       DEF RouteNext, Refer, StartImport, ReadRow, SkipRow, FetchRoute, InsertFails, EndImport,
           StartRollback, PreviewRoute, EndPreview, FindRoute, ClearHistory, DeleteRoute,
           OpenEdit, ReadEdited, SaveUnchanged, Leave
  <2> QED
    BY <2>1, <2>7 DEF SaveEdit
<1>2. RouteInv /\ [RouteNext]_routeVars =>
        [\A w \in RouteWorkers :
           AtStep(w, "save") /\ route'[request[w].id] # route[request[w].id]
           /\ request'[w].step = "idle" => route[request[w].id] = request[w].shown]_routeVars
  BY <1>1
<1> QED
  BY <1>2, RouteInvariant, PTL DEF RouteSpec, EditsSeen

--------------------------------------------------------------------------------
(* What an import has brought about so far.                                *)

ImportSteps == {"row", "apply", "update", "done"}

\* Row k of the file of q is the first of its route, can be applied, and nobody
\* else has changed the route since the import began.
Counts(q, k) ==
    /\ \A j \in 1 .. k - 1 : q.file[j].name # q.file[k].name
    /\ q.file[k].provider \in KnownProviders
    /\ q.file[k].name \notin q.touched

\* Rows that an import has left behind.
Before(q, n) == {k \in DOMAIN q.file : k < n}
Passed(q) == IF q.step = "done" THEN DOMAIN q.file ELSE Before(q, q.at)

\* The rows that count hold in the table, and the row that is being applied is
\* the first of its route, which an update will find unless somebody touches it.
RowsHold(q, table) ==
    /\ q.step \in ImportSteps =>
         \A k \in Passed(q) : Counts(q, k) => \E i \in RouteIds : table[i] = q.file[k]
    /\ q.step = "row" =>
         q.seen = {q.file[j].name : j \in Before(q, q.at)}
    /\ q.step \in {"apply", "update"} =>
         /\ q.seen = {q.file[j].name : j \in Before(q, q.at + 1)}
         /\ \A j \in 1 .. q.at - 1 : q.file[j].name # q.file[q.at].name
         /\ q.step = "update" \/ q.exists =>
              q.file[q.at].name \in q.touched
              \/ \E i \in RouteIds : table[i].name = q.file[q.at].name

HoldInv == \A w \in RouteWorkers : RowsHold(request[w], route)

\* Requests that are no imports have nothing to hold.
LEMMA NothingToHold ==
  ASSUME NEW q, NEW table, q.step \notin ImportSteps
  PROVE  RowsHold(q, table)
BY DEF RowsHold, ImportSteps

\* The routes whose names others have touched are left out.
LEMMA TouchedHolds ==
  ASSUME NEW q, IsImport(q), q.step \in ImportSteps, NEW names, NEW old, NEW new, RowsHold(q, old),
         \A i \in RouteIds : new[i] = old[i] \/ old[i].name \in names
  PROVE  RowsHold(Touched(q, names), new)
<1> DEFINE r == Touched(q, names)
           added == names \cap {q.file[k].name : k \in DOMAIN q.file}
<1>1. /\ r.step = q.step /\ r.file = q.file /\ r.at = q.at /\ r.seen = q.seen
      /\ r.exists = q.exists /\ r.touched = q.touched \cup added
  BY DEF Touched, IsImport, ImportFields
<1> HIDE DEF r
<1>2. ASSUME NEW k \in Passed(r), Counts(r, k) PROVE \E i \in RouteIds : new[i] = q.file[k]
  <2>1. k \in Passed(q) /\ Counts(q, k) /\ k \in DOMAIN q.file
    BY <1>1, <1>2 DEF Passed, Before, Counts
  <2>2. PICK i \in RouteIds : old[i] = q.file[k]
    BY <2>1 DEF RowsHold
  <2>3. q.file[k].name \notin names
    BY <1>1, <1>2, <2>1 DEF Counts
  <2> QED
    BY <2>2, <2>3
<1>3. ASSUME q.step \in {"apply", "update"}, q.step = "update" \/ q.exists,
             q.file[q.at].name \notin r.touched
      PROVE  \E i \in RouteIds : new[i].name = q.file[q.at].name
  <2>1. q.at \in DOMAIN q.file
    BY <1>3 DEF IsImport
  <2>2. q.file[q.at].name \notin names /\ q.file[q.at].name \notin q.touched
    BY <1>1, <1>3, <2>1
  <2>3. PICK i \in RouteIds : old[i].name = q.file[q.at].name
    BY <1>3, <2>2 DEF RowsHold
  <2> QED
    BY <2>2, <2>3
<1> QED
  BY <1>1, <1>2, <1>3 DEF RowsHold, Before, r

\* A step of one request that changes no route.
LEMMA GoOnHolds ==
  ASSUME HoldInv, RouteTypeInv, NEW w \in RouteWorkers, NEW q, GoOn(w, q), UNCHANGED route,
         RowsHold(q, route)
  PROVE  HoldInv'
<1>1. ASSUME NEW v \in RouteWorkers PROVE RowsHold(request'[v], route)
  <2>1. request'[v] = IF v = w THEN q ELSE request[v]
    BY DEF GoOn, RouteTypeInv
  <2> QED
    BY <2>1 DEF HoldInv
<1> QED
  BY <1>1 DEF HoldInv

\* What another request learns of a route that is created or changed.
LEMMA NoticeHolds ==
  ASSUME RouteAssumption, HoldInv, RouteInv, NEW v \in RouteWorkers, NEW i \in RouteIds,
         \A j \in RouteIds \ {i} : route'[j] = route[j]
  PROVE  /\ RowsHold(Notice(request[v], i), route')
         /\ RowsHold(Record(Notice(request[v], i), i), route')
<1> DEFINE q == request[v]
           names == {route[i].name, route'[i].name}
<1>1. RowsHold(q, route) /\ RequestOK(q, route, referenced)
  BY DEF HoldInv, RouteInv, RequestsOK
<1>2. CASE q.step \in ImportSteps
  <2>1. Notice(q, i) = Touched(q, names) /\ IsImport(q)
    BY <1>1, <1>2, KindsApart DEF Notice, ImportSteps
  <2>2. \A j \in RouteIds : route'[j] = route[j] \/ route[j].name \in names
    OBVIOUS
  <2> HIDE DEF names, q
  <2>3. RowsHold(Touched(q, names), route') /\ Touched(q, names).step = q.step
    BY <1>1, <1>2, <2>1, <2>2, TouchedHolds, TouchedImport
  <2> QED
    BY <1>2, <2>1, <2>3 DEF Record, ImportSteps, q
<1>3. CASE q.step \notin ImportSteps
  <2>1. Notice(q, i).step = q.step
    <3>1. CASE q.step \in {"form", "save"}
      BY <1>1, <3>1, KindsApart DEF Notice, EditForms
    <3>2. CASE q.step \notin {"form", "save"}
      BY <1>3, <3>2 DEF Notice, ImportSteps
    <3> QED
      BY <3>1, <3>2
  <2>2. Record(Notice(q, i), i).step = q.step
    <3>1. CASE q.step \in {"clear", "delete"}
      <4>1. Notice(q, i) = q /\ q \in Rollbacks
        BY <1>1, <3>1, KindsApart DEF Notice
      <4> QED
        BY <3>1, <4>1 DEF Record, Rollbacks
    <3>2. CASE q.step \notin {"clear", "delete"}
      BY <2>1, <3>2 DEF Record
    <3> QED
      BY <3>1, <3>2
  <2> QED
    BY <1>3, <2>1, <2>2, NothingToHold
<1> QED
  BY <1>2, <1>3

--------------------------------------------------------------------------------
\* The fields of an import.
LEMMA ImportIs ==
  ASSUME RouteAssumption, RouteInv, HoldInv, NEW w \in RouteWorkers, request[w].step \in ImportSteps
  PROVE  /\ IsImport(request[w]) /\ RowsHold(request[w], route)
         /\ request[w] = [k \in ImportFields |-> request[w][k]]
         /\ request[w].at \in Nat \ {0}
         /\ DOMAIN request[w].file = 1 .. Len(request[w].file) /\ Len(request[w].file) \in Nat
         /\ \A k \in DOMAIN request[w].file : request[w].file[k].name \in RouteNames
<1>1. IsImport(request[w])
  BY ImportAt DEF ImportSteps
<1>2. request[w].file \in Seq(FileRows)
  BY <1>1 DEF IsImport, RouteAssumption
<1>3. /\ DOMAIN request[w].file = 1 .. Len(request[w].file) /\ Len(request[w].file) \in Nat
      /\ \A k \in DOMAIN request[w].file : request[w].file[k] \in FileRows
  BY <1>2
<1> QED
  BY <1>1, <1>3 DEF HoldInv, IsImport, FileRows

\* An import leaves its row behind: it held already, or does not count, or holds now.
LEMMA NextRowHolds ==
  ASSUME RouteAssumption, RouteInv, HoldInv, NEW w \in RouteWorkers, NEW new, NEW q,
         request[w].step \in {"row", "apply", "update"},
         \/ /\ request[w].step = "row" /\ Row(w).name \in request[w].seen
            /\ request[w].at \in DOMAIN request[w].file
         \/ /\ request[w].step # "row"
            /\ Counts(request[w], request[w].at) => \E i \in RouteIds : new[i] = Row(w),
         \A k \in Before(request[w], request[w].at) :
             Counts(request[w], k) /\ (\E i \in RouteIds : route[i] = request[w].file[k])
                => \E i \in RouteIds : new[i] = request[w].file[k],
         q.step = "row", q.at = request[w].at + 1, q.file = request[w].file,
         q.seen = request[w].seen, q.touched = request[w].touched
  PROVE  RowsHold(q, new)
<1> DEFINE r == request[w]
<1>1. /\ IsImport(r) /\ RowsHold(r, route) /\ r.at \in Nat \ {0}
      /\ DOMAIN r.file = 1 .. Len(r.file) /\ Len(r.file) \in Nat
  BY ImportIs DEF ImportSteps
<1>2. r.at \in DOMAIN r.file
  BY <1>1 DEF IsImport
<1>3. Before(q, q.at) = Before(r, r.at) \cup {r.at}
  BY <1>1, <1>2 DEF Before
<1>4. q.seen = {q.file[j].name : j \in Before(q, q.at)}
  <2>1. CASE r.step = "row"
    <3>1. r.seen = {r.file[j].name : j \in Before(r, r.at)} /\ r.file[r.at].name \in r.seen
      BY <1>1, <2>1 DEF RowsHold, Row
    <3> QED
      BY <1>3, <3>1
  <2>2. CASE r.step # "row"
    <3>1. r.seen = {r.file[j].name : j \in Before(r, r.at + 1)}
      BY <1>1, <2>2 DEF RowsHold
    <3>2. Before(r, r.at + 1) = Before(q, q.at)
      BY DEF Before
    <3> QED
      BY <3>1, <3>2
  <2> QED
    BY <2>1, <2>2
<1>5. ASSUME NEW k \in Passed(q), Counts(q, k) PROVE \E i \in RouteIds : new[i] = q.file[k]
  <2>1. Counts(r, k) /\ k \in Before(r, r.at) \cup {r.at}
    BY <1>3, <1>5 DEF Counts, Passed
  <2>2. CASE k \in Before(r, r.at)
    <3>1. k \in Passed(r)
      BY <2>2 DEF Passed
    <3>2. \E i \in RouteIds : route[i] = r.file[k]
      BY <1>1, <2>1, <3>1 DEF RowsHold, ImportSteps
    <3> QED
      BY <2>1, <2>2, <3>2
  <2>3. CASE k = r.at /\ r.step # "row"
    BY <2>1, <2>3 DEF Row
  <2>4. CASE k = r.at /\ r.step = "row"
    <3>1. r.seen = {r.file[j].name : j \in Before(r, r.at)} /\ r.file[r.at].name \in r.seen
      BY <1>1, <2>4 DEF RowsHold, Row
    <3>2. PICK j \in Before(r, r.at) : r.file[j].name = r.file[r.at].name
      BY <3>1
    <3>3. j \in 1 .. k - 1
      BY <1>1, <2>4, <3>2 DEF Before
    <3> QED
      BY <2>1, <2>4, <3>2, <3>3 DEF Counts
  <2> QED
    BY <2>1, <2>2, <2>3, <2>4
<1> QED
  BY <1>4, <1>5 DEF RowsHold

LEMMA NextRowIs ==
  ASSUME NEW w \in RouteWorkers, IsImport(request[w]), NEW q,
         q = NextRow(w) \/ q = NoteWritten(w)
  PROVE  /\ q.step = "row" /\ q.at = request[w].at + 1 /\ q.file = request[w].file
         /\ q.seen = request[w].seen /\ q.touched = request[w].touched
<1>1. /\ NextRow(w) = [k \in ImportFields |-> NextRow(w)[k]]
      /\ NextRow(w).step = "row" /\ NextRow(w).at = request[w].at + 1
      /\ NextRow(w).file = request[w].file /\ NextRow(w).seen = request[w].seen
      /\ NextRow(w).touched = request[w].touched
  BY DEF NextRow, IsImport, ImportFields
<1> QED
  BY <1>1 DEF NoteWritten, ImportFields

LEMMA StartImportHolds ==
  ASSUME RouteAssumption, RouteInv, HoldInv, NEW w \in RouteWorkers, StartImport(w)
  PROVE  HoldInv'
<1>1. PICK file \in Files :
        GoOn(w, [step |-> "row", file |-> file, at |-> 1, seen |-> {}, exists |-> FALSE,
                 wrote |-> {}, touched |-> {}])
  BY DEF StartImport
<1> DEFINE q == [step |-> "row", file |-> file, at |-> 1, seen |-> {}, exists |-> FALSE,
                 wrote |-> {}, touched |-> {}]
<1>2. q.step = "row" /\ q.file = file /\ q.at = 1 /\ q.seen = {} /\ GoOn(w, q)
  BY <1>1
<1>3. UNCHANGED route /\ RouteTypeInv
  BY DEF StartImport, RouteInv
<1>4. file \in Seq(FileRows)
  BY DEF RouteAssumption
<1> HIDE DEF q
<1>5. Before(q, q.at) = {} /\ Passed(q) = {}
  BY <1>2, <1>4 DEF Before, Passed
<1>6. RowsHold(q, route)
  BY <1>2, <1>5 DEF RowsHold
<1> QED
  BY <1>2, <1>3, <1>6, GoOnHolds

LEMMA ReadRowHolds ==
  ASSUME RouteAssumption, RouteInv, HoldInv, NEW w \in RouteWorkers, ReadRow(w)
  PROVE  HoldInv'
<1> DEFINE q == request[w]
           r == [q EXCEPT !.step = "apply", !.exists = Named(Row(w).name) # {},
                          !.seen = @ \cup {Row(w).name}]
<1>1. q.step = "row" /\ q.at <= Len(q.file) /\ UNCHANGED route /\ RouteTypeInv
  BY DEF ReadRow, AtStep, RouteInv
<1>2. /\ IsImport(q) /\ RowsHold(q, route) /\ q.at \in Nat \ {0}
      /\ q = [k \in ImportFields |-> q[k]]
      /\ DOMAIN q.file = 1 .. Len(q.file) /\ Len(q.file) \in Nat
  BY <1>1, ImportIs DEF ImportSteps
<1>3. q.at \in DOMAIN q.file
  BY <1>1, <1>2
<1>4. CASE Row(w).name \in q.seen
  <2>1. GoOn(w, NextRow(w))
    BY <1>4 DEF ReadRow
  <2> DEFINE n == NextRow(w)
  <2>2. /\ n.step = "row" /\ n.at = q.at + 1 /\ n.file = q.file
        /\ n.seen = q.seen /\ n.touched = q.touched
    BY <1>2, NextRowIs
  <2> HIDE DEF n
  <2>3. RowsHold(n, route)
    BY <1>1, <1>3, <1>4, <2>2, NextRowHolds
  <2> QED
    BY <1>1, <2>1, <2>3, GoOnHolds DEF n
<1>5. CASE Row(w).name \notin q.seen
  <2>1. GoOn(w, r)
    BY <1>5 DEF ReadRow
  <2>2. /\ r.step = "apply" /\ r.file = q.file /\ r.at = q.at /\ r.touched = q.touched
        /\ r.seen = q.seen \cup {Row(w).name} /\ (r.exists <=> Named(Row(w).name) # {})
    BY <1>2 DEF ImportFields
  <2> HIDE DEF r
  <2>3. q.seen = {q.file[j].name : j \in Before(q, q.at)}
    BY <1>1, <1>2 DEF RowsHold
  <2>4. Before(r, r.at + 1) = Before(q, q.at) \cup {q.at} /\ Before(r, r.at) = Before(q, q.at)
    BY <1>2, <1>3, <2>2 DEF Before
  <2>5. r.seen = {r.file[j].name : j \in Before(r, r.at + 1)}
    BY <2>2, <2>3, <2>4 DEF Row
  <2>6. \A j \in 1 .. r.at - 1 : r.file[j].name # r.file[r.at].name
    <3> SUFFICES ASSUME NEW j \in 1 .. r.at - 1 PROVE r.file[j].name # r.file[r.at].name
      OBVIOUS
    <3>1. j \in Before(q, q.at)
      BY <1>2, <1>3, <2>2 DEF Before
    <3> QED
      BY <1>5, <2>2, <2>3, <3>1 DEF Row
  <2>7. r.exists => \E i \in RouteIds : route[i].name = r.file[r.at].name
    BY <2>2 DEF Named, Row
  <2>8. \A k \in Passed(r) : Counts(r, k) => \E i \in RouteIds : route[i] = r.file[k]
    <3>1. Passed(r) = Passed(q)
      BY <1>1, <2>2, <2>4 DEF Passed
    <3>2. \A k \in Passed(q) : Counts(q, k) => \E i \in RouteIds : route[i] = q.file[k]
      BY <1>1, <1>2 DEF RowsHold, ImportSteps
    <3>3. \A k : Counts(r, k) <=> Counts(q, k)
      BY <2>2 DEF Counts
    <3> QED
      BY <2>2, <3>1, <3>2, <3>3
  <2>9. RowsHold(r, route)
    BY <2>2, <2>5, <2>6, <2>7, <2>8 DEF RowsHold
  <2> QED
    BY <1>1, <2>1, <2>9, GoOnHolds
<1> QED
  BY <1>4, <1>5

LEMMA SkipRowHolds ==
  ASSUME RouteAssumption, RouteInv, HoldInv, NEW w \in RouteWorkers, SkipRow(w)
  PROVE  HoldInv'
<1> DEFINE q == request[w]
           n == NextRow(w)
<1>1. /\ q.step = "apply" /\ UNCHANGED route /\ RouteTypeInv /\ GoOn(w, n)
      /\ Row(w).provider \notin KnownProviders \/ (q.exists /\ Named(Row(w).name) = {})
  BY DEF SkipRow, AtStep, RouteInv
<1>2. IsImport(q) /\ RowsHold(q, route)
  BY <1>1, ImportIs DEF ImportSteps
<1>3. ~Counts(q, q.at)
  <2>1. q.exists => q.file[q.at].name \in q.touched
                    \/ \E i \in RouteIds : route[i].name = q.file[q.at].name
    BY <1>1, <1>2 DEF RowsHold
  <2> QED
    BY <1>1, <2>1 DEF Counts, Row, Named
<1>4. /\ n.step = "row" /\ n.at = q.at + 1 /\ n.file = q.file
      /\ n.seen = q.seen /\ n.touched = q.touched
  BY <1>2, NextRowIs
<1> HIDE DEF n
<1>5. RowsHold(n, route)
  BY <1>1, <1>3, <1>4, NextRowHolds
<1> QED
  BY <1>1, <1>5, GoOnHolds

LEMMA FetchRouteHolds ==
  ASSUME RouteAssumption, RouteInv, HoldInv, NEW w \in RouteWorkers, FetchRoute(w)
  PROVE  HoldInv'
<1> DEFINE q == request[w]
           r == [q EXCEPT !.step = "update"]
<1>1. /\ q.step = "apply" /\ UNCHANGED route /\ RouteTypeInv /\ GoOn(w, r)
      /\ Named(Row(w).name) # {}
  BY DEF FetchRoute, AtStep, RouteInv
<1>2. IsImport(q) /\ RowsHold(q, route) /\ q = [k \in ImportFields |-> q[k]]
  BY <1>1, ImportIs DEF ImportSteps
<1>3. /\ r.step = "update" /\ r.file = q.file /\ r.at = q.at /\ r.touched = q.touched
      /\ r.seen = q.seen
  BY <1>2 DEF ImportFields
<1> HIDE DEF r
<1>4. \A k : Counts(r, k) <=> Counts(q, k)
  BY <1>3 DEF Counts
<1>5. Passed(r) = Passed(q) /\ Before(r, r.at + 1) = Before(q, q.at + 1)
  BY <1>1, <1>3 DEF Passed, Before
<1>6. \A k \in Passed(q) : Counts(q, k) => \E i \in RouteIds : route[i] = q.file[k]
  BY <1>1, <1>2 DEF RowsHold, ImportSteps
<1>7. /\ q.seen = {q.file[j].name : j \in Before(q, q.at + 1)}
      /\ \A j \in 1 .. q.at - 1 : q.file[j].name # q.file[q.at].name
  BY <1>1, <1>2 DEF RowsHold
<1>8. \E i \in RouteIds : route[i].name = q.file[q.at].name
  BY <1>1 DEF Named, Row
<1>9. RowsHold(r, route)
  BY <1>3, <1>4, <1>5, <1>6, <1>7, <1>8 DEF RowsHold
<1> QED
  BY <1>1, <1>9, GoOnHolds

\* An import that fails or ends.
LEMMA InsertFailsHolds ==
  ASSUME RouteAssumption, RouteInv, HoldInv, NEW w \in RouteWorkers, InsertFails(w)
  PROVE  HoldInv'
<1> DEFINE r == [request[w] EXCEPT !.step = "failed", !.seen = {}, !.touched = {}]
<1>1. request[w].step = "apply" /\ UNCHANGED route /\ RouteTypeInv /\ GoOn(w, r)
  BY DEF InsertFails, AtStep, RouteInv
<1>2. r.step = "failed"
  BY <1>1, ImportIs DEF ImportSteps, ImportFields
<1> HIDE DEF r
<1>3. RowsHold(r, route)
  BY <1>2, NothingToHold DEF ImportSteps
<1> QED
  BY <1>1, <1>3, GoOnHolds

LEMMA EndImportHolds ==
  ASSUME RouteAssumption, RouteInv, HoldInv, NEW w \in RouteWorkers, EndImport(w)
  PROVE  HoldInv'
<1> DEFINE q == request[w]
           r == [q EXCEPT !.step = "done", !.seen = {}, !.wrote = {}]
<1>1. q.step = "row" /\ q.at > Len(q.file) /\ UNCHANGED route /\ RouteTypeInv /\ GoOn(w, r)
  BY DEF EndImport, AtStep, RouteInv
<1>2. /\ RowsHold(q, route) /\ q = [k \in ImportFields |-> q[k]] /\ q.at \in Nat
      /\ DOMAIN q.file = 1 .. Len(q.file) /\ Len(q.file) \in Nat
  BY <1>1, ImportIs DEF ImportSteps
<1>3. r.step = "done" /\ r.file = q.file /\ r.touched = q.touched
  BY <1>2 DEF ImportFields
<1> HIDE DEF r
<1>4. Passed(r) = Passed(q)
  BY <1>1, <1>2, <1>3 DEF Passed, Before
<1>5. \A k : Counts(r, k) <=> Counts(q, k)
  BY <1>3 DEF Counts
<1>6. \A k \in Passed(q) : Counts(q, k) => \E i \in RouteIds : route[i] = q.file[k]
  BY <1>1, <1>2 DEF RowsHold, ImportSteps
<1>7. RowsHold(r, route)
  BY <1>3, <1>4, <1>5, <1>6 DEF RowsHold
<1> QED
  BY <1>1, <1>7, GoOnHolds

\* The row of w has been written to route i; the routes of the rows before have
\* other names.
LEMMA WrittenHolds ==
  ASSUME RouteAssumption, RouteInv, HoldInv, NEW w \in RouteWorkers,
         request[w].step \in {"apply", "update"}, NEW i \in RouteIds,
         Change(w, NoteWritten(w), i), \A j \in RouteIds \ {i} : route'[j] = route[j],
         route'[i] = Row(w), route[i] = NoRoute \/ route[i].name = Row(w).name
  PROVE  HoldInv'
<1> DEFINE q == request[w]
           n == NoteWritten(w)
<1>1. /\ IsImport(q) /\ RowsHold(q, route) /\ q.at \in Nat \ {0}
      /\ DOMAIN q.file = 1 .. Len(q.file) /\ Len(q.file) \in Nat
      /\ \A k \in DOMAIN q.file : q.file[k].name \in RouteNames
  BY ImportIs DEF ImportSteps
<1>2. /\ n.step = "row" /\ n.at = q.at + 1 /\ n.file = q.file
      /\ n.seen = q.seen /\ n.touched = q.touched
  BY <1>1, NextRowIs
<1>3. request'[w] = n /\ \A v \in RouteWorkers \ {w} : request'[v] = Notice(request[v], i)
  BY DEF Change
<1> HIDE DEF n
<1>4. ASSUME NEW k \in Before(q, q.at), Counts(q, k), NEW j \in RouteIds, route[j] = q.file[k]
      PROVE  \E x \in RouteIds : route'[x] = q.file[k]
  <2>1. k \in 1 .. q.at - 1
    BY <1>1 DEF Before
  <2>2. q.file[k].name # q.file[q.at].name
    BY <1>1, <2>1 DEF RowsHold
  <2>3. route[j].name = q.file[k].name /\ route[j].name \in RouteNames /\ Row(w) = q.file[q.at]
    BY <1>1, <1>4 DEF Before, Row
  <2>4. j # i
    BY <2>2, <2>3 DEF NoRoute, RouteAssumption
  <2> QED
    BY <1>4, <2>4
<1>5. \E x \in RouteIds : route'[x] = Row(w)
  OBVIOUS
<1> DEFINE table == route'
<1>6. /\ \E x \in RouteIds : table[x] = Row(w)
      /\ \A k \in Before(q, q.at) :
           Counts(q, k) /\ (\E j \in RouteIds : route[j] = q.file[k])
             => \E x \in RouteIds : table[x] = q.file[k]
  BY <1>4, <1>5
<1> HIDE DEF table
<1>7. RowsHold(n, table)
  BY <1>2, <1>6, NextRowHolds
<1>8. ASSUME NEW v \in RouteWorkers PROVE RowsHold(request'[v], route')
  BY <1>3, <1>7, NoticeHolds DEF table
<1> QED
  BY <1>8 DEF HoldInv

LEMMA InsertRowHolds ==
  ASSUME RouteAssumption, RouteInv, HoldInv, NEW w \in RouteWorkers, InsertRow(w)
  PROVE  HoldInv'
<1>1. IsImport(request[w]) /\ request[w].step = "apply"
  BY ImportAt DEF InsertRow, AtStep
<1>2. PICK i \in RouteIds :
        NewRoute(i, Row(w).name, Row(w).provider) /\ Change(w, NoteWritten(w), i)
  BY DEF InsertRow
<1>3. Row(w) \in FileRows
  BY <1>1, RowType
<1>4. [name |-> Row(w).name, provider |-> Row(w).provider] = Row(w)
  BY <1>3 DEF FileRows
<1>5. /\ route[i] = NoRoute /\ route'[i] = Row(w)
      /\ \A j \in RouteIds \ {i} : route'[j] = route[j]
  BY <1>2, <1>4 DEF NewRoute, RouteInv, RouteTypeInv
<1> QED
  BY <1>1, <1>2, <1>5, WrittenHolds

LEMMA UpdateRowHolds ==
  ASSUME RouteAssumption, RouteInv, HoldInv, NEW w \in RouteWorkers, UpdateRow(w)
  PROVE  HoldInv'
<1> DEFINE q == request[w]
<1>1. q.step = "update" /\ RouteTypeInv
  BY DEF UpdateRow, AtStep, RouteInv
<1>2. IsImport(q) /\ RowsHold(q, route) /\ Row(w) \in FileRows /\ Row(w).name \in RouteNames
  BY <1>1, ImportIs, RowType DEF ImportSteps
<1>3. CASE Named(Row(w).name) = {} /\ GoOn(w, NextRow(w)) /\ UNCHANGED route
  <2> DEFINE n == NextRow(w)
  <2>1. /\ n.step = "row" /\ n.at = q.at + 1 /\ n.file = q.file
        /\ n.seen = q.seen /\ n.touched = q.touched
    BY <1>2, NextRowIs
  <2>2. ~Counts(q, q.at)
    <3>1. q.file[q.at].name \in q.touched
          \/ \E i \in RouteIds : route[i].name = q.file[q.at].name
      BY <1>1, <1>2 DEF RowsHold
    <3> QED
      BY <1>3, <3>1 DEF Counts, Row, Named
  <2> HIDE DEF n
  <2>3. RowsHold(n, route)
    BY <1>1, <2>1, <2>2, NextRowHolds
  <2> QED
    BY <1>1, <1>3, <2>3, GoOnHolds DEF n
<1>4. ASSUME NEW i \in Named(Row(w).name),
             route' = [route EXCEPT ![i].provider = Row(w).provider],
             Change(w, NoteWritten(w), i)
      PROVE  HoldInv'
  <2>1. i \in RouteIds /\ route[i] \in RouteRows /\ route[i].name = Row(w).name
    BY <1>1, <1>2, <1>4, NamedRoute DEF IsRoute, Named
  <2> DEFINE row == [route[i] EXCEPT !.provider = Row(w).provider]
  <2>2. row = Row(w)
    BY <1>2, <2>1 DEF RouteRows, FileRows
  <2>3. route' = [route EXCEPT ![i] = row]
    BY <1>4
  <2> HIDE DEF row
  <2>4. route'[i] = Row(w) /\ \A j \in RouteIds \ {i} : route'[j] = route[j]
    BY <1>1, <2>1, <2>2, <2>3 DEF RouteTypeInv
  <2> QED
    BY <1>1, <1>4, <2>1, <2>4, WrittenHolds
<1> QED
  BY <1>3, <1>4 DEF UpdateRow

--------------------------------------------------------------------------------
LEMMA NoImportHolds ==
  ASSUME HoldInv, RouteInv, NEW w \in RouteWorkers, NEW q, GoOn(w, q), UNCHANGED route,
         q.step \notin ImportSteps
  PROVE  HoldInv'
BY NothingToHold, GoOnHolds DEF RouteInv

\* Rollbacks until they commit, and forms until they are saved, change no route.
LEMMA RollbackHolds ==
  ASSUME RouteAssumption, RouteInv, HoldInv, NEW w \in RouteWorkers,
         \/ StartRollback(w) \/ PreviewRoute(w) \/ EndPreview(w) \/ FindRoute(w)
         \/ ClearHistory(w) \/ DeleteRoute(w)
  PROVE  HoldInv'
<1>1. CASE StartRollback(w)
  <2>1. PICK names : GoOn(w, [step |-> "preview", todo |-> names, ready |-> {}, target |-> 0,
                              cleared |-> {}, deleted |-> {}])
    BY <1>1 DEF StartRollback
  <2>2. UNCHANGED route
    BY <1>1 DEF StartRollback
  <2> DEFINE q == [step |-> "preview", todo |-> names, ready |-> {}, target |-> 0,
                   cleared |-> {}, deleted |-> {}]
  <2>3. q.step \notin ImportSteps /\ GoOn(w, q)
    BY <2>1 DEF ImportSteps
  <2> HIDE DEF q
  <2> QED
    BY <2>2, <2>3, NoImportHolds
<1>2. CASE PreviewRoute(w)
  <2>1. request[w] \in Rollbacks /\ request[w].step = "preview" /\ UNCHANGED route
    BY <1>2, RollbackAt DEF PreviewRoute, AtStep
  <2>2. PICK n \in request[w].todo :
          GoOn(w, [request[w] EXCEPT !.todo = @ \ {n},
                                     !.ready = IF Named(n) \ referenced # {} THEN @ \cup {n} ELSE @])
    BY <1>2 DEF PreviewRoute
  <2> DEFINE q == [request[w] EXCEPT !.todo = @ \ {n},
                                     !.ready = IF Named(n) \ referenced # {} THEN @ \cup {n} ELSE @]
  <2>3. q.step \notin ImportSteps /\ GoOn(w, q)
    BY <2>1, <2>2 DEF ImportSteps, Rollbacks
  <2> HIDE DEF q
  <2> QED
    BY <2>1, <2>3, NoImportHolds
<1>3. CASE EndPreview(w)
  <2> DEFINE q == [request[w] EXCEPT !.step = "find", !.todo = request[w].ready, !.ready = {}]
  <2>1. request[w] \in Rollbacks /\ GoOn(w, q) /\ UNCHANGED route
    BY <1>3, RollbackAt DEF EndPreview, AtStep
  <2>2. q.step \notin ImportSteps
    BY <2>1 DEF ImportSteps, Rollbacks
  <2> HIDE DEF q
  <2> QED
    BY <2>1, <2>2, NoImportHolds
<1>4. CASE FindRoute(w)
  <2>1. request[w] \in Rollbacks /\ request[w].step = "find" /\ UNCHANGED route
    BY <1>4, RollbackAt DEF FindRoute, AtStep
  <2>2. PICK n \in request[w].todo :
          \/ GoOn(w, [request[w] EXCEPT !.todo = @ \ {n}])
          \/ \E i : GoOn(w, [request[w] EXCEPT !.step = "clear", !.todo = @ \ {n}, !.target = i])
    BY <1>4 DEF FindRoute
  <2>3. PICK q : q.step \notin ImportSteps /\ GoOn(w, q)
    BY <2>1, <2>2 DEF ImportSteps, Rollbacks
  <2> QED
    BY <2>1, <2>3, NoImportHolds
<1>5. CASE ClearHistory(w)
  <2> DEFINE q == [request[w] EXCEPT !.step = "delete", !.cleared = @ \cup {request[w].target}]
  <2>1. request[w] \in Rollbacks /\ GoOn(w, q) /\ UNCHANGED route
    BY <1>5, RollbackAt DEF ClearHistory, AtStep
  <2>2. q.step \notin ImportSteps
    BY <2>1 DEF ImportSteps, Rollbacks
  <2> HIDE DEF q
  <2> QED
    BY <2>1, <2>2, NoImportHolds
<1>6. CASE DeleteRoute(w)
  <2>1. request[w] \in Rollbacks /\ UNCHANGED route
    BY <1>6, RollbackAt DEF DeleteRoute, AtStep
  <2> DEFINE q == [request[w] EXCEPT !.step = "find", !.target = 0]
             r == [request[w] EXCEPT !.step = "find", !.target = 0,
                                     !.deleted = @ \cup {request[w].target}]
  <2>2. GoOn(w, NoRequest) \/ GoOn(w, q) \/ GoOn(w, r)
    BY <1>6 DEF DeleteRoute
  <2>3. q.step = "find" /\ r.step = "find" /\ NoRequest.step = "idle"
    BY <2>1 DEF Rollbacks, NoRequest
  <2> HIDE DEF q, r
  <2>4. /\ q.step \notin ImportSteps /\ r.step \notin ImportSteps
        /\ NoRequest.step \notin ImportSteps
    BY <2>3 DEF ImportSteps
  <2> QED
    BY <2>1, <2>2, <2>4, NoImportHolds
<1> QED
  BY <1>1, <1>2, <1>3, <1>4, <1>5, <1>6

LEMMA FormHolds ==
  ASSUME RouteAssumption, RouteInv, HoldInv, NEW w \in RouteWorkers,
         OpenEdit(w) \/ ReadEdited(w) \/ Leave(w)
  PROVE  HoldInv'
<1>1. CASE OpenEdit(w)
  <2>1. PICK i \in RouteIds : GoOn(w, [step |-> "form", id |-> i, shown |-> route[i], fresh |-> TRUE])
    BY <1>1 DEF OpenEdit
  <2> DEFINE q == [step |-> "form", id |-> i, shown |-> route[i], fresh |-> TRUE]
  <2>2. q.step \notin ImportSteps /\ GoOn(w, q) /\ UNCHANGED route
    BY <1>1, <2>1 DEF ImportSteps, OpenEdit
  <2> HIDE DEF q
  <2> QED
    BY <2>2, NoImportHolds
<1>2. CASE ReadEdited(w)
  <2>1. request[w] \in EditForms /\ UNCHANGED route
    BY <1>2, EditAt DEF ReadEdited, AtStep
  <2>2. PICK q : GoOn(w, q) /\ (q = NoRequest \/ q = [request[w] EXCEPT !.step = "save"])
    BY <1>2 DEF ReadEdited
  <2>3. q.step \notin ImportSteps
    BY <2>1, <2>2 DEF ImportSteps, EditForms, NoRequest
  <2> QED
    BY <2>1, <2>2, <2>3, NoImportHolds
<1>3. CASE Leave(w)
  <2>1. GoOn(w, NoRequest) /\ UNCHANGED route /\ NoRequest.step \notin ImportSteps
    BY <1>3 DEF Leave, NoRequest, ImportSteps
  <2> QED
    BY <2>1, NoImportHolds
<1> QED
  BY <1>1, <1>2, <1>3

LEMMA CommitRollbackHolds ==
  ASSUME RouteAssumption, RouteInv, HoldInv, NEW w \in RouteWorkers, CommitRollback(w)
  PROVE  HoldInv'
<1> DEFINE gone == request[w].deleted
           names == {route[i].name : i \in gone}
<1>1. /\ \A i \in RouteIds : route'[i] = IF i \in gone THEN Removed ELSE route[i]
      /\ request'[w] = NoRequest
  BY DEF CommitRollback
<1>2. ASSUME NEW v \in RouteWorkers \ {w} PROVE RowsHold(request'[v], route')
  <2>1. RowsHold(request[v], route) /\ RequestOK(request[v], route, referenced)
    BY DEF HoldInv, RouteInv, RequestsOK
  <2>2. CASE request[v].step \in ImportSteps
    <3>1. request'[v] = Touched(request[v], names)
      BY <2>2 DEF CommitRollback, ImportSteps
    <3>2. IsImport(request[v])
      BY <2>1, <2>2, KindsApart DEF ImportSteps
    <3>3. \A i \in RouteIds : route'[i] = route[i] \/ route[i].name \in names
      BY <1>1
    <3> HIDE DEF names
    <3> QED
      BY <2>1, <2>2, <3>1, <3>2, <3>3, TouchedHolds
  <2>3. CASE request[v].step \notin ImportSteps
    <3>1. \/ request'[v] = request[v]
          \/ /\ request[v].step \in {"form", "save"}
             /\ request'[v] = [request[v] EXCEPT !.fresh = FALSE]
      BY <2>3 DEF CommitRollback, ImportSteps
    <3>2. request'[v].step = request[v].step
      BY <2>1, <3>1, KindsApart DEF EditForms
    <3> QED
      BY <2>3, <3>2, NothingToHold
  <2> QED
    BY <2>2, <2>3
<1>3. RowsHold(request'[w], route')
  BY <1>1, NothingToHold DEF NoRequest, ImportSteps
<1> QED
  BY <1>2, <1>3 DEF HoldInv

LEMMA SaveEditHolds ==
  ASSUME RouteAssumption, RouteInv, HoldInv, NEW w \in RouteWorkers, SaveEdit(w)
  PROVE  HoldInv'
<1> DEFINE i == request[w].id
<1>1. i \in RouteIds /\ RouteTypeInv
  BY EditAt DEF SaveEdit, AtStep, EditForms, RouteInv
<1>2. PICK r \in RouteRows : route' = [route EXCEPT ![i] = r]
  BY DEF SaveEdit
<1>3. \A j \in RouteIds \ {i} : route'[j] = route[j]
  BY <1>1, <1>2 DEF RouteTypeInv
<1>4. ASSUME NEW v \in RouteWorkers PROVE RowsHold(request'[v], route')
  <2>1. CASE v = w
    <3>1. request'[v] = NoRequest
      BY <2>1 DEF SaveEdit
    <3> QED
      BY <3>1, NothingToHold DEF NoRequest, ImportSteps
  <2>2. CASE v # w
    <3>1. request'[v] = Record(Notice(request[v], i), i)
      BY <2>2 DEF SaveEdit
    <3> QED
      BY <1>1, <1>3, <3>1, NoticeHolds
  <2> QED
    BY <2>1, <2>2
<1> QED
  BY <1>4 DEF HoldInv

LEMMA SaveUnchangedHolds ==
  ASSUME RouteAssumption, RouteInv, HoldInv, NEW w \in RouteWorkers, SaveUnchanged(w)
  PROVE  HoldInv'
<1> DEFINE i == request[w].id
<1>1. i \in RouteIds
  BY EditAt DEF SaveUnchanged, AtStep, EditForms
<1>2. UNCHANGED route /\ Change(w, NoRequest, i)
  BY DEF SaveUnchanged
<1>3. ASSUME NEW v \in RouteWorkers PROVE RowsHold(request'[v], route')
  <2>1. CASE v = w
    <3>1. request'[v] = NoRequest
      BY <1>2, <2>1 DEF Change
    <3> QED
      BY <3>1, NothingToHold DEF NoRequest, ImportSteps
  <2>2. CASE v # w
    <3>1. request'[v] = Notice(request[v], i)
      BY <1>2, <2>2 DEF Change
    <3> QED
      BY <1>1, <1>2, <3>1, NoticeHolds
  <2> QED
    BY <2>1, <2>2
<1> QED
  BY <1>3 DEF HoldInv

LEMMA CreateRouteHolds == ASSUME RouteAssumption, RouteInv, HoldInv, CreateRoute PROVE HoldInv'
<1>1. PICK i \in RouteIds, n \in RouteNames, p \in KnownProviders :
        /\ NewRoute(i, n, p)
        /\ request' = [v \in RouteWorkers |-> Notice(request[v], i)]
  BY DEF CreateRoute
<1>2. \A j \in RouteIds \ {i} : route'[j] = route[j]
  BY <1>1, NewRouteFacts DEF RouteInv
<1>3. ASSUME NEW v \in RouteWorkers PROVE RowsHold(request'[v], route')
  BY <1>1, <1>2, NoticeHolds
<1> QED
  BY <1>3 DEF HoldInv

LEMMA HoldInvStep ==
  ASSUME RouteAssumption, RouteInv, HoldInv, [RouteNext]_routeVars
  PROVE  HoldInv'
<1>1. ASSUME UNCHANGED <<route, request>> PROVE HoldInv'
  BY <1>1 DEF HoldInv
<1>2. CASE UNCHANGED routeVars
  BY <1>1, <1>2 DEF routeVars
<1>3. CASE CreateRoute
  BY <1>3, CreateRouteHolds
<1>4. ASSUME NEW i \in RouteIds, Refer(i) PROVE HoldInv'
  BY <1>1, <1>4 DEF Refer
<1> QED
  BY <1>2, <1>3, <1>4, StartImportHolds, ReadRowHolds, SkipRowHolds, FetchRouteHolds,
     InsertRowHolds, InsertFailsHolds, UpdateRowHolds, EndImportHolds, RollbackHolds,
     CommitRollbackHolds, FormHolds, SaveEditHolds, SaveUnchangedHolds DEF RouteNext

\* When an import ends, each route that nobody else has changed since it began has
\* the provider of its first row in the file, whichever imports, rollbacks and
\* edits it overlaps.
THEOREM ImportsTakeHold == RouteSpec => []ImportTakesHold
<1>1. RouteInit => HoldInv
  BY DEF RouteInit, HoldInv, RowsHold, NoRequest, ImportSteps
<1>2. RouteInv /\ HoldInv /\ [RouteNext]_routeVars => HoldInv'
  BY HoldInvStep, RouteAssumption
<1>3. RouteInv /\ HoldInv => ImportTakesHold
  <2> SUFFICES ASSUME RouteInv, HoldInv, NEW w \in RouteWorkers, request[w].step = "done",
                      NEW k \in DOMAIN request[w].file, Counts(request[w], k)
               PROVE  \E i \in RouteIds : route[i] = request[w].file[k]
    BY DEF ImportTakesHold, AtStep, Counts
  <2>1. k \in Passed(request[w])
    BY DEF Passed
  <2> QED
    BY <2>1 DEF HoldInv, RowsHold, ImportSteps
<1> QED
  BY <1>1, <1>2, <1>3, RouteInvariant, PTL DEF RouteSpec

--------------------------------------------------------------------------------
(***************************************************************************)
(* Names, copied names and scopes, for any numbers of values, requests and *)
(* purchased numbers and any way of folding names.                         *)
(***************************************************************************)

ValueSaves == [step: {"before", "check", "write"} \cup WritingSteps, value: Values \cup {0},
               label: Labels, before: Labels \cup {Unborn}, linked: BOOLEAN,
               scopes: SUBSET Scopes, todo: SUBSET (Phones \cup Scopes), done: SUBSET Phones,
               late: BOOLEAN]

PhoneSaves == [step: {"labels", "store", "stored"}, phone: Phones, value: Values,
               label: Labels \cup {Unborn}, new: BOOLEAN, refers: BOOLEAN, outdated: BOOLEAN]

Saves == {NoSave} \cup ValueSaves \cup PhoneSaves

\* What the transaction has done so far, and what nobody has undone since.
ValueOK(q) == q \in ValueSaves =>
    /\ q.value # 0 => label[q.value] # Unborn
    /\ q.linked => q.value # 0 /\ kind = "countries"
    /\ q.step = "before" => q.value # 0
    /\ kind = "countries" => q.scopes = {}
    /\ q.step \in {"write"} \cup WritingSteps /\ ~q.late =>
          \A u \in Values \ {q.value} : ~Alike(label[u], q.label)
    /\ q.step = "commit" /\ ~Linked(q) => q.todo = IF q.value = 0 THEN {} ELSE scopes[q.value]
    /\ q.step = "rows" => Linked(q) /\ q.todo \subseteq Phones
    /\ q.step \in {"rows", "commit"} /\ Linked(q) /\ label[q.value] # q.label =>
          \A m \in Phones : copied[m].value = q.value =>
              m \in q.done \/ (q.step = "rows" /\ m \in q.todo)
    /\ q.done # {} => q.value # 0 /\ q.step \in {"rows", "commit"}
    /\ \A m \in q.done : copied[m].value = q.value

PhoneOK(q) == q \in PhoneSaves =>
    /\ label[q.value] # Unborn
    /\ q.step # "labels" => q.label \in Labels /\ (~q.outdated => q.label = label[q.value])
    /\ q.step = "stored" /\ ~q.refers => copied[q.phone].value = q.value

\* The row locks of values and numbers, and the foreign key.
SavesApart(q, r) ==
    /\ q.step \in WritingSteps /\ r.step \in WritingSteps /\ q.value # 0 => q.value # r.value
    /\ q.step = "stored" /\ r.step = "stored" => q.phone # r.phone
    /\ q.step = "stored" /\ r.step \in WritingSteps =>
          /\ q.phone \notin r.done
          /\ q.refers /\ r.value = q.value => r.label = label[q.value]

Recorded ==
    /\ kind \in {"countries", "reasons"}
    /\ label \in [Values -> Labels \cup {Unborn}]
    /\ scopes \in [Values -> SUBSET Scopes]
    /\ copied \in [Phones -> {NoPhone} \cup [value: Values, label: Labels]]
    /\ unguarded \subseteq Values /\ unfollowed \subseteq Phones
    /\ \A v \in Values : label[v] = Unborn \/ kind = "countries" => scopes[v] = {}

DictInv ==
    /\ Recorded /\ NamesApart /\ LabelsFollow
    /\ save \in [DictWorkers -> Saves]
    /\ \A w \in DictWorkers : ValueOK(save[w]) /\ PhoneOK(save[w])
    /\ \A u, w \in DictWorkers : u # w => SavesApart(save[u], save[w])

LEMMA BornLabels == /\ Unborn \notin Labels /\ LastValue \in Nat /\ DOMAIN Folded = Labels
                    /\ 0 \notin Values /\ Values \subseteq Nat
BY DictAssumption DEF Unborn, Values

\* The three kinds of a save differ in their steps.
LEMMA SaveKinds ==
  ASSUME NEW q \in Saves
  PROVE  /\ q.step = "idle" => q = NoSave
         /\ q.step \in {"before", "check", "write"} \cup WritingSteps => q \in ValueSaves
         /\ q.step \in {"labels", "store", "stored"} => q \in PhoneSaves
         /\ q \in ValueSaves => q.step \in {"before", "check", "write"} \cup WritingSteps
         /\ q \in PhoneSaves => q.step \in {"labels", "store", "stored"}
<1>1. q \in ValueSaves => q.step \in {"before", "check", "write"} \cup WritingSteps
  BY DEF ValueSaves
<1>2. q \in PhoneSaves => q.step \in {"labels", "store", "stored"}
  BY DEF PhoneSaves
<1>3. q = NoSave => q.step = "idle"
  BY DEF NoSave
<1> QED
  BY <1>1, <1>2, <1>3 DEF Saves, WritingSteps

LEMMA NoSaveOK == /\ NoSave \in Saves /\ ValueOK(NoSave) /\ PhoneOK(NoSave)
                  /\ \A r : SavesApart(NoSave, r) /\ SavesApart(r, NoSave)
<1>1. NoSave.step = "idle"
  BY DEF NoSave
<1>2. NoSave \notin ValueSaves /\ NoSave \notin PhoneSaves
  BY <1>1 DEF ValueSaves, PhoneSaves, WritingSteps
<1> QED
  BY <1>1, <1>2 DEF Saves, ValueOK, PhoneOK, SavesApart, WritingSteps

\* A request that goes on, and changes nothing that is stored.
LEMMA SaveStep ==
  ASSUME DictInv, NEW w \in DictWorkers, NEW q \in Saves,
         save' = [save EXCEPT ![w] = q],
         UNCHANGED <<kind, label, scopes, copied, unguarded, unfollowed>>,
         ValueOK(q), PhoneOK(q),
         \A u \in DictWorkers \ {w} : SavesApart(save[u], q) /\ SavesApart(q, save[u])
  PROVE  DictInv'
<1>1. /\ save \in [DictWorkers -> Saves] /\ Recorded /\ NamesApart /\ LabelsFollow
      /\ \A u \in DictWorkers : ValueOK(save[u]) /\ PhoneOK(save[u])
      /\ \A u, v \in DictWorkers : u # v => SavesApart(save[u], save[v])
  BY DEF DictInv
<1>2. \A u \in DictWorkers : save'[u] = IF u = w THEN q ELSE save[u]
  BY <1>1
<1>3. save' \in [DictWorkers -> Saves]
  BY <1>1
<1>4. Recorded' /\ NamesApart' /\ LabelsFollow'
  BY <1>1 DEF Recorded, NamesApart, LabelsFollow
<1>5. \A u \in DictWorkers : ValueOK(save[u])' /\ PhoneOK(save[u])'
  <2> SUFFICES ASSUME NEW u \in DictWorkers PROVE ValueOK(save[u])' /\ PhoneOK(save[u])'
    OBVIOUS
  <2> DEFINE r == IF u = w THEN q ELSE save[u]
  <2>1. save'[u] = r /\ ValueOK(r) /\ PhoneOK(r)
    BY <1>1, <1>2
  <2> HIDE DEF r
  <2> QED
    BY <2>1 DEF ValueOK, PhoneOK
<1>6. \A u, v \in DictWorkers : u # v => SavesApart(save[u], save[v])'
  <2> SUFFICES ASSUME NEW u \in DictWorkers, NEW v \in DictWorkers, u # v
               PROVE  SavesApart(save[u], save[v])'
    OBVIOUS
  <2> DEFINE r == IF u = w THEN q ELSE save[u]
             s == IF v = w THEN q ELSE save[v]
  <2>1. save'[u] = r /\ save'[v] = s /\ SavesApart(r, s)
    BY <1>1, <1>2
  <2> HIDE DEF r, s
  <2> QED
    BY <2>1 DEF SavesApart
<1> QED
  BY <1>3, <1>4, <1>5, <1>6 DEF DictInv

\* One that holds no lock after the step is apart from all.
LEMMA PlainStep ==
  ASSUME DictInv, NEW w \in DictWorkers, NEW q \in Saves,
         save' = [save EXCEPT ![w] = q],
         UNCHANGED <<kind, label, scopes, copied, unguarded, unfollowed>>,
         ValueOK(q), PhoneOK(q), q.step \notin WritingSteps, q.step # "stored"
  PROVE  DictInv'
<1>1. \A r : SavesApart(r, q) /\ SavesApart(q, r)
  BY DEF SavesApart
<1> QED
  BY <1>1, SaveStep

LEMMA DropStep ==
  ASSUME DictInv, NEW w \in DictWorkers, Drop(w),
         UNCHANGED <<kind, label, scopes, copied, unguarded, unfollowed>>
  PROVE  DictInv'
<1>1. save' = [save EXCEPT ![w] = NoSave]
  BY DEF Drop
<1> QED
  BY <1>1, NoSaveOK, SaveStep

LEMMA InvFacts ==
  ASSUME DictInv, NEW w \in DictWorkers
  PROVE  /\ save \in [DictWorkers -> Saves] /\ save[w] \in Saves
         /\ ValueOK(save[w]) /\ PhoneOK(save[w]) /\ Recorded
         /\ \A u \in DictWorkers \ {w} :
              /\ save[u] \in Saves /\ ValueOK(save[u]) /\ PhoneOK(save[u])
              /\ SavesApart(save[u], save[w]) /\ SavesApart(save[w], save[u])
BY DEF DictInv

\* A form that was just sent.
LEMMA SubmitStep ==
  ASSUME DictInv, NEW w \in DictWorkers, NEW q \in ValueSaves,
         q.step \in {"before", "check", "write"}, q.step = "write" => q.late,
         q.scopes \in ScopeSets, q.done = {},
         q.value # 0 => label[q.value] # Unborn,
         q.linked => q.value # 0 /\ kind = "countries",
         q.step = "before" => q.value # 0,
         save' = [save EXCEPT ![w] = q],
         UNCHANGED <<kind, label, scopes, copied, unguarded, unfollowed>>
  PROVE  DictInv'
<1>1. kind = "countries" => q.scopes = {}
  BY DEF ScopeSets
<1>2. q \in Saves /\ q.step \notin WritingSteps /\ q.step # "stored"
  BY DEF Saves, WritingSteps
<1>3. q \notin PhoneSaves
  BY DEF PhoneSaves
<1>4. ValueOK(q) /\ PhoneOK(q)
  BY <1>1, <1>3 DEF ValueOK, PhoneOK, WritingSteps
<1> QED
  BY <1>2, <1>4, PlainStep

LEMMA SubmitInv ==
  ASSUME DictInv, NEW w \in DictWorkers, SubmitCreate(w) \/ SubmitDirect(w) \/ SubmitUpdate(w)
  PROVE  DictInv'
<1>1. CASE SubmitCreate(w)
  <2>1. PICK n \in Labels, s \in ScopeSets :
          save' = [save EXCEPT ![w] = [NewSave EXCEPT !.label = n, !.scopes = s]]
    BY <1>1 DEF SubmitCreate
  <2> DEFINE q == [NewSave EXCEPT !.label = n, !.scopes = s]
  <2>2. s \in SUBSET Scopes
    BY DEF ScopeSets
  <2>3. /\ q \in ValueSaves /\ q.step = "check" /\ q.scopes = s /\ q.done = {} /\ q.value = 0
        /\ q.linked = FALSE
    BY <2>2 DEF NewSave, ValueSaves
  <2>4. /\ UNCHANGED <<kind, label, scopes, copied, unguarded, unfollowed>>
        /\ save' = [save EXCEPT ![w] = q]
    BY <1>1, <2>1 DEF SubmitCreate
  <2> HIDE DEF q
  <2> QED
    BY <2>3, <2>4, SubmitStep
<1>2. CASE SubmitDirect(w)
  <2>1. PICK n \in Labels :
          save' = [save EXCEPT ![w] = [NewSave EXCEPT !.step = "write", !.label = n, !.late = TRUE]]
    BY <1>2 DEF SubmitDirect
  <2> DEFINE q == [NewSave EXCEPT !.step = "write", !.label = n, !.late = TRUE]
  <2>2. /\ q \in ValueSaves /\ q.step = "write" /\ q.scopes = {} /\ q.done = {} /\ q.value = 0
        /\ q.linked = FALSE /\ q.late = TRUE
    BY DEF NewSave, ValueSaves
  <2>3. /\ UNCHANGED <<kind, label, scopes, copied, unguarded, unfollowed>>
        /\ save' = [save EXCEPT ![w] = q]
        /\ {} \in ScopeSets
    BY <1>2, <2>1 DEF SubmitDirect, ScopeSets
  <2> HIDE DEF q
  <2> QED
    BY <2>2, <2>3, SubmitStep
<1>3. CASE SubmitUpdate(w)
  <2>1. PICK v \in Values, n \in Labels, linked \in BOOLEAN, s \in ScopeSets :
         /\ label[v] # Unborn
         /\ kind = "reasons" => ~linked
         /\ save' = [save EXCEPT ![w] = [NewSave EXCEPT !.step = "before", !.value = v, !.label = n,
                                                        !.linked = linked, !.scopes = s]]
    BY <1>3 DEF SubmitUpdate
  <2> DEFINE q == [NewSave EXCEPT !.step = "before", !.value = v, !.label = n,
                                  !.linked = linked, !.scopes = s]
  <2>2. s \in SUBSET Scopes
    BY DEF ScopeSets
  <2>3. /\ q \in ValueSaves /\ q.step = "before" /\ q.scopes = s /\ q.done = {} /\ q.value = v
        /\ q.linked = linked
    BY <2>2 DEF NewSave, ValueSaves
  <2>4. /\ UNCHANGED <<kind, label, scopes, copied, unguarded, unfollowed>>
        /\ kind \in {"countries", "reasons"} /\ v # 0
        /\ save' = [save EXCEPT ![w] = q]
    BY <1>3, <2>1, BornLabels DEF SubmitUpdate, DictInv, Recorded
  <2>5. linked => kind = "countries"
    BY <2>1, <2>4
  <2> HIDE DEF q
  <2> QED
    BY <2>1, <2>3, <2>4, <2>5, SubmitStep
<1> QED
  BY <1>1, <1>2, <1>3

\* What GoTo makes of a record.
LEMMA WithStep ==
  ASSUME NEW o \in ValueSaves, NEW step \in {"before", "check", "write"} \cup WritingSteps,
         NEW q, q = [o EXCEPT !.step = step]
  PROVE  /\ q \in ValueSaves /\ q.step = step /\ q.value = o.value /\ q.label = o.label
         /\ q.before = o.before /\ q.linked = o.linked /\ q.scopes = o.scopes
         /\ q.todo = o.todo /\ q.done = o.done /\ q.late = o.late
         /\ q \notin PhoneSaves
<1>1. q \in ValueSaves /\ q.step = step
  BY DEF ValueSaves
<1>2. q \notin PhoneSaves
  BY <1>1 DEF PhoneSaves, WritingSteps
<1> QED
  BY <1>1, <1>2 DEF ValueSaves

LEMMA ReadBeforeInv == ASSUME DictInv, NEW w \in DictWorkers, ReadBefore(w) PROVE DictInv'
<1> DEFINE o == save[w]
           q == [o EXCEPT !.step = "check", !.before = label[o.value]]
<1>1. /\ o.step = "before" /\ save' = [save EXCEPT ![w] = q]
      /\ UNCHANGED <<kind, label, scopes, copied, unguarded, unfollowed>>
  BY InvFacts DEF ReadBefore, SaveAt
<1>2. o \in ValueSaves /\ ValueOK(o) /\ Recorded
  BY <1>1, InvFacts, SaveKinds
<1> HIDE DEF o
<1>3. o.value \in Values
  BY <1>1, <1>2 DEF ValueSaves, ValueOK
<1>4. label[o.value] \in Labels \cup {Unborn}
  BY <1>2, <1>3 DEF Recorded
<1> DEFINE b == label[o.value]
<1> HIDE DEF b
<1>5. /\ q \in ValueSaves /\ q.step = "check" /\ q.value = o.value /\ q.label = o.label
      /\ q.linked = o.linked /\ q.scopes = o.scopes /\ q.done = o.done
  <2>1. q = [o EXCEPT !.step = "check", !.before = b]
    BY DEF b
  <2> QED
    BY <1>2, <1>4, <2>1 DEF ValueSaves, b
<1>6. q \notin PhoneSaves /\ q.step \notin WritingSteps
  BY <1>5 DEF PhoneSaves, WritingSteps
<1> HIDE DEF q
<1>7. ValueOK(q) /\ PhoneOK(q) /\ q \in Saves
  BY <1>1, <1>2, <1>5, <1>6 DEF ValueOK, PhoneOK, WritingSteps, Saves
<1> QED
  BY <1>1, <1>5, <1>6, <1>7, PlainStep

LEMMA CheckNameInv == ASSUME DictInv, NEW w \in DictWorkers, CheckName(w) PROVE DictInv'
<1> DEFINE o == save[w]
           q == [o EXCEPT !.step = "write"]
<1>1. o.step = "check" /\ UNCHANGED <<kind, label, scopes, copied, unguarded, unfollowed>>
  BY DEF CheckName, SaveAt
<1>2. o \in ValueSaves /\ ValueOK(o) /\ Recorded
  BY <1>1, InvFacts, SaveKinds
<1>3. CASE Drop(w)
  BY <1>1, <1>3, DropStep
<1>4. CASE GoTo(w, "write") /\ \A v \in Values \ {o.value} : ~Alike(label[v], o.label)
  <2>1. save' = [save EXCEPT ![w] = q]
    BY <1>4, InvFacts DEF GoTo
  <2> HIDE DEF o
  <2>2. /\ q \in ValueSaves /\ q.step = "write" /\ q.value = o.value /\ q.label = o.label
        /\ q.linked = o.linked /\ q.scopes = o.scopes /\ q.done = o.done /\ q \notin PhoneSaves
    BY <1>2, WithStep
  <2> HIDE DEF q
  <2>3. q.step \notin WritingSteps /\ q.step # "stored" /\ q \in Saves
    BY <2>2 DEF WritingSteps, Saves
  <2>4. ValueOK(q) /\ PhoneOK(q)
    BY <1>1, <1>2, <1>4, <2>2 DEF ValueOK, PhoneOK, WritingSteps
  <2> QED
    BY <1>1, <2>1, <2>3, <2>4, PlainStep
<1> QED
  BY <1>3, <1>4 DEF CheckName

LEMMA WriteNameInv == ASSUME DictInv, NEW w \in DictWorkers, WriteName(w) PROVE DictInv'
<1> DEFINE o == save[w]
           q == [o EXCEPT !.step = "dependents"]
<1>1. /\ o.step = "write" /\ UNCHANGED <<kind, label, scopes, copied, unguarded, unfollowed>>
      /\ o.value # 0 => \A u \in DictWorkers \ {w} : save[u].step \in WritingSteps => save[u].value # o.value
      /\ o.value # 0 /\ label[o.value] # o.label =>
           ~\E u \in DictWorkers : save[u].step = "stored" /\ save[u].value = o.value /\ save[u].refers
      /\ Drop(w) \/ GoTo(w, "dependents")
  BY DEF WriteName, SaveAt, RowFree, Writing, KeyShared, Storing
<1>2. o \in ValueSaves /\ ValueOK(o) /\ Recorded
  BY <1>1, InvFacts, SaveKinds
<1>3. CASE Drop(w)
  BY <1>1, <1>3, DropStep
<1>4. CASE GoTo(w, "dependents")
  <2>1. save' = [save EXCEPT ![w] = q]
    BY <1>4, InvFacts DEF GoTo
  <2> HIDE DEF o
  <2>2. /\ q \in ValueSaves /\ q.step = "dependents" /\ q.value = o.value /\ q.label = o.label
        /\ q.linked = o.linked /\ q.scopes = o.scopes /\ q.done = o.done /\ q.late = o.late
        /\ q \notin PhoneSaves
    BY <1>2, WithStep DEF WritingSteps
  <2> HIDE DEF q
  <2>3. ValueOK(q) /\ PhoneOK(q) /\ q \in Saves
    BY <1>1, <1>2, <2>2 DEF ValueOK, PhoneOK, WritingSteps, Saves
  <2>4. q.done = {} /\ q.value \in Values \cup {0}
    BY <1>1, <1>2, <2>2 DEF ValueOK, ValueSaves
  <2>5. ASSUME NEW u \in DictWorkers \ {w} PROVE SavesApart(save[u], q) /\ SavesApart(q, save[u])
    <3>1. save[u] \in Saves
      BY InvFacts
    <3>2. save[u].step = "stored" => save[u].value \in Values /\ save[u].refers \in BOOLEAN
      BY <3>1, SaveKinds DEF PhoneSaves
    <3>3. save[u].step \in WritingSteps => save[u].value = 0 \/ save[u].value # q.value
      BY <1>1, <2>2
    <3> QED
      BY <1>1, <2>2, <2>4, <3>2, <3>3, BornLabels DEF SavesApart, WritingSteps
  <2> QED
    BY <1>1, <2>1, <2>3, <2>5, SaveStep
<1> QED
  BY <1>1, <1>3, <1>4

\* A transaction that goes on writing keeps the locks it has.
LEMMA WritingStep ==
  ASSUME DictInv, NEW w \in DictWorkers, save[w].step \in WritingSteps,
         NEW q \in ValueSaves, q.step \in WritingSteps,
         q.value = save[w].value, q.label = save[w].label,
         \A m \in q.done \ save[w].done : ~PhoneLocked(w, m),
         save' = [save EXCEPT ![w] = q], ValueOK(q),
         UNCHANGED <<kind, label, scopes, copied, unguarded, unfollowed>>
  PROVE  DictInv'
<1>1. q \in Saves /\ PhoneOK(q)
  <2>1. q \notin PhoneSaves
    BY DEF PhoneSaves, WritingSteps
  <2> QED
    BY <2>1 DEF Saves, PhoneOK
<1>2. q.step # "stored" /\ save[w].step # "stored"
  BY DEF WritingSteps
<1>3. ASSUME NEW u \in DictWorkers \ {w} PROVE SavesApart(save[u], q) /\ SavesApart(q, save[u])
  <2>1. SavesApart(save[u], save[w]) /\ SavesApart(save[w], save[u])
    BY InvFacts
  <2>2. save[u].step = "stored" => save[u].phone \notin q.done \ save[w].done
    BY DEF PhoneLocked, Storing, SaveAt
  <2> QED
    BY <1>2, <2>1, <2>2 DEF SavesApart
<1> QED
  BY <1>1, <1>3, SaveStep

LEMMA StartRelabelInv == ASSUME DictInv, NEW w \in DictWorkers, StartRelabel(w) PROVE DictInv'
<1> DEFINE o == save[w]
           q == [o EXCEPT !.step = "rows", !.todo = CopiesOf(o)]
<1>1. /\ o.step = "dependents" /\ save' = [save EXCEPT ![w] = q] /\ Linked(o)
      /\ UNCHANGED <<kind, label, scopes, copied, unguarded, unfollowed>>
  BY InvFacts DEF StartRelabel, SaveAt
<1>2. o \in ValueSaves /\ ValueOK(o)
  BY <1>1, InvFacts, SaveKinds DEF WritingSteps
<1>3. CopiesOf(o) \in SUBSET (Phones \cup Scopes)
  BY DEF CopiesOf
<1>4. /\ q \in ValueSaves /\ q.step = "rows" /\ q.value = o.value /\ q.label = o.label
      /\ q.before = o.before /\ q.linked = o.linked /\ q.scopes = o.scopes
      /\ q.done = o.done /\ q.late = o.late /\ q.todo = CopiesOf(o)
  BY <1>2, <1>3 DEF ValueSaves, WritingSteps
<1> HIDE DEF q
<1>5. ValueOK(q)
  BY <1>1, <1>2, <1>4 DEF ValueOK, WritingSteps, Linked, CopiesOf
<1> QED
  BY <1>1, <1>4, <1>5, WritingStep DEF WritingSteps

LEMMA RelabelRowInv == ASSUME DictInv, NEW w \in DictWorkers, RelabelRow(w) PROVE DictInv'
<1> DEFINE o == save[w]
<1>1. PICK m \in o.todo :
         /\ ~PhoneLocked(w, m)
         /\ save' = [save EXCEPT ![w].todo = @ \ {m},
                                 ![w].done = IF copied[m].value = o.value THEN @ \cup {m} ELSE @]
  BY DEF RelabelRow
<1> DEFINE d == IF copied[m].value = o.value THEN o.done \cup {m} ELSE o.done
           q == [o EXCEPT !.todo = @ \ {m}, !.done = d]
<1>2. /\ o.step = "rows" /\ save' = [save EXCEPT ![w] = q]
      /\ UNCHANGED <<kind, label, scopes, copied, unguarded, unfollowed>>
  BY <1>1, InvFacts DEF RelabelRow, SaveAt
<1>3. o \in ValueSaves /\ ValueOK(o) /\ Recorded
  BY <1>2, InvFacts, SaveKinds DEF WritingSteps
<1>4. Linked(o) /\ kind = "countries" /\ o.value # 0 /\ o.value \in Values
  BY <1>2, <1>3 DEF ValueOK, Linked, ValueSaves
<1>5. m \in Phones /\ d \subseteq Phones /\ d = IF copied[m].value = o.value THEN o.done \cup {m} ELSE o.done
  BY <1>2, <1>3 DEF ValueOK, ValueSaves
<1> HIDE DEF d, o
<1>6. /\ q \in ValueSaves /\ q.step = "rows" /\ q.value = o.value /\ q.label = o.label
      /\ q.before = o.before /\ q.linked = o.linked /\ q.scopes = o.scopes
      /\ q.done = d /\ q.late = o.late /\ q.todo = o.todo \ {m}
  BY <1>2, <1>3, <1>5 DEF ValueSaves, WritingSteps
<1> HIDE DEF q
<1>7. ValueOK(q)
  BY <1>2, <1>3, <1>4, <1>5, <1>6 DEF ValueOK, WritingSteps, Linked
<1>8. \A n \in q.done \ save[w].done : ~PhoneLocked(w, n)
  BY <1>1, <1>5, <1>6 DEF o
<1> QED
  BY <1>2, <1>6, <1>7, <1>8, WritingStep DEF WritingSteps, o

LEMMA EndRelabelInv == ASSUME DictInv, NEW w \in DictWorkers, EndRelabel(w) PROVE DictInv'
<1> DEFINE o == save[w]
           q == [o EXCEPT !.step = "commit"]
<1>1. /\ o.step = "rows" /\ o.todo = {} /\ save' = [save EXCEPT ![w] = q]
      /\ UNCHANGED <<kind, label, scopes, copied, unguarded, unfollowed>>
  BY InvFacts DEF EndRelabel, SaveAt, GoTo
<1>2. o \in ValueSaves /\ ValueOK(o)
  BY <1>1, InvFacts, SaveKinds DEF WritingSteps
<1>3. /\ q \in ValueSaves /\ q.step = "commit" /\ q.value = o.value /\ q.label = o.label
      /\ q.before = o.before /\ q.linked = o.linked /\ q.scopes = o.scopes
      /\ q.done = o.done /\ q.late = o.late /\ q.todo = {}
  BY <1>1, <1>2, WithStep DEF WritingSteps
<1> HIDE DEF q
<1>4. ValueOK(q)
  BY <1>1, <1>2, <1>3 DEF ValueOK, WritingSteps, Linked
<1> QED
  BY <1>1, <1>3, <1>4, WritingStep DEF WritingSteps

LEMMA ReplaceScopesInv == ASSUME DictInv, NEW w \in DictWorkers, ReplaceScopes(w) PROVE DictInv'
<1> DEFINE o == save[w]
           t == IF o.value = 0 THEN {} ELSE scopes[o.value]
           q == [o EXCEPT !.step = "commit", !.todo = t]
<1>1. /\ o.step = "dependents" /\ ~Linked(o) /\ save' = [save EXCEPT ![w] = q]
      /\ UNCHANGED <<kind, label, scopes, copied, unguarded, unfollowed>>
  BY InvFacts DEF ReplaceScopes, SaveAt
<1>2. o \in ValueSaves /\ ValueOK(o) /\ Recorded
  BY <1>1, InvFacts, SaveKinds DEF WritingSteps
<1>3. t \in SUBSET (Phones \cup Scopes)
  BY <1>2 DEF Recorded, ValueSaves
<1> HIDE DEF t
<1>4. /\ q \in ValueSaves /\ q.step = "commit" /\ q.value = o.value /\ q.label = o.label
      /\ q.before = o.before /\ q.linked = o.linked /\ q.scopes = o.scopes
      /\ q.done = o.done /\ q.late = o.late /\ q.todo = t
  BY <1>2, <1>3 DEF ValueSaves, WritingSteps
<1> HIDE DEF q
<1>5. ValueOK(q)
  BY <1>1, <1>2, <1>4 DEF ValueOK, WritingSteps, Linked, t
<1> QED
  BY <1>1, <1>4, <1>5, WritingStep DEF WritingSteps

LEMMA SubmitPhoneInv == ASSUME DictInv, NEW w \in DictWorkers, SubmitPhone(w) PROVE DictInv'
<1>1. PICK m \in Phones, v \in Values :
         /\ label[v] # Unborn
         /\ save' = [save EXCEPT ![w] = [step |-> "labels", phone |-> m, value |-> v, label |-> Unborn,
                                         new |-> copied[m] = NoPhone, refers |-> FALSE,
                                         outdated |-> FALSE]]
  BY DEF SubmitPhone
<1>2. UNCHANGED <<kind, label, scopes, copied, unguarded, unfollowed>>
  BY DEF SubmitPhone
<1> DEFINE new == copied[m] = NoPhone
           q == [step |-> "labels", phone |-> m, value |-> v, label |-> Unborn,
                 new |-> new, refers |-> FALSE, outdated |-> FALSE]
<1>3. new \in BOOLEAN
  OBVIOUS
<1>4. save' = [save EXCEPT ![w] = q]
  BY <1>1
<1> HIDE DEF new
<1>5. q \in PhoneSaves /\ q.step = "labels" /\ q.value = v
  BY <1>3 DEF PhoneSaves
<1> HIDE DEF q
<1>6. q \notin ValueSaves /\ q.step \notin WritingSteps
  BY <1>5 DEF ValueSaves, WritingSteps
<1>7. ValueOK(q) /\ PhoneOK(q) /\ q \in Saves
  BY <1>1, <1>5, <1>6 DEF ValueOK, PhoneOK, Saves
<1> QED
  BY <1>2, <1>4, <1>5, <1>6, <1>7, PlainStep

LEMMA ReadLabelInv == ASSUME DictInv, NEW w \in DictWorkers, ReadLabel(w) PROVE DictInv'
<1> DEFINE o == save[w]
           n == label[o.value]
           q == [o EXCEPT !.step = "store", !.label = n]
<1>1. /\ o.step = "labels" /\ save' = [save EXCEPT ![w] = q]
      /\ UNCHANGED <<kind, label, scopes, copied, unguarded, unfollowed>>
  BY InvFacts DEF ReadLabel, SaveAt
<1>2. o \in PhoneSaves /\ PhoneOK(o) /\ Recorded
  BY <1>1, InvFacts, SaveKinds
<1>3. n \in Labels
  BY <1>2 DEF PhoneOK, PhoneSaves, Recorded
<1> HIDE DEF n
<1>4. q \in PhoneSaves /\ q.step = "store" /\ q.value = o.value /\ q.label = n
  BY <1>2, <1>3 DEF PhoneSaves
<1> HIDE DEF q
<1>5. q \notin ValueSaves /\ q.step \notin WritingSteps
  BY <1>4 DEF ValueSaves, WritingSteps
<1>6. ValueOK(q) /\ PhoneOK(q) /\ q \in Saves
  BY <1>2, <1>3, <1>4, <1>5 DEF ValueOK, PhoneOK, Saves, n
<1> QED
  BY <1>1, <1>4, <1>5, <1>6, PlainStep

LEMMA StorePhoneInv == ASSUME DictInv, NEW w \in DictWorkers, StorePhone(w) PROVE DictInv'
<1> DEFINE o == save[w]
           refers == copied[o.phone].value # o.value
           q == [o EXCEPT !.step = "stored", !.refers = refers]
<1>1. /\ o.step = "store" /\ ~PhoneLocked(w, o.phone)
      /\ refers => \A u \in DictWorkers :
                     save[u].step \in WritingSteps /\ save[u].value = o.value =>
                        save[u].label = label[o.value]
      /\ UNCHANGED <<kind, label, scopes, copied, unguarded, unfollowed>>
      /\ Drop(w) \/ save' = [save EXCEPT ![w] = q]
  BY InvFacts DEF StorePhone, SaveAt, Writing
<1>2. o \in PhoneSaves /\ PhoneOK(o) /\ Recorded
  BY <1>1, InvFacts, SaveKinds
<1>3. CASE Drop(w)
  BY <1>1, <1>3, DropStep
<1>4. CASE save' = [save EXCEPT ![w] = q]
  <2>1. refers \in BOOLEAN /\ (~refers => copied[o.phone].value = o.value)
    OBVIOUS
  <2>2. \A u \in DictWorkers \ {w} : /\ save[u].step = "stored" => save[u].phone # o.phone
                                     /\ save[u].step \in WritingSteps => o.phone \notin save[u].done
    BY <1>1 DEF PhoneLocked, Storing, SaveAt, Writing
  <2> HIDE DEF refers, o
  <2>3. /\ q \in PhoneSaves /\ q.step = "stored" /\ q.value = o.value /\ q.label = o.label
        /\ q.phone = o.phone /\ q.refers = refers /\ q.outdated = o.outdated
    BY <1>2, <2>1 DEF PhoneSaves
  <2> HIDE DEF q
  <2>4. q \notin ValueSaves /\ q.step \notin WritingSteps
    BY <2>3 DEF ValueSaves, WritingSteps
  <2>5. ValueOK(q) /\ PhoneOK(q) /\ q \in Saves
    BY <1>1, <1>2, <2>1, <2>3, <2>4 DEF ValueOK, PhoneOK, Saves
  <2>6. ASSUME NEW u \in DictWorkers \ {w} PROVE SavesApart(save[u], q) /\ SavesApart(q, save[u])
    BY <1>1, <2>2, <2>3, <2>4 DEF SavesApart
  <2> QED
    BY <1>1, <1>4, <2>5, <2>6, SaveStep
<1> QED
  BY <1>1, <1>3, <1>4

\* The number was locked by nobody else, and no rename that would replace the
\* name can have missed it.
LEMMA CommitPhoneInv == ASSUME DictInv, NEW w \in DictWorkers, CommitPhone(w) PROVE DictInv'
<1> DEFINE o == save[w]
<1>1. /\ o.step = "stored" /\ save' = [save EXCEPT ![w] = NoSave]
      /\ copied' = [copied EXCEPT ![o.phone] = [value |-> o.value, label |-> o.label]]
      /\ unfollowed' = IF o.outdated THEN unfollowed \cup {o.phone} ELSE unfollowed \ {o.phone}
      /\ UNCHANGED <<kind, label, scopes, unguarded>>
  BY DEF CommitPhone, SaveAt, Drop
<1>2. /\ o \in PhoneSaves /\ PhoneOK(o) /\ Recorded /\ LabelsFollow /\ NamesApart
      /\ save \in [DictWorkers -> Saves]
  BY <1>1, InvFacts, SaveKinds DEF DictInv
<1>3. /\ label[o.value] # Unborn /\ o.label \in Labels /\ (~o.outdated => o.label = label[o.value])
      /\ ~o.refers => copied[o.phone].value = o.value
      /\ o.phone \in Phones /\ o.value \in Values /\ o.refers \in BOOLEAN /\ o.outdated \in BOOLEAN
  BY <1>1, <1>2 DEF PhoneOK, PhoneSaves
<1>4. \A u \in DictWorkers \ {w} :
        /\ save[u] \in Saves /\ ValueOK(save[u]) /\ PhoneOK(save[u]) /\ SavesApart(o, save[u])
        /\ save'[u] = save[u]
  BY <1>1, <1>2, InvFacts
<1>5. save'[w] = NoSave /\ save' \in [DictWorkers -> Saves]
  BY <1>1, <1>2, NoSaveOK
<1> HIDE DEF o
<1> DEFINE row == [value |-> o.value, label |-> o.label]
<1>6. /\ copied'[o.phone] = row /\ \A m \in Phones : m # o.phone => copied'[m] = copied[m]
      /\ row.value = o.value /\ row.label = o.label /\ row \in [value: Values, label: Labels]
      /\ copied' \in [Phones -> {NoPhone} \cup [value: Values, label: Labels]]
  BY <1>1, <1>2, <1>3 DEF Recorded
<1> HIDE DEF row
<1>7. Recorded' /\ NamesApart'
  BY <1>1, <1>2, <1>3, <1>6 DEF Recorded, NamesApart
<1>8. LabelsFollow'
  <2> SUFFICES ASSUME NEW m \in Phones, copied'[m] # NoPhone
               PROVE  copied'[m].label = label[copied'[m].value] \/ m \in unfollowed'
    BY <1>1 DEF LabelsFollow
  <2>1. CASE m = o.phone
    BY <1>1, <1>3, <1>6, <2>1
  <2>2. CASE m # o.phone
    BY <1>1, <1>2, <1>3, <1>6, <2>2 DEF LabelsFollow
  <2> QED
    BY <2>1, <2>2
<1>9. ASSUME NEW u \in DictWorkers PROVE ValueOK(save[u])' /\ PhoneOK(save[u])'
  <2>1. CASE u = w
    <3>1. NoSave \notin ValueSaves /\ NoSave \notin PhoneSaves
      BY DEF NoSave, ValueSaves, PhoneSaves, WritingSteps
    <3> QED
      BY <1>5, <2>1, <3>1 DEF ValueOK, PhoneOK
  <2>2. CASE u # w
    <3>1. PICK r \in Saves : r = save[u] /\ ValueOK(r) /\ PhoneOK(r) /\ SavesApart(o, r) /\ save'[u] = r
      BY <1>4, <2>2
    <3>2. o.step = "stored"
      BY <1>1 DEF o
    <3>3. r \in ValueSaves => ValueOK(r)'
      <4> SUFFICES ASSUME r \in ValueSaves PROVE ValueOK(r)'
        OBVIOUS
      <4>1. \A m \in r.done : copied'[m].value = r.value
        <5>1. r.done # {} => r.step \in WritingSteps
          BY <3>1 DEF ValueOK, WritingSteps
        <5>2. o.phone \notin r.done
          BY <3>1, <3>2, <5>1 DEF SavesApart
        <5> QED
          BY <1>6, <3>1, <5>2 DEF ValueOK, ValueSaves
      <4>2. ASSUME r.step \in {"rows", "commit"}, Linked(r), label[r.value] # r.label,
                   NEW m \in Phones, copied'[m].value = r.value
            PROVE  m \in r.done \/ (r.step = "rows" /\ m \in r.todo)
        <5>1. CASE m # o.phone
          BY <1>6, <3>1, <4>2, <5>1 DEF ValueOK
        <5>2. CASE m = o.phone
          <6>1. o.value = r.value /\ r.step \in WritingSteps
            BY <1>6, <4>2, <5>2 DEF WritingSteps
          <6>2. ~o.refers
            BY <3>1, <3>2, <4>2, <6>1 DEF SavesApart
          <6> QED
            BY <1>3, <3>1, <4>2, <5>2, <6>1, <6>2 DEF ValueOK
        <5> QED
          BY <5>1, <5>2
      <4> QED
        BY <1>1, <3>1, <4>1, <4>2 DEF ValueOK, Linked
    <3>4. PhoneOK(r)'
      <4> SUFFICES ASSUME r \in PhoneSaves PROVE PhoneOK(r)'
        BY DEF PhoneOK
      <4>1. r.step = "stored" => r.phone # o.phone /\ r.phone \in Phones
        BY <3>1, <3>2 DEF SavesApart, PhoneSaves
      <4>2. r.step = "stored" => copied'[r.phone] = copied[r.phone]
        BY <1>6, <4>1
      <4> QED
        BY <1>1, <3>1, <4>2 DEF PhoneOK
    <3> QED
      BY <3>1, <3>3, <3>4 DEF ValueOK, PhoneOK
  <2> QED
    BY <2>1, <2>2
<1>10. ASSUME NEW u \in DictWorkers, NEW v \in DictWorkers, u # v PROVE SavesApart(save[u], save[v])'
  <2>1. CASE u # w /\ v # w
    <3>1. PICK r \in Saves, s \in Saves :
            r = save[u] /\ s = save[v] /\ SavesApart(r, s) /\ save'[u] = r /\ save'[v] = s
      <4>1. /\ save[u] \in Saves /\ save'[u] = save[u] /\ save[v] \in Saves /\ save'[v] = save[v]
        BY <1>4, <2>1
      <4>2. SavesApart(save[u], save[v])
        BY <1>10 DEF DictInv
      <4> QED
        BY <4>1, <4>2
    <3>2. SavesApart(r, s)'
      BY <1>1, <3>1 DEF SavesApart
    <3> QED
      BY <3>1, <3>2 DEF SavesApart
  <2>2. CASE u = w \/ v = w
    <3>1. NoSave.step \notin WritingSteps /\ NoSave.step # "stored"
      BY DEF NoSave, WritingSteps
    <3> QED
      BY <1>5, <2>2, <3>1 DEF SavesApart
  <2> QED
    BY <2>1, <2>2
<1> QED
  BY <1>5, <1>7, <1>8, <1>9, <1>10 DEF DictInv

\* Overtaken marks what the commit has overtaken, and changes nothing else.
LEMMA OvertakenValue ==
  ASSUME NEW q \in ValueSaves, NEW v, NEW n, NEW linked, NEW o, o = Overtaken(q, v, n, linked)
  PROVE  /\ o \in ValueSaves /\ o.step = q.step /\ o.value = q.value /\ o.label = q.label
         /\ o.before = q.before /\ o.linked = q.linked /\ o.scopes = q.scopes
         /\ o.todo = q.todo /\ o.done = q.done
         /\ ~o.late => /\ ~q.late
                       /\ q.step \in {"write"} \cup WritingSteps /\ q.value # v => ~Alike(q.label, n)
<1> DEFINE A == q.step \in {"write"} \cup WritingSteps /\ q.value # v /\ Alike(q.label, n)
           B == /\ q.step \in {"store"} \cup (IF linked THEN {} ELSE {"stored"})
                /\ q.value = v /\ label[v] # n
<1>1. ~B
  BY DEF ValueSaves, WritingSteps
<1>2. o = CASE A -> [q EXCEPT !.late = TRUE] [] B -> [q EXCEPT !.outdated = TRUE] [] OTHER -> q
  BY DEF Overtaken
<1>3. o = IF A THEN [q EXCEPT !.late = TRUE] ELSE q
  <2> HIDE DEF A, B
  <2> QED
    BY <1>1, <1>2
<1>4. q.late \in BOOLEAN /\ [q EXCEPT !.late = TRUE].late = TRUE
  BY DEF ValueSaves
<1>5. ~o.late => ~A /\ ~q.late
  BY <1>3, <1>4
<1> HIDE DEF A
<1>6. /\ o \in ValueSaves /\ o.step = q.step /\ o.value = q.value /\ o.label = q.label
      /\ o.before = q.before /\ o.linked = q.linked /\ o.scopes = q.scopes
      /\ o.todo = q.todo /\ o.done = q.done
  BY <1>3 DEF ValueSaves
<1> QED
  BY <1>5, <1>6 DEF A

LEMMA OvertakenPhone ==
  ASSUME NEW q \in PhoneSaves, NEW v, NEW n, NEW linked, NEW o, o = Overtaken(q, v, n, linked)
  PROVE  /\ o \in PhoneSaves /\ o.step = q.step /\ o.value = q.value /\ o.label = q.label
         /\ o.phone = q.phone /\ o.refers = q.refers
         /\ ~o.outdated => /\ ~q.outdated
                           /\ q.value = v /\ (q.step = "store" \/ (q.step = "stored" /\ ~linked))
                                => label[v] = n
<1> DEFINE A == q.step \in {"write"} \cup WritingSteps /\ q.value # v /\ Alike(q.label, n)
           B == /\ q.step \in {"store"} \cup (IF linked THEN {} ELSE {"stored"})
                /\ q.value = v /\ label[v] # n
<1>1. ~A
  BY DEF PhoneSaves, WritingSteps
<1>2. o = CASE A -> [q EXCEPT !.late = TRUE] [] B -> [q EXCEPT !.outdated = TRUE] [] OTHER -> q
  BY DEF Overtaken
<1>3. o = IF B THEN [q EXCEPT !.outdated = TRUE] ELSE q
  <2> HIDE DEF A, B
  <2> QED
    BY <1>1, <1>2
<1>4. q.outdated \in BOOLEAN /\ [q EXCEPT !.outdated = TRUE].outdated = TRUE
  BY DEF PhoneSaves
<1>5. ~o.outdated => ~B /\ ~q.outdated
  BY <1>3, <1>4
<1> HIDE DEF B
<1>6. /\ o \in PhoneSaves /\ o.step = q.step /\ o.value = q.value /\ o.label = q.label
      /\ o.phone = q.phone /\ o.refers = q.refers
  BY <1>3 DEF PhoneSaves
<1> QED
  BY <1>5, <1>6 DEF B

LEMMA OvertakenNone ==
  ASSUME NEW v, NEW n, NEW linked
  PROVE  Overtaken(NoSave, v, n, linked) = NoSave
<1>1. NoSave.step = "idle"
  BY DEF NoSave
<1> QED
  BY <1>1 DEF Overtaken, WritingSteps

\* The name of v is replaced by n: what the transaction w knows of the others.
LEMMA CommitValueFacts ==
  ASSUME DictInv, NEW w \in DictWorkers, NEW v \in Values, NEW o \in ValueSaves, o = save[w],
         o.step = "commit",
         IF o.value # 0 THEN v = o.value ELSE label[v] = Unborn,
         copied' = [m \in Phones |-> IF m \in o.done THEN [value |-> v, label |-> o.label] ELSE copied[m]]
  PROVE  /\ Linked(o) /\ label[v] # o.label =>
              \A m \in Phones : copied[m].value = v => m \in o.done
         /\ \A m \in Phones : copied'[m].value = copied[m].value
         /\ copied' \in [Phones -> {NoPhone} \cup [value: Values, label: Labels]]
         /\ \A u \in DictWorkers \ {w} : save[u].step \in WritingSteps => save[u].value # v
         /\ Linked(o) /\ label[v] # o.label =>
              \A u \in DictWorkers \ {w} : save[u].step = "stored" => save[u].value # v
         /\ ~o.late => \A u \in Values : u # v => ~Alike(label[u], o.label)
         /\ kind = "countries" => o.scopes = {}
<1>1. ValueOK(o) /\ Recorded
  BY InvFacts
<1>2. o.step \in WritingSteps /\ o.value \in Values \cup {0} /\ o.label \in Labels
  BY DEF WritingSteps, ValueSaves
<1>3. Linked(o) => o.value # 0 /\ v = o.value
  BY <1>1 DEF ValueOK, Linked
<1>4. Linked(o) /\ label[v] # o.label => \A m \in Phones : copied[m].value = v => m \in o.done
  BY <1>1, <1>3 DEF ValueOK
<1>5. \A m \in o.done : copied[m].value = v /\ m \in Phones
  BY <1>1 DEF ValueOK, ValueSaves
<1>6. \A m \in Phones : copied'[m].value = copied[m].value
  BY <1>5
<1>7. copied' \in [Phones -> {NoPhone} \cup [value: Values, label: Labels]]
  <2>1. [value |-> v, label |-> o.label] \in [value: Values, label: Labels]
    BY <1>2
  <2> QED
    BY <1>1, <2>1 DEF Recorded
<1>8. ASSUME NEW u \in DictWorkers \ {w}, save[u].step \in WritingSteps PROVE save[u].value # v
  <2>1. save[u] \in ValueSaves /\ ValueOK(save[u]) /\ SavesApart(o, save[u])
    BY <1>8, InvFacts, SaveKinds
  <2>2. CASE o.value # 0
    BY <1>2, <1>8, <2>1, <2>2 DEF SavesApart
  <2>3. CASE o.value = 0
    BY <2>1, <2>3, BornLabels DEF ValueOK
  <2> QED
    BY <2>2, <2>3
<1>9. ASSUME Linked(o), label[v] # o.label, NEW u \in DictWorkers \ {w}, save[u].step = "stored"
      PROVE  save[u].value # v
  <2>1. save[u] \in PhoneSaves /\ PhoneOK(save[u]) /\ SavesApart(save[u], o)
    BY <1>9, InvFacts, SaveKinds
  <2>2. save[u].phone \in Phones /\ save[u].phone \notin o.done /\ save[u].refers \in BOOLEAN
    BY <1>2, <1>9, <2>1 DEF SavesApart, PhoneSaves
  <2>3. SUFFICES ASSUME save[u].value = v PROVE FALSE
    OBVIOUS
  <2>4. ~save[u].refers
    BY <1>2, <1>3, <1>9, <2>1, <2>3 DEF SavesApart
  <2>5. copied[save[u].phone].value = v
    BY <1>9, <2>1, <2>3, <2>4 DEF PhoneOK
  <2> QED
    BY <1>4, <1>9, <2>2, <2>5
<1>10. ~o.late => \A u \in Values : u # v => ~Alike(label[u], o.label)
  BY <1>1, <1>2, BornLabels DEF ValueOK
<1>11. kind = "countries" => o.scopes = {}
  BY <1>1 DEF ValueOK
<1> QED
  BY <1>4, <1>6, <1>7, <1>8, <1>9, <1>10, <1>11

LEMMA CommitValueInv == ASSUME DictInv, NEW w \in DictWorkers, CommitValue(w) PROVE DictInv'
<1>0. save[w].step = "commit" /\ save[w] \in ValueSaves
  BY InvFacts, SaveKinds DEF CommitValue, SaveAt, WritingSteps
<1> DEFINE o == save[w]
<1>1. o \in ValueSaves /\ o = save[w]
  BY <1>0
<1>2. PICK v \in Values :
         /\ IF o.value # 0 THEN v = o.value
            ELSE label[v] = Unborn /\ \A u \in 1 .. v - 1 : label[u] # Unborn
         /\ label' = [label EXCEPT ![v] = o.label]
         /\ scopes' = [scopes EXCEPT ![v] = (@ \ o.todo) \cup o.scopes]
         /\ copied' = [m \in Phones |-> IF m \in o.done THEN [value |-> v, label |-> o.label]
                                        ELSE copied[m]]
         /\ unguarded' = IF o.late THEN unguarded \cup {v} ELSE unguarded \ {v}
         /\ unfollowed' = IF Linked(o) THEN unfollowed \ o.done
                          ELSE IF label[v] # o.label
                               THEN unfollowed \cup {m \in Phones : copied[m].value = v}
                               ELSE unfollowed
         /\ save' = [u \in DictWorkers |-> IF u = w THEN NoSave
                                           ELSE Overtaken(save[u], v, o.label, Linked(o))]
  BY DEF CommitValue
<1> HIDE DEF o
<1>3. UNCHANGED kind
  BY DEF CommitValue
<1>4. /\ Linked(o) /\ label[v] # o.label =>
              \A m \in Phones : copied[m].value = v => m \in o.done
      /\ \A m \in Phones : copied'[m].value = copied[m].value
      /\ copied' \in [Phones -> {NoPhone} \cup [value: Values, label: Labels]]
      /\ \A u \in DictWorkers \ {w} : save[u].step \in WritingSteps => save[u].value # v
      /\ Linked(o) /\ label[v] # o.label =>
              \A u \in DictWorkers \ {w} : save[u].step = "stored" => save[u].value # v
      /\ ~o.late => \A u \in Values : u # v => ~Alike(label[u], o.label)
      /\ kind = "countries" => o.scopes = {}
  <2>1. o.step = "commit" /\ (IF o.value # 0 THEN v = o.value ELSE label[v] = Unborn)
    BY <1>0, <1>1, <1>2
  <2>2. copied' = [m \in Phones |-> IF m \in o.done THEN [value |-> v, label |-> o.label]
                                   ELSE copied[m]]
    BY <1>2
  <2> QED
    BY <1>1, <2>1, <2>2, CommitValueFacts
<1>5. Recorded /\ NamesApart /\ LabelsFollow /\ save \in [DictWorkers -> Saves]
  BY DEF DictInv
<1>6. /\ o.label \in Labels /\ o.label # Unborn /\ o.scopes \in SUBSET Scopes
      /\ o.done \subseteq Phones
  BY <1>1, BornLabels DEF ValueSaves
<1>7. /\ \A u \in Values : label'[u] = IF u = v THEN o.label ELSE label[u]
      /\ \A u \in Values : u # v => scopes'[u] = scopes[u]
      /\ scopes'[v] = (scopes[v] \ o.todo) \cup o.scopes
  BY <1>2, <1>5 DEF Recorded
<1>8. Recorded'
  <2>1. label' \in [Values -> Labels \cup {Unborn}] /\ scopes' \in [Values -> SUBSET Scopes]
    BY <1>2, <1>5, <1>6 DEF Recorded
  <2>2. \A u \in Values : label'[u] = Unborn \/ kind = "countries" => scopes'[u] = {}
    BY <1>4, <1>5, <1>6, <1>7 DEF Recorded
  <2>3. unguarded' \subseteq Values /\ unfollowed' \subseteq Phones
    BY <1>2, <1>5 DEF Recorded
  <2> QED
    BY <1>3, <1>4, <1>5, <2>1, <2>2, <2>3 DEF Recorded
<1>9. NamesApart'
  <2>1. \A a, b : Alike(a, b) => Alike(b, a)
    BY DEF Alike
  <2> SUFFICES ASSUME NEW a \in Values, NEW b \in Values, a # b, Alike(label'[a], label'[b])
               PROVE  a \in unguarded' \/ b \in unguarded'
    BY DEF NamesApart, Alike
  <2>2. CASE a # v /\ b # v
    BY <1>2, <1>5, <1>7, <2>2 DEF NamesApart
  <2>3. CASE a = v \/ b = v
    BY <1>2, <1>4, <1>7, <2>1, <2>3
  <2> QED
    BY <2>2, <2>3
<1>10. LabelsFollow'
  <2> SUFFICES ASSUME NEW m \in Phones, copied'[m] # NoPhone
               PROVE  copied'[m].label = label'[copied'[m].value] \/ m \in unfollowed'
    BY DEF LabelsFollow
  <2>1. CASE m \in o.done
    BY <1>2, <1>7, <2>1
  <2>2. CASE m \notin o.done
    <3>1. copied'[m] = copied[m] /\ copied[m] # NoPhone
      BY <1>2, <2>2
    <3>2. copied[m].value \in Values
      BY <1>5, <3>1 DEF Recorded
    <3>3. copied[m].label = label[copied[m].value] \/ m \in unfollowed
      BY <1>5, <3>1 DEF LabelsFollow
    <3>4. CASE copied[m].value # v
      BY <1>2, <1>7, <2>2, <3>1, <3>2, <3>3, <3>4
    <3>5. CASE copied[m].value = v
      BY <1>2, <1>4, <1>7, <2>2, <3>1, <3>3, <3>5
    <3> QED
      BY <3>4, <3>5
  <2> QED
    BY <2>1, <2>2
<1>11. ASSUME NEW u \in DictWorkers \ {w}, save[u] \in ValueSaves
       PROVE  save'[u] \in ValueSaves /\ ValueOK(save[u])'
  <2>1. PICK r \in ValueSaves : r = save[u]
    BY <1>11
  <2>2. PICK q : q = Overtaken(r, v, o.label, Linked(o))
    OBVIOUS
  <2>3. /\ q \in ValueSaves /\ q.step = r.step /\ q.value = r.value /\ q.label = r.label
        /\ q.before = r.before /\ q.linked = r.linked /\ q.scopes = r.scopes
        /\ q.todo = r.todo /\ q.done = r.done
        /\ ~q.late => /\ ~r.late
                      /\ r.step \in {"write"} \cup WritingSteps /\ r.value # v => ~Alike(r.label, o.label)
    BY <2>2, OvertakenValue
  <2>4. save'[u] = q /\ ValueOK(r)
    BY <1>2, <2>1, <2>2, InvFacts
  <2>5. r.step \in WritingSteps => r.value # v
    BY <1>4, <2>1
  <2>6. r.value \in Values \cup {0}
    BY DEF ValueSaves
  <2>7. r.step \in WritingSteps /\ r.value # 0 =>
          label'[r.value] = label[r.value] /\ scopes'[r.value] = scopes[r.value]
    BY <1>7, <2>5, <2>6
  <2>8. ASSUME q.step \in {"write"} \cup WritingSteps, ~q.late, NEW x \in Values \ {q.value}
        PROVE  ~Alike(label'[x], q.label)
    <3>1. \A a, b : Alike(a, b) => Alike(b, a)
      BY DEF Alike
    <3>2. CASE x = v
      BY <1>7, <2>3, <2>8, <3>1, <3>2
    <3>3. CASE x # v
      BY <1>7, <2>3, <2>4, <2>8, <3>3 DEF ValueOK
    <3> QED
      BY <3>2, <3>3
  <2>9. q.step = "commit" /\ ~Linked(q) => q.todo = IF q.value = 0 THEN {} ELSE scopes'[q.value]
    BY <2>3, <2>4, <2>7 DEF ValueOK, Linked, WritingSteps
  <2>10. ASSUME q.step \in {"rows", "commit"}, Linked(q), label'[q.value] # q.label,
                NEW m \in Phones, copied'[m].value = q.value
         PROVE  m \in q.done \/ (q.step = "rows" /\ m \in q.todo)
    <3>1. Linked(r) /\ r.value # 0 /\ copied[m].value = r.value /\ r.step \in WritingSteps
      BY <1>4, <2>3, <2>4, <2>10 DEF Linked, ValueOK, WritingSteps
    <3> QED
      BY <2>3, <2>4, <2>7, <2>10, <3>1 DEF ValueOK
  <2>11. q.value # 0 => label'[q.value] # Unborn
    BY <1>6, <1>7, <2>3, <2>4, <2>6 DEF ValueOK
  <2>12. \A m \in q.done : copied'[m].value = q.value
    BY <1>4, <2>3, <2>4 DEF ValueOK, ValueSaves
  <2>13. /\ q.linked => q.value # 0 /\ kind' = "countries"
         /\ q.step = "before" => q.value # 0
         /\ kind' = "countries" => q.scopes = {}
         /\ q.step = "rows" => Linked(q) /\ q.todo \subseteq Phones
         /\ q.done # {} => q.value # 0 /\ q.step \in {"rows", "commit"}
    BY <1>3, <2>3, <2>4 DEF ValueOK, Linked
  <2>14. ValueOK(q)'
    BY <2>8, <2>9, <2>10, <2>11, <2>12, <2>13 DEF ValueOK, Linked, Alike
  <2> QED
    BY <2>3, <2>4, <2>14 DEF ValueOK
<1>12. ASSUME NEW u \in DictWorkers \ {w}, save[u] \in PhoneSaves
       PROVE  save'[u] \in PhoneSaves /\ PhoneOK(save[u])'
  <2>1. PICK r \in PhoneSaves : r = save[u]
    BY <1>12
  <2>2. PICK q : q = Overtaken(r, v, o.label, Linked(o))
    OBVIOUS
  <2>3. /\ q \in PhoneSaves /\ q.step = r.step /\ q.value = r.value /\ q.label = r.label
        /\ q.phone = r.phone /\ q.refers = r.refers
        /\ ~q.outdated => /\ ~r.outdated
                          /\ r.value = v /\ (r.step = "store" \/ (r.step = "stored" /\ ~Linked(o)))
                               => label[v] = o.label
    BY <2>2, OvertakenPhone
  <2>4. save'[u] = q /\ PhoneOK(r)
    BY <1>2, <2>1, <2>2, InvFacts
  <2>5. /\ r.step \in {"labels", "store", "stored"} /\ r.value \in Values /\ r.phone \in Phones
    BY DEF PhoneSaves
  <2>6. r.value = v /\ r.step = "stored" /\ Linked(o) => label[v] = o.label
    BY <1>4, <2>1
  <2>7. q.step # "labels" => q.label \in Labels /\ (~q.outdated => q.label = label'[q.value])
    BY <1>7, <2>3, <2>4, <2>5, <2>6 DEF PhoneOK
  <2>8. /\ label'[q.value] # Unborn
        /\ q.step = "stored" /\ ~q.refers => copied'[q.phone].value = q.value
    BY <1>4, <1>6, <1>7, <2>3, <2>4, <2>5 DEF PhoneOK
  <2>9. PhoneOK(q)'
    BY <2>7, <2>8 DEF PhoneOK
  <2> QED
    BY <2>3, <2>4, <2>9 DEF PhoneOK
<1>13. \A q : /\ q \in ValueSaves => q \notin PhoneSaves /\ q \in Saves /\ q # NoSave
              /\ q \in PhoneSaves => q \notin ValueSaves /\ q \in Saves /\ q # NoSave
  BY DEF ValueSaves, PhoneSaves, Saves, NoSave, WritingSteps
<1>14. NoSave \notin ValueSaves /\ NoSave \notin PhoneSaves
  BY <1>13
<1>15. \A u \in DictWorkers :
         \/ save'[u] = NoSave
         \/ u # w /\ save[u] \in ValueSaves
         \/ u # w /\ save[u] \in PhoneSaves
  BY <1>2, <1>5, OvertakenNone DEF Saves
<1>16. \A u \in DictWorkers : save'[u] \in Saves /\ ValueOK(save[u])' /\ PhoneOK(save[u])'
  <2> SUFFICES ASSUME NEW u \in DictWorkers
               PROVE  save'[u] \in Saves /\ ValueOK(save[u])' /\ PhoneOK(save[u])'
    OBVIOUS
  <2>1. CASE save'[u] = NoSave
    BY <1>14, <2>1 DEF ValueOK, PhoneOK, Saves
  <2>2. CASE u # w /\ save[u] \in ValueSaves
    BY <1>11, <1>13, <2>2 DEF PhoneOK
  <2>3. CASE u # w /\ save[u] \in PhoneSaves
    BY <1>12, <1>13, <2>3 DEF ValueOK
  <2> QED
    BY <1>15, <2>1, <2>2, <2>3
<1>17. save' \in [DictWorkers -> Saves]
  BY <1>2, <1>16
\* What the others hold is as before.
<1>18. ASSUME NEW u \in DictWorkers \ {w}, NEW q, NEW r, q = save[u], r = save'[u]
       PROVE  /\ r.step = q.step
              /\ q.step \in WritingSteps => /\ r.value = q.value /\ r.label = q.label
                                            /\ r.done = q.done /\ q.value # v
              /\ q.step = "stored" => r.phone = q.phone /\ r.refers = q.refers /\ r.value = q.value
                                      /\ q.value \in Values
  <2>1. r = Overtaken(q, v, o.label, Linked(o)) /\ q \in Saves
    BY <1>2, <1>5, <1>18
  <2>2. CASE q \in ValueSaves
    <3>1. q.step # "stored"
      BY <2>2 DEF ValueSaves, WritingSteps
    <3> QED
      BY <1>4, <1>18, <2>1, <2>2, <3>1, OvertakenValue
  <2>3. CASE q \in PhoneSaves
    <3>1. q.step \notin WritingSteps /\ q.value \in Values
      BY <2>3 DEF PhoneSaves, WritingSteps
    <3> QED
      BY <2>1, <2>3, <3>1, OvertakenPhone
  <2>4. CASE q = NoSave
    BY <2>1, <2>4, OvertakenNone DEF NoSave, WritingSteps
  <2> QED
    BY <2>1, <2>2, <2>3, <2>4 DEF Saves
<1>19. ASSUME NEW u \in DictWorkers, NEW x \in DictWorkers, u # x PROVE SavesApart(save[u], save[x])'
  <2>1. CASE u = w \/ x = w
    <3>1. save'[w] = NoSave /\ NoSave.step \notin WritingSteps /\ NoSave.step # "stored"
      BY <1>2 DEF NoSave, WritingSteps
    <3> QED
      BY <2>1, <3>1 DEF SavesApart
  <2>2. CASE u # w /\ x # w
    <3>1. PICK q : q = save[u]
      OBVIOUS
    <3>2. PICK r : r = save[x]
      OBVIOUS
    <3>3. SavesApart(q, r)
      BY <1>19, <3>1, <3>2 DEF DictInv
    <3>4. /\ save'[u].step = q.step
          /\ q.step \in WritingSteps => save'[u].value = q.value
          /\ q.step = "stored" => /\ save'[u].phone = q.phone /\ save'[u].refers = q.refers
                                  /\ save'[u].value = q.value /\ q.value \in Values
      BY <1>18, <2>2, <3>1
    <3>5. /\ save'[x].step = r.step
          /\ r.step \in WritingSteps => /\ save'[x].value = r.value /\ save'[x].label = r.label
                                        /\ save'[x].done = r.done /\ r.value # v
          /\ r.step = "stored" => save'[x].phone = r.phone
      BY <1>18, <2>2, <3>2
    <3> QED
      BY <1>7, <3>3, <3>4, <3>5 DEF SavesApart
  <2> QED
    BY <2>1, <2>2
<1> QED
  BY <1>8, <1>9, <1>10, <1>16, <1>17, <1>19 DEF DictInv

LEMMA DictInvInit == ASSUME DictInit PROVE DictInv
<1>1. \A w \in DictWorkers : save[w] = NoSave
  BY DEF DictInit
<1>2. \A w \in DictWorkers : ValueOK(save[w]) /\ PhoneOK(save[w])
  BY <1>1, NoSaveOK
<1>3. \A u, w \in DictWorkers : SavesApart(save[u], save[w])
  BY <1>1, NoSaveOK
<1>4. save \in [DictWorkers -> Saves]
  BY NoSaveOK DEF DictInit
<1>5. Recorded /\ NamesApart /\ LabelsFollow
  BY DEF DictInit, Recorded, NamesApart, LabelsFollow, Alike
<1> QED
  BY <1>2, <1>3, <1>4, <1>5 DEF DictInv

LEMMA DictInvNext == ASSUME DictInv, [DictNext]_dictVars PROVE DictInv'
<1>1. CASE UNCHANGED dictVars
  <2>1. /\ Recorded' /\ NamesApart' /\ LabelsFollow' /\ save' \in [DictWorkers -> Saves]
    BY <1>1 DEF DictInv, Recorded, NamesApart, LabelsFollow, dictVars
  <2>2. ASSUME NEW w \in DictWorkers PROVE ValueOK(save[w])' /\ PhoneOK(save[w])'
    BY <1>1, InvFacts DEF ValueOK, PhoneOK, dictVars
  <2>3. ASSUME NEW u \in DictWorkers, NEW w \in DictWorkers, u # w PROVE SavesApart(save[u], save[w])'
    <3>1. SavesApart(save[u], save[w])
      BY <2>3 DEF DictInv
    <3> QED
      BY <1>1, <3>1 DEF SavesApart, dictVars
  <2> QED
    BY <2>1, <2>2, <2>3 DEF DictInv
<1>2. ASSUME NEW w \in DictWorkers, LeaveSave(w) PROVE DictInv'
  BY <1>2, DropStep DEF LeaveSave
<1> QED
  BY <1>1, <1>2, SubmitInv, ReadBeforeInv, CheckNameInv, WriteNameInv, StartRelabelInv,
     RelabelRowInv, EndRelabelInv, ReplaceScopesInv, CommitValueInv, SubmitPhoneInv,
     ReadLabelInv, StorePhoneInv, CommitPhoneInv DEF DictNext

\* Names, copied names, scopes and the requests in progress fit together.
THEOREM DictionariesInvariant == DictSpec => []DictInv
BY DictInvInit, DictInvNext, PTL DEF DictSpec

\* Two values with names that fold to the same were not both checked against
\* each other.
THEOREM SimilarNamesUnguarded == DictSpec => []NamesApart
BY DictionariesInvariant, PTL DEF DictInv

\* A number shows the name of its GEO, or a rename left it behind.
THEOREM CopiedNamesFollow == DictSpec => []LabelsFollow
BY DictionariesInvariant, PTL DEF DictInv

\* A linked rename has every number of its GEO when it commits, or finds the
\* name in force already.
THEOREM LinkedRenameReaches == DictSpec => []RenameReaches
<1>1. ASSUME DictInv PROVE RenameReaches
  <2> SUFFICES ASSUME NEW w \in DictWorkers, SaveAt(w, "commit"), Linked(save[w]),
                      NEW m \in Phones, copied[m].value = save[w].value, m \notin save[w].done
               PROVE  /\ label[save[w].value] = save[w].label
                      /\ copied[m].label = save[w].label \/ m \in unfollowed
    BY DEF RenameReaches
  <2>1. /\ save[w] \in ValueSaves /\ ValueOK(save[w]) /\ save[w].step = "commit"
        /\ Recorded /\ LabelsFollow
    BY <1>1, InvFacts, SaveKinds DEF SaveAt, WritingSteps, DictInv
  <2>2. label[save[w].value] = save[w].label /\ save[w].value # 0
    BY <2>1 DEF ValueOK, Linked
  <2>3. copied[m] # NoPhone
    BY <2>2 DEF NoPhone
  <2> QED
    BY <2>1, <2>2, <2>3 DEF LabelsFollow
<1> QED
  BY <1>1, DictionariesInvariant, PTL

\* A save replaces the scopes of a reason by those of its form: nobody changes
\* them between the moment it reads which to delete and its commit.
THEOREM ScopesReplacedWhole == DictSpec => ScopesWhole
<1>1. ASSUME DictInv, [DictNext]_dictVars, NEW v \in Values, scopes'[v] # scopes[v]
      PROVE  \E w \in DictWorkers : SaveAt(w, "commit") /\ save[w].value \in {0, v}
                                    /\ scopes'[v] = save[w].scopes
  <2>1. PICK w \in DictWorkers : CommitValue(w)
    BY <1>1, Zenon DEF DictNext, dictVars, SubmitCreate, SubmitDirect, SubmitUpdate, ReadBefore, CheckName,
       WriteName, StartRelabel, RelabelRow, EndRelabel, ReplaceScopes, SubmitPhone, ReadLabel,
       StorePhone, CommitPhone, LeaveSave
  <2>2. /\ SaveAt(w, "commit") /\ save[w] \in ValueSaves /\ ValueOK(save[w])
        /\ save[w].step = "commit" /\ Recorded
    BY <1>1, <2>1, InvFacts, SaveKinds DEF CommitValue, SaveAt, WritingSteps
  <2>3. PICK u \in Values :
          /\ IF save[w].value # 0 THEN u = save[w].value ELSE label[u] = Unborn
          /\ scopes' = [scopes EXCEPT ![u] = (@ \ save[w].todo) \cup save[w].scopes]
    BY <2>1 DEF CommitValue
  <2>4. u = v /\ scopes'[v] = (scopes[v] \ save[w].todo) \cup save[w].scopes
    BY <1>1, <2>2, <2>3 DEF Recorded
  <2>5. save[w].value \in {0, v}
    BY <2>3, <2>4
  <2>6. scopes[v] \ save[w].todo = {} \/ kind = "countries"
    <3>1. CASE Linked(save[w])
      BY <2>2, <3>1 DEF ValueOK, Linked
    <3>2. CASE ~Linked(save[w]) /\ save[w].value # 0
      BY <2>2, <2>3, <2>4, <3>2 DEF ValueOK
    <3>3. CASE save[w].value = 0
      BY <2>2, <2>3, <2>4, <3>3 DEF Recorded
    <3> QED
      BY <3>1, <3>2, <3>3
  <2>7. kind = "countries" => scopes[v] = {}
    BY <2>2 DEF Recorded
  <2>8. scopes'[v] = save[w].scopes
    BY <2>4, <2>6, <2>7
  <2>9. SaveAt(w, "commit")
    BY <2>2
  <2> QED
    BY <2>5, <2>8, <2>9, Zenon
<1>2. DictInv /\ [DictNext]_dictVars =>
        [\A v \in Values : scopes'[v] # scopes[v] =>
           \E w \in DictWorkers : SaveAt(w, "commit") /\ save[w].value \in {0, v}
                                  /\ scopes'[v] = save[w].scopes]_dictVars
  BY <1>1
<1> QED
  BY <1>2, DictionariesInvariant, PTL DEF DictSpec, ScopesWhole

--------------------------------------------------------------------------------
(***************************************************************************)
(* Campaigns have one number only if they were created together, and the   *)
(* change log names the row that an edit replaced: for any numbers of      *)
(* requests, campaigns, servers and GEOs.                                  *)
(***************************************************************************)

NewCardTasks ==
    [step: {"check", "write", "commit"}, id: Cards \cup {0}, row: CardRows, late: BOOLEAN]

EditCardTasks ==
    [step: {"old", "edit", "commit"}, id: Cards, shown: CardRows, old: CardRows \cup {NoCard},
     row: CardRows, fresh: BOOLEAN, late: {FALSE}]

CardsTyped ==
    /\ card \in [Cards -> CardRows \cup {NoCard}]
    /\ task \in [CardWorkers -> {NoTask} \cup NewCardTasks \cup EditCardTasks]
    /\ doubled \subseteq Cards

\* A new campaign that found its number free finds it free until its commit,
\* or knows better; one that is changed keeps its number.
NumberKept(q) ==
    /\ q.step = "check" => q.id = 0
    /\ q.step \in {"write", "commit"} /\ q.id = 0 /\ ~q.late => Taken(q.row) = {}
    /\ q.step \in {"write", "old", "edit", "commit"} /\ q.id # 0 =>
          IsCard(q.id) /\ card[q.id].external = q.row.external

\* A form whose updated_at is still that of the row displays the row.
ShownTrue(q) ==
    /\ q.fresh => card[q.id] = q.shown
    /\ q.step = "edit" /\ q.fresh => q.old = q.shown
    /\ q.step = "commit" => card[q.id] = q.shown /\ q.old = q.shown

TaskKept(w) ==
    /\ task[w] # NoTask => NumberKept(task[w])
    /\ task[w] \in EditCardTasks => ShownTrue(task[w])

\* One transaction at most has written the row of a campaign.
WritersApart ==
    \A w, v \in CardWorkers :
        w # v /\ Wrote(w) /\ Wrote(v) /\ task[w].id # 0 => task[w].id # task[v].id

CardInv == CardsTyped /\ (\A w \in CardWorkers : TaskKept(w)) /\ WritersApart /\ NumbersApart

LEMMA CardsNamed ==
  ASSUME CardsTyped
  PROVE  \A n \in Cards : /\ IsCard(n) <=> card[n] \in CardRows
                          /\ IsCard(n) <=> card[n].external \in ExternalIds
BY CardAssumption DEF CardsTyped, IsCard, CardRows, NoCard

\* The three kinds of task, told apart by their fields.
LEMMA TaskKinds ==
  ASSUME NEW q \in {NoTask} \cup NewCardTasks \cup EditCardTasks
  PROVE  /\ q = NoTask <=> q.step = "idle"
         /\ q \in EditCardTasks <=> "shown" \in DOMAIN q
         /\ q # NoTask => /\ q.step \in {"check", "write", "old", "edit", "commit"}
                          /\ q.id \in Cards \cup {0} /\ q.row \in CardRows /\ q.late \in BOOLEAN
         /\ q \in EditCardTasks => /\ q.id \in Cards /\ q.fresh \in BOOLEAN /\ q.id # 0
                                   /\ q.shown \in CardRows /\ ~q.late
                                   /\ q.step \in {"old", "edit", "commit"}
         /\ q.step \in {"check", "write"} => q \in NewCardTasks
         /\ q.step \in {"old", "edit"} => q \in EditCardTasks
<1>1. CASE q = NoTask
  <2>1. q.step = "idle" /\ DOMAIN q = {"step"}
    BY <1>1 DEF NoTask
  <2>2. q \notin EditCardTasks
    BY <2>1 DEF EditCardTasks
  <2> QED
    BY <1>1, <2>1, <2>2
<1>2. CASE q \in NewCardTasks
  <2>1. /\ q.step \in {"check", "write", "commit"} /\ DOMAIN q = {"step", "id", "row", "late"}
        /\ q.id \in Cards \cup {0} /\ q.row \in CardRows /\ q.late \in BOOLEAN
    BY <1>2 DEF NewCardTasks
  <2>2. \A e \in EditCardTasks : "shown" \in DOMAIN e
    BY DEF EditCardTasks
  <2>3. q # NoTask
    BY <2>1 DEF NoTask
  <2> QED
    BY <1>2, <2>1, <2>2, <2>3
<1>3. CASE q \in EditCardTasks
  <2>1. /\ q.step \in {"old", "edit", "commit"} /\ "shown" \in DOMAIN q
        /\ q.id \in Cards /\ q.row \in CardRows /\ q.late = FALSE
        /\ q.fresh \in BOOLEAN /\ q.shown \in CardRows
    BY <1>3 DEF EditCardTasks
  <2>2. q.id # 0 /\ q # NoTask
    BY <2>1 DEF Cards, NoTask
  <2> QED
    BY <1>3, <2>1, <2>2
<1> QED
  BY <1>1, <1>2, <1>3

\* A request takes its next step without a commit.
LEMMA ContinueInv ==
  ASSUME CardInv, NEW w \in CardWorkers, NEW q \in {NoTask} \cup NewCardTasks \cup EditCardTasks,
         Continue(w, q), q # NoTask => NumberKept(q), q \in EditCardTasks => ShownTrue(q),
         q.step = "commit" /\ q.id # 0 =>
            \A v \in CardWorkers \ {w} : Wrote(v) => task[v].id # q.id
  PROVE  CardInv'
<1>1. /\ task' = [task EXCEPT ![w] = q] /\ UNCHANGED <<card, doubled>>
      /\ task \in [CardWorkers -> {NoTask} \cup NewCardTasks \cup EditCardTasks]
  BY DEF Continue, CardInv, CardsTyped
<1>2. CardsTyped' /\ NumbersApart'
  BY <1>1 DEF CardInv, CardsTyped, NumbersApart, IsCard
<1>3. task'[w] = q /\ \A v \in CardWorkers \ {w} : task'[v] = task[v]
  BY <1>1
<1>4. \A v \in CardWorkers : TaskKept(v)'
  <2>1. TaskKept(w)'
    BY <1>1, <1>3 DEF TaskKept, NumberKept, ShownTrue, Taken, IsCard
  <2>2. \A v \in CardWorkers \ {w} : TaskKept(v)'
    BY <1>1, <1>3 DEF CardInv, TaskKept, NumberKept, ShownTrue, Taken, IsCard
  <2> QED
    BY <2>1, <2>2
<1>5. WritersApart'
  <2> SUFFICES ASSUME NEW u \in CardWorkers, NEW v \in CardWorkers, u # v,
                      Wrote(u)', Wrote(v)', task'[u].id # 0, task'[u].id = task'[v].id
               PROVE  FALSE
    BY DEF WritersApart
  <2>1. CASE u = w
    BY <1>3, <2>1 DEF Wrote, TaskAt
  <2>2. CASE v = w
    BY <1>3, <2>2 DEF Wrote, TaskAt
  <2>3. CASE u # w /\ v # w
    BY <1>3, <2>3 DEF Wrote, TaskAt, CardInv, WritersApart
  <2> QED
    BY <2>1, <2>2, <2>3
<1> QED
  BY <1>2, <1>4, <1>5 DEF CardInv

LEMMA ActiveTask ==
  ASSUME CardInv, NEW w \in CardWorkers
  PROVE  /\ task[w] \in {NoTask} \cup NewCardTasks \cup EditCardTasks /\ CardsTyped
         /\ task[w] # NoTask => NumberKept(task[w])
         /\ task[w] \in EditCardTasks => ShownTrue(task[w])
BY DEF CardInv, CardsTyped, TaskKept

LEMMA NoTaskInv == ASSUME CardInv, NEW w \in CardWorkers, Continue(w, NoTask) PROVE CardInv'
<1>1. NoTask \notin EditCardTasks /\ NoTask.step # "commit"
  BY TaskKinds DEF NoTask
<1> QED
  BY <1>1, ContinueInv

LEMMA SubmitCardInv == ASSUME CardInv, NEW w \in CardWorkers, SubmitCard(w) PROVE CardInv'
<1>1. PICK row \in CardRows : Continue(w, [step |-> "check", id |-> 0, row |-> row, late |-> FALSE])
  BY DEF SubmitCard
<1> DEFINE q == [step |-> "check", id |-> 0, row |-> row, late |-> FALSE]
<1>2. q \in NewCardTasks /\ q.step = "check" /\ q.id = 0
  BY DEF NewCardTasks
<1>3. q \notin EditCardTasks /\ NumberKept(q)
  BY <1>2, TaskKinds DEF NumberKept
<1> QED
  BY <1>1, <1>2, <1>3, ContinueInv

LEMMA CheckCardInv == ASSUME CardInv, NEW w \in CardWorkers, CheckCard(w) PROVE CardInv'
<1> DEFINE q == [task[w] EXCEPT !.step = "write"]
<1>1. CASE Taken(task[w].row) # {}
  BY <1>1, NoTaskInv DEF CheckCard
<1>2. CASE Taken(task[w].row) = {}
  <2>1. task[w] \in NewCardTasks /\ task[w].step = "check" /\ Continue(w, q)
    BY <1>2, ActiveTask, TaskKinds DEF CheckCard, TaskAt
  <2>2. q \in NewCardTasks /\ q.step = "write" /\ q.row = task[w].row /\ q.id = task[w].id
    BY <2>1 DEF NewCardTasks
  <2>3. q \notin EditCardTasks
    BY <2>2, TaskKinds
  <2>4. NumberKept(q)
    BY <1>2, <2>1, <2>2, ActiveTask, TaskKinds DEF NumberKept
  <2> QED
    BY <2>1, <2>2, <2>3, <2>4, ContinueInv
<1> QED
  BY <1>1, <1>2

LEMMA ReadCardInv == ASSUME CardInv, NEW w \in CardWorkers, ReadCard(w) PROVE CardInv'
<1>0. PICK row \in CardRows, kept \in BOOLEAN : \E n \in Taken(row) :
        Continue(w, [step |-> "write", id |-> n, late |-> FALSE,
                     row |-> [row EXCEPT !.geo = IF kept THEN card[n].geo ELSE @]])
  BY DEF ReadCard
<1>1. PICK n \in Taken(row) :
        Continue(w, [step |-> "write", id |-> n, late |-> FALSE,
                     row |-> [row EXCEPT !.geo = IF kept THEN card[n].geo ELSE @]])
  BY <1>0
<1> DEFINE new == [row EXCEPT !.geo = IF kept THEN card[n].geo ELSE @]
           q == [step |-> "write", id |-> n, late |-> FALSE, row |-> new]
<1>2. n \in Cards /\ card[n].external = row.external /\ row.external \in ExternalIds
  BY DEF Taken, CardRows
<1>3. IsCard(n) /\ card[n] \in CardRows
  BY <1>2, ActiveTask, CardsNamed
<1>4. new \in CardRows /\ new.external = card[n].external
  BY <1>2, <1>3 DEF CardRows
<1> HIDE DEF new
<1>5. q \in NewCardTasks /\ q.step = "write" /\ q.id = n /\ q.row.external = card[n].external /\ n # 0
  BY <1>2, <1>4 DEF NewCardTasks, Cards
<1>6. q \notin EditCardTasks /\ NumberKept(q)
  BY <1>3, <1>5, TaskKinds DEF NumberKept
<1> QED
  BY <1>1, <1>5, <1>6, ContinueInv DEF new

LEMMA OpenCardInv == ASSUME CardInv, NEW w \in CardWorkers, OpenCard(w) PROVE CardInv'
<1>1. PICK n \in Cards, row \in CardRows :
        /\ IsCard(n) /\ row.external = card[n].external
        /\ Continue(w, [step |-> "old", id |-> n, shown |-> card[n], old |-> NoCard, row |-> row,
                        fresh |-> TRUE, late |-> FALSE])
  BY DEF OpenCard
<1> DEFINE q == [step |-> "old", id |-> n, shown |-> card[n], old |-> NoCard, row |-> row,
                 fresh |-> TRUE, late |-> FALSE]
<1>2. card[n] \in CardRows /\ n # 0
  BY <1>1, ActiveTask, CardsNamed DEF Cards
<1>3. q \in EditCardTasks
  BY <1>2 DEF EditCardTasks
<1>4. q.step = "old" /\ q.id = n /\ q.row = row /\ q.shown = card[n]
  OBVIOUS
<1>5. NumberKept(q) /\ ShownTrue(q)
  BY <1>1, <1>2, <1>4 DEF NumberKept, ShownTrue
<1> HIDE DEF q
<1> QED
  BY <1>1, <1>3, <1>4, <1>5, ContinueInv DEF q

LEMMA ReadOldInv == ASSUME CardInv, NEW w \in CardWorkers, ReadOld(w) PROVE CardInv'
<1> DEFINE q == [task[w] EXCEPT !.step = "edit", !.old = card[task[w].id]]
<1>1. Continue(w, q) /\ task[w].step = "old"
  BY DEF ReadOld, TaskAt
<1>2. task[w] \in EditCardTasks /\ NumberKept(task[w]) /\ ShownTrue(task[w]) /\ CardsTyped
  BY <1>1, ActiveTask, TaskKinds
<1>3. card[task[w].id] \in CardRows \cup {NoCard}
  BY <1>2, TaskKinds DEF CardsTyped
<1>4. /\ q \in EditCardTasks
      /\ q.step = "edit" /\ q.id = task[w].id /\ q.row = task[w].row /\ q.shown = task[w].shown
      /\ q.fresh = task[w].fresh /\ q.old = card[task[w].id]
  BY <1>2, <1>3 DEF EditCardTasks
<1>5. NumberKept(q)
  BY <1>1, <1>2, <1>4, TaskKinds DEF NumberKept
<1>6. ShownTrue(q)
  BY <1>2, <1>4 DEF ShownTrue
<1> HIDE DEF q
<1> QED
  BY <1>1, <1>4, <1>5, <1>6, ContinueInv

LEMMA WriteCardInv == ASSUME CardInv, NEW w \in CardWorkers, WriteCard(w) PROVE CardInv'
<1> DEFINE q == [task[w] EXCEPT !.step = "commit"]
<1>1. /\ task[w].step \in {"write", "edit"} /\ ~Blocked(w, task[w].row)
      /\ Continue(w, IF Matches(task[w]) /\ ~Collides(task[w].id, task[w].row) THEN q ELSE NoTask)
  BY DEF WriteCard
<1>2. CASE Continue(w, NoTask)
  BY <1>2, NoTaskInv
<1>3. CASE Matches(task[w]) /\ Continue(w, q)
  <2>1. task[w] \in NewCardTasks \cup EditCardTasks /\ NumberKept(task[w])
        /\ (task[w] \in EditCardTasks <=> task[w].step = "edit")
    BY <1>1, ActiveTask, TaskKinds
  <2>2. q.id # 0 => \A v \in CardWorkers \ {w} : Wrote(v) => task[v].id # q.id
    <3>1. q.id = task[w].id
      BY <2>1 DEF NewCardTasks, EditCardTasks
    <3>2. \A v \in CardWorkers \ {w} : Wrote(v) /\ task[v].id # 0 => task[v].id # task[w].id
      BY <1>1 DEF Blocked
    <3> QED
      BY <3>1, <3>2
  <2>3. CASE task[w].step = "write"
    <3>1. task[w] \in NewCardTasks
      BY <2>1, <2>3
    <3>2. q \in NewCardTasks /\ q.step = "commit" /\ q.row = task[w].row /\ q.id = task[w].id
          /\ q.late = task[w].late /\ DOMAIN q = {"step", "id", "row", "late"}
      BY <3>1 DEF NewCardTasks
    <3>3. q \notin EditCardTasks
      BY <3>2, TaskKinds
    <3>4. NumberKept(q)
      BY <2>1, <2>3, <3>2 DEF NumberKept
    <3> HIDE DEF q
    <3> QED
      BY <1>3, <2>2, <3>2, <3>3, <3>4, ContinueInv
  <2>4. CASE task[w].step = "edit"
    <3>1. task[w] \in EditCardTasks /\ ShownTrue(task[w]) /\ task[w].fresh
      BY <1>3, <2>1, <2>4, ActiveTask DEF Matches
    <3>2. /\ q \in EditCardTasks /\ q.step = "commit" /\ q.row = task[w].row /\ q.id = task[w].id
          /\ q.shown = task[w].shown /\ q.old = task[w].old /\ q.fresh = task[w].fresh
          /\ q.id # 0
      BY <3>1, TaskKinds DEF EditCardTasks
    <3>3. NumberKept(q) /\ ShownTrue(q)
      BY <2>1, <2>4, <3>1, <3>2 DEF NumberKept, ShownTrue
    <3> HIDE DEF q
    <3> QED
      BY <1>3, <2>2, <3>2, <3>3, ContinueInv
  <2> QED
    BY <1>1, <2>3, <2>4
<1> QED
  BY <1>1, <1>2, <1>3

\* What the commit of another request changes of a task.
LEMMA InformedTask ==
  ASSUME NEW r \in {NoTask} \cup NewCardTasks \cup EditCardTasks, NEW n \in Cards, NEW c,
         NEW q, q = Informed(r, n, c)
  PROVE  /\ q \in {NoTask} \cup NewCardTasks \cup EditCardTasks
         /\ (q = NoTask <=> r = NoTask) /\ (q \in EditCardTasks <=> r \in EditCardTasks)
         /\ q.step = r.step
         /\ r # NoTask => q.id = r.id /\ q.row = r.row
         /\ r \in EditCardTasks => q.shown = r.shown /\ q.old = r.old
         /\ r \in EditCardTasks /\ q.fresh => r.fresh /\ (r.step \in {"old", "edit"} => r.id # n)
         /\ r # NoTask /\ ~q.late => ~r.late
         /\ c.id = 0 /\ r.step \in {"write", "commit"} /\ r.id = 0 /\ ~q.late =>
               r.row.external # c.row.external
<1>1. CASE r.step \in {"old", "edit"} /\ r.id = n
  <2>1. r \in EditCardTasks /\ q = [r EXCEPT !.fresh = FALSE]
    BY <1>1, TaskKinds DEF Informed
  <2>2. /\ q \in EditCardTasks /\ q.step = r.step /\ q.id = r.id /\ q.row = r.row /\ q.shown = r.shown
        /\ q.old = r.old /\ ~q.fresh /\ ~r.late
    BY <2>1 DEF EditCardTasks
  <2>3. q # NoTask /\ r # NoTask
    BY <1>1, <2>2, TaskKinds
  <2> QED
    BY <1>1, <2>1, <2>2, <2>3
<1>2. CASE ~(r.step \in {"old", "edit"} /\ r.id = n)
           /\ c.id = 0 /\ r.step \in {"write", "commit"} /\ r.id = 0 /\ r.row.external = c.row.external
  <2>1. r \in NewCardTasks /\ r \notin EditCardTasks /\ q = [r EXCEPT !.late = TRUE]
    BY <1>2, TaskKinds DEF Informed
  <2>2. /\ q \in NewCardTasks /\ q.step = r.step /\ q.id = r.id /\ q.row = r.row /\ q.late
        /\ DOMAIN q = {"step", "id", "row", "late"}
    BY <2>1 DEF NewCardTasks
  <2>3. q # NoTask /\ r # NoTask /\ q \notin EditCardTasks
    BY <1>2, <2>2, TaskKinds
  <2> QED
    BY <1>2, <2>1, <2>2, <2>3
<1>3. CASE /\ ~(r.step \in {"old", "edit"} /\ r.id = n)
           /\ ~(c.id = 0 /\ r.step \in {"write", "commit"} /\ r.id = 0 /\ r.row.external = c.row.external)
  <2>1. q = r
    BY <1>3 DEF Informed
  <2> QED
    BY <1>3, <2>1
<1> QED
  BY <1>1, <1>2, <1>3

LEMMA CommitCardInv == ASSUME CardInv, NEW w \in CardWorkers, CommitCard(w) PROVE CardInv'
<1> DEFINE q == task[w]
<1>1. PICK n \in Cards :
        /\ q.step = "commit"
        /\ IF q.id # 0 THEN n = q.id ELSE ~IsCard(n)
        /\ card' = [card EXCEPT ![n] = q.row]
        /\ doubled' = IF q.late THEN doubled \cup {n} ELSE doubled
        /\ task' = [v \in CardWorkers |-> IF v = w THEN NoTask ELSE Informed(task[v], n, q)]
  BY DEF CommitCard, TaskAt
<1>2. /\ q # NoTask /\ NumberKept(q) /\ q.row \in CardRows /\ q.row.external \in ExternalIds
      /\ q.late \in BOOLEAN /\ CardsTyped
  BY <1>1, ActiveTask, TaskKinds DEF CardRows
<1>3. card'[n] = q.row /\ \A m \in Cards \ {n} : card'[m] = card[m]
  BY <1>1, <1>2 DEF CardsTyped
<1>4. IsCard(n) => q.id = n /\ card[n].external = q.row.external
  BY <1>1, <1>2 DEF NumberKept
<1>5. ~IsCard(n) => q.id = 0
  BY <1>1, <1>2 DEF NumberKept
<1>6. q.row # NoCard
  BY <1>2, CardAssumption DEF NoCard
<1>7. \A m \in Cards : IsCard(m) => IsCard(m)' /\ card'[m].external = card[m].external
  BY <1>3, <1>4, <1>6 DEF IsCard
<1>8. task'[w] = NoTask /\ \A v \in CardWorkers \ {w} : task'[v] = Informed(task[v], n, q)
  BY <1>1
<1>9. \A v \in CardWorkers : task[v] \in {NoTask} \cup NewCardTasks \cup EditCardTasks
  BY <1>2 DEF CardsTyped
<1>10. CardsTyped'
  <2>1. card' \in [Cards -> CardRows \cup {NoCard}] /\ doubled' \subseteq Cards
    BY <1>1, <1>2 DEF CardsTyped
  <2>2. \A v \in CardWorkers : task'[v] \in {NoTask} \cup NewCardTasks \cup EditCardTasks
    <3>1. \A v \in CardWorkers \ {w} : task'[v] \in {NoTask} \cup NewCardTasks \cup EditCardTasks
      BY <1>8, <1>9, InformedTask
    <3> QED
      BY <1>8, <3>1
  <2>3. task' = [v \in CardWorkers |-> task'[v]]
    BY <1>1
  <2> QED
    BY <2>1, <2>2, <2>3 DEF CardsTyped
<1> HIDE DEF q
<1>11. \A m \in Cards \ {n} : card'[m].external = q.row.external => n \in doubled' \/ m \in doubled'
  <2> SUFFICES ASSUME NEW m \in Cards \ {n}, card[m].external = q.row.external
               PROVE  n \in doubled' \/ m \in doubled'
    BY <1>3
  <2>1. CASE IsCard(n)
    BY <1>1, <1>4, <2>1 DEF CardInv, NumbersApart
  <2>2. CASE ~IsCard(n)
    BY <1>1, <1>2, <1>5, <2>2 DEF NumberKept, Taken
  <2> QED
    BY <2>1, <2>2
<1>12. NumbersApart'
  <2> SUFFICES ASSUME NEW a \in Cards, NEW b \in Cards, a # b, IsCard(a)',
                      card'[a].external = card'[b].external
               PROVE  a \in doubled' \/ b \in doubled'
    BY DEF NumbersApart
  <2>1. CASE a = n \/ b = n
    BY <1>3, <1>11, <2>1
  <2>2. CASE a # n /\ b # n
    BY <1>1, <1>3, <2>2 DEF CardInv, NumbersApart, IsCard
  <2> QED
    BY <2>1, <2>2
<1>13. ASSUME NEW v \in CardWorkers \ {w}, task[v] # NoTask, task[v].step = "commit", task[v].id # 0
       PROVE  task[v].id # n
  <2>1. IsCard(task[v].id)
    BY <1>13, ActiveTask DEF NumberKept
  <2>2. task[v].id = n => q.id = n
    BY <1>4, <2>1
  <2> QED
    BY <1>1, <1>13, <2>2 DEF q, CardInv, WritersApart, Wrote, TaskAt
<1>14. ASSUME NEW v \in CardWorkers \ {w}
       PROVE  TaskKept(v)'
  <2> DEFINE old == task[v]
             new == task'[v]
  <2>1. old \in {NoTask} \cup NewCardTasks \cup EditCardTasks
    BY <1>9
  <2>2. new = Informed(old, n, q)
    BY <1>8
  <2>3. /\ (new = NoTask <=> old = NoTask) /\ (new \in EditCardTasks <=> old \in EditCardTasks)
        /\ new.step = old.step
        /\ old # NoTask => new.id = old.id /\ new.row = old.row
        /\ old \in EditCardTasks => new.shown = old.shown /\ new.old = old.old
        /\ old \in EditCardTasks /\ new.fresh => old.fresh /\ (old.step \in {"old", "edit"} => old.id # n)
        /\ old # NoTask /\ ~new.late => ~old.late
        /\ q.id = 0 /\ old.step \in {"write", "commit"} /\ old.id = 0 /\ ~new.late =>
              old.row.external # q.row.external
    BY <2>1, <2>2, InformedTask
  <2>4. /\ old # NoTask => NumberKept(old) /\ old.id \in Cards \cup {0}
        /\ old \in EditCardTasks => ShownTrue(old) /\ old.id # 0 /\ old.step \in {"old", "edit", "commit"}
        /\ old # NoTask /\ old.step = "commit" /\ old.id # 0 => old.id # n
        /\ old.step = "idle" <=> old = NoTask
    BY <1>13, <2>1, ActiveTask, TaskKinds
  <2> HIDE DEF old, new
  <2>5. ASSUME new # NoTask PROVE NumberKept(task[v])'
    <3>1. old # NoTask /\ NumberKept(old) /\ new.id = old.id /\ new.row = old.row /\ old.id \in Cards \cup {0}
      BY <2>3, <2>4, <2>5
    <3>2. ASSUME new.step \in {"write", "commit"}, new.id = 0, ~new.late
          PROVE  Taken(task[v].row)' = {}
      <4>1. Taken(old.row) = {}
        BY <2>3, <3>1, <3>2 DEF NumberKept
      <4>2. card'[n].external # old.row.external
        BY <1>3, <1>4, <1>5, <2>3, <3>1, <3>2, <4>1 DEF Taken
      <4> QED
        BY <1>3, <3>1, <4>1, <4>2 DEF Taken, new
    <3>3. ASSUME new.step \in {"write", "old", "edit", "commit"}, new.id # 0
          PROVE  IsCard(task[v].id)' /\ card'[new.id].external = new.row.external
      <4>1. IsCard(old.id) /\ card[old.id].external = old.row.external /\ old.id \in Cards
        BY <2>3, <3>1, <3>3 DEF NumberKept
      <4> QED
        BY <1>7, <3>1, <4>1 DEF new
    <3>4. new.step = "check" => new.id = 0
      BY <2>3, <3>1 DEF NumberKept
    <3> QED
      BY <3>2, <3>3, <3>4 DEF NumberKept, new
  <2>6. ASSUME new \in EditCardTasks PROVE ShownTrue(task[v])'
    <3>1. /\ old \in EditCardTasks /\ ShownTrue(old) /\ old.id \in Cards /\ old # NoTask
          /\ new.id = old.id /\ new.shown = old.shown /\ new.old = old.old
      BY <2>1, <2>3, <2>4, <2>6, TaskKinds
    <3>2. new.fresh => old.fresh /\ old.id # n
      BY <2>3, <2>4, <3>1
    <3>3. new.step = "commit" => old.id # n
      BY <2>3, <2>4, <3>1
    <3> QED
      BY <1>3, <2>3, <3>1, <3>2, <3>3 DEF ShownTrue, new
  <2> QED
    BY <2>5, <2>6 DEF TaskKept, new
<1>15. TaskKept(w)'
  BY <1>8, TaskKinds DEF TaskKept, NoTask
<1>16. WritersApart'
  <2>1. ~Wrote(w)'
    BY <1>8 DEF Wrote, TaskAt, NoTask
  <2>2. \A v \in CardWorkers \ {w} : /\ Wrote(v)' => Wrote(v) /\ task[v] # NoTask
                                     /\ task[v] # NoTask => task'[v].id = task[v].id
    <3> SUFFICES ASSUME NEW v \in CardWorkers \ {w}
                 PROVE  /\ task'[v].step = task[v].step
                        /\ task[v].step = "commit" => task[v] # NoTask
                        /\ task[v] # NoTask => task'[v].id = task[v].id
      BY DEF Wrote, TaskAt
    <3>1. task[v] \in {NoTask} \cup NewCardTasks \cup EditCardTasks /\ task'[v] = Informed(task[v], n, q)
      BY <1>8, <1>9
    <3> QED
      BY <3>1, InformedTask, TaskKinds
  <2> QED
    BY <2>1, <2>2 DEF CardInv, WritersApart
<1> QED
  BY <1>10, <1>12, <1>14, <1>15, <1>16 DEF CardInv

LEMMA CardInvInductive == CardSpec => []CardInv
<1>1. CardInit => CardInv
  <2> SUFFICES ASSUME CardInit PROVE CardInv
    OBVIOUS
  <2>1. /\ card = [n \in Cards |-> NoCard] /\ task = [w \in CardWorkers |-> NoTask] /\ doubled = {}
    BY DEF CardInit
  <2>2. NoTask \notin EditCardTasks /\ NoTask.step = "idle"
    BY TaskKinds DEF NoTask
  <2>3. CardsTyped /\ NumbersApart
    BY <2>1 DEF CardsTyped, NumbersApart, IsCard
  <2>4. (\A w \in CardWorkers : TaskKept(w)) /\ WritersApart
    BY <2>1, <2>2 DEF TaskKept, WritersApart, Wrote, TaskAt
  <2> QED
    BY <2>3, <2>4 DEF CardInv
<1>2. CardInv /\ [CardNext]_cardVars => CardInv'
  <2> SUFFICES ASSUME CardInv, [CardNext]_cardVars PROVE CardInv'
    OBVIOUS
  <2>1. ASSUME NEW w \in CardWorkers, LeaveCard(w) PROVE CardInv'
    BY <2>1, NoTaskInv DEF LeaveCard
  <2>2. CASE UNCHANGED cardVars
    BY <2>2 DEF cardVars, CardInv, CardsTyped, TaskKept, NumberKept, ShownTrue, Taken, IsCard,
                WritersApart, Wrote, TaskAt, NumbersApart
  <2> QED
    BY <2>1, <2>2, SubmitCardInv, CheckCardInv, ReadCardInv, OpenCardInv, ReadOldInv, WriteCardInv,
       CommitCardInv DEF CardNext
<1> QED
  BY <1>1, <1>2, PTL DEF CardSpec

\* Whatever requests overlap, two campaigns have one number only if one of them
\* was created while its number was being taken: every other creation has found
\* the number free, and no edit or import changes it.
THEOREM NumbersStayApart == CardSpec => []NumbersApart
BY CardInvInductive, PTL DEF CardInv

\* The change log of an edit names the row that the edit replaced and that its
\* form displayed: the UPDATE compares updated_at, and the row stays locked.
THEOREM EditsLogWhatTheyReplace == CardSpec => EditLogTrue
<1> DEFINE Follows ==
      \A w \in CardWorkers : TaskAt(w, "commit") /\ "shown" \in DOMAIN task[w]
         /\ card'[task[w].id] # card[task[w].id]
         => card[task[w].id] = task[w].old /\ task[w].old = task[w].shown
<1>1. CardInv => \A w \in CardWorkers : TaskAt(w, "commit") /\ "shown" \in DOMAIN task[w]
         => card[task[w].id] = task[w].old /\ task[w].old = task[w].shown
  BY ActiveTask, TaskKinds DEF ShownTrue, TaskAt
<1>2. CardInv /\ [CardNext]_cardVars => [Follows]_cardVars
  BY <1>1
<1> QED
  BY <1>2, CardInvInductive, PTL DEF CardSpec, EditLogTrue

--------------------------------------------------------------------------------
(***************************************************************************)
(* The comments of versions and events, for any numbers of requests,       *)
(* events, decisions and moments.                                          *)
(***************************************************************************)

VersionRows == [state: {"open", "closed"}, by: Events, comment: Comments, late: BOOLEAN]

Arriving == {"keep", "close", "open"}
Editing == {"form", "update", "active", "later", "commit"}

Acts ==
    {NoAct} \cup [step: {"insert"}, row: EventRows]
    \cup [step: Arriving, id: Events, row: EventRows, target: Events \cup {0}]
    \cup [step: {"form"}, id: Events, fresh: BOOLEAN]
    \cup [step: {"update", "active"}, id: Events, fresh: BOOLEAN, comment: Comments]
    \cup [step: {"later"}, id: Events, comment: Comments, target: Events]
    \cup [step: {"commit"}, id: Events, comment: Comments, target: Events \cup {0},
          by: Events \cup {0}]

\* Versions belong to events that are stored and decide the same.
NotesRecorded ==
    /\ event \in [Events -> EventRows \cup {Unused, Reserved}]
    /\ version \in [Events -> VersionRows \cup {NoVersion}]
    /\ \A i \in Events : version[i] # NoVersion =>
          /\ i \in Stored /\ version[i].by \in Stored
          /\ event[version[i].by].scheme = event[i].scheme
    /\ \A i, j \in Events : version[i].state = "open" /\ version[j].state = "open" => i = j

\* What a request has read: an edit knows the version that its event has opened
\* or kept, unless a later event makes it nobody's business.
ActOK(a) ==
    /\ a.step \in Arriving =>
          /\ event[a.id] = Reserved
          /\ a.target # 0 => version[a.target] # NoVersion
          /\ a.step \in {"keep", "close"} => a.target # 0
          /\ a.step = "keep" => event[a.target].scheme = a.row.scheme
    /\ a.step \in Editing => a.id \in Stored
    /\ a.step = "later" =>
          /\ version[a.target] # NoVersion
          /\ \A i \in Events : version[i].state = "open" /\ version[i].by = a.id => i = a.target
    /\ a.step = "commit" =>
          /\ a.target # 0 => /\ version[a.target] # NoVersion /\ a.by \in Stored
                             /\ a.id # a.by => Later(a.id, a.by)
          /\ \A i \in Events : version[i].state = "open" /\ version[i].by = a.id /\ i # a.target =>
                ~Newest(a.id)

NotesInv ==
    /\ NotesRecorded /\ CommentsFollow
    /\ act \in [NoteWorkers -> Acts]
    /\ \A w \in NoteWorkers : ActOK(act[w])
    /\ \A u, w \in NoteWorkers :
          u # w /\ act[u].step \in Arriving /\ act[w].step \in Arriving => act[u].id # act[w].id

LEMMA EventKinds ==
  /\ Unused \notin EventRows /\ Reserved \notin EventRows /\ Unused # Reserved
  /\ NoVersion \notin VersionRows /\ NoVersion.state = "none"
  /\ \A v \in VersionRows : v.state \in {"open", "closed"}
  /\ 0 \notin Events /\ Events \subseteq Nat
<1>1. DOMAIN Unused = {"at"} /\ DOMAIN Reserved = {"at"} /\ DOMAIN NoVersion = {"state"}
  BY DEF Unused, Reserved, NoVersion
<1>2. \A e \in EventRows : "scheme" \in DOMAIN e
  BY DEF EventRows
<1>3. \A v \in VersionRows : "by" \in DOMAIN v /\ v.state \in {"open", "closed"}
  BY DEF VersionRows
<1>4. Unused.at = "unused" /\ Reserved.at = "reserved" /\ NoVersion.state = "none"
  BY DEF Unused, Reserved, NoVersion
<1> QED
  BY <1>1, <1>2, <1>3, <1>4, NoteAssumption DEF Events

LEMMA ActKinds ==
  ASSUME NEW a \in Acts
  PROVE  /\ a.step \in {"idle", "insert"} \cup Arriving \cup Editing
         /\ a.step = "idle" => a = NoAct
         /\ a.step = "insert" => a \in [step: {"insert"}, row: EventRows]
         /\ a.step \in Arriving =>
               a \in [step: Arriving, id: Events, row: EventRows, target: Events \cup {0}]
         /\ a.step = "form" => a \in [step: {"form"}, id: Events, fresh: BOOLEAN]
         /\ a.step \in {"update", "active"} =>
               a \in [step: {"update", "active"}, id: Events, fresh: BOOLEAN, comment: Comments]
         /\ a.step = "later" =>
               a \in [step: {"later"}, id: Events, comment: Comments, target: Events]
         /\ a.step = "commit" =>
               a \in [step: {"commit"}, id: Events, comment: Comments, target: Events \cup {0},
                      by: Events \cup {0}]
         /\ a.step \in Editing => a.id \in Events
BY DEF Acts, NoAct, Arriving, Editing

LEMMA NoActOK == NoAct \in Acts /\ ActOK(NoAct) /\ NoAct.step = "idle"
BY DEF Acts, NoAct, ActOK, Arriving, Editing

LEMMA NotesFacts ==
  ASSUME NotesInv, NEW w \in NoteWorkers
  PROVE  /\ act \in [NoteWorkers -> Acts] /\ act[w] \in Acts /\ ActOK(act[w])
         /\ NotesRecorded /\ CommentsFollow
         /\ \A u \in NoteWorkers \ {w} :
              /\ act[u] \in Acts /\ ActOK(act[u])
              /\ act[u].step \in Arriving /\ act[w].step \in Arriving => act[u].id # act[w].id
BY DEF NotesInv

\* A step that stores nothing.
LEMMA ActStep ==
  ASSUME NotesInv, NEW w \in NoteWorkers, NEW q \in Acts, act' = [act EXCEPT ![w] = q],
         UNCHANGED <<event, version>>, ActOK(q),
         q.step \in Arriving => act[w].step \in Arriving /\ q.id = act[w].id
  PROVE  NotesInv'
<1>1. \A u \in NoteWorkers : act'[u] = IF u = w THEN q ELSE act[u]
  BY NotesFacts
<1>2. act' \in [NoteWorkers -> Acts]
  BY NotesFacts
<1>3. NotesRecorded' /\ CommentsFollow'
  BY NotesFacts DEF NotesRecorded, CommentsFollow, Stored, Newest, Later
<1>4. ASSUME NEW u \in NoteWorkers PROVE ActOK(act[u])'
  <2>1. PICK a \in Acts : a = act'[u] /\ ActOK(a)
    BY <1>1, NotesFacts
  <2> QED
    BY <2>1 DEF ActOK, Stored, Newest, Later
<1>5. ASSUME NEW u \in NoteWorkers, NEW v \in NoteWorkers, u # v,
             act'[u].step \in Arriving, act'[v].step \in Arriving
      PROVE  act'[u].id # act'[v].id
  BY <1>1, <1>5 DEF NotesInv
<1> QED
  BY <1>2, <1>3, <1>4, <1>5 DEF NotesInv

LEMMA IdleStep ==
  ASSUME NotesInv, NEW w \in NoteWorkers, GiveUp(w)
  PROVE  NotesInv'
<1>1. act' = [act EXCEPT ![w] = NoAct] /\ UNCHANGED <<event, version>>
  BY DEF GiveUp, Proceeds
<1> QED
  BY <1>1, NoActOK, ActStep DEF Arriving

\* What others have read stays true when rows are added, and versions are opened
\* and kept by new events only.
LEMMA OthersKeep ==
  ASSUME NotesRecorded, NEW a \in Acts, ActOK(a),
         event' \in [Events -> EventRows \cup {Unused, Reserved}],
         \A i \in Stored : /\ i \in Stored' /\ event'[i].at = event[i].at
                           /\ event'[i].scheme = event[i].scheme,
         \A i \in Events : version[i] # NoVersion => version'[i] # NoVersion,
         \A i \in Events : version'[i].state = "open" =>
             \/ version[i].state = "open" /\ version'[i].by = version[i].by
             \/ version'[i].by \notin Stored,
         a.step \in Arriving => event'[a.id] = Reserved
  PROVE  ActOK(a)'
<1>1. a.step \in Arriving =>
        /\ event'[a.id] = Reserved
        /\ a.target # 0 => version'[a.target] # NoVersion
        /\ a.step \in {"keep", "close"} => a.target # 0
        /\ a.step = "keep" => event'[a.target].scheme = a.row.scheme
  <2>1. a.step \in Arriving /\ a.target # 0 => a.target \in Events
    BY ActKinds
  <2>2. \A i \in Events : version[i] # NoVersion => event'[i].scheme = event[i].scheme
    BY DEF NotesRecorded
  <2> QED
    BY <2>1, <2>2 DEF ActOK, Arriving
<1>2. a.step \in Editing => a.id \in Stored /\ a.id \in Stored'
  BY DEF ActOK
<1>3. \A i \in Events : a.step \in Editing /\ version'[i].state = "open" /\ version'[i].by = a.id =>
        version[i].state = "open" /\ version[i].by = a.id
  BY <1>2
<1>4. a.step = "later" =>
          /\ version'[a.target] # NoVersion
          /\ \A i \in Events : version'[i].state = "open" /\ version'[i].by = a.id => i = a.target
  BY <1>3, ActKinds DEF ActOK, Editing
<1>5. \A i, j \in Stored : Later(i, j)' <=> Later(i, j)
  BY DEF Later
<1>6. a.step \in Editing /\ ~Newest(a.id) => ~Newest(a.id)'
  BY <1>2, <1>5 DEF Newest
<1>7. a.step = "commit" =>
          /\ a.target # 0 => /\ version'[a.target] # NoVersion /\ a.by \in Stored'
                             /\ a.id # a.by => Later(a.id, a.by)'
          /\ \A i \in Events : version'[i].state = "open" /\ version'[i].by = a.id /\ i # a.target =>
                ~Newest(a.id)'
  BY <1>2, <1>3, <1>5, <1>6, ActKinds DEF ActOK, Editing
<1> QED
  BY <1>1, <1>2, <1>4, <1>7 DEF ActOK

LEMMA InForce ==
  ASSUME NotesRecorded
  PROVE  /\ ActiveVersion \in Events \cup {0}
         /\ \A i \in Events : version[i].state = "open" => i = ActiveVersion
         /\ ActiveVersion # 0 =>
              /\ version[ActiveVersion].state = "open" /\ version[ActiveVersion] \in VersionRows
              /\ version[ActiveVersion] # NoVersion /\ ActiveVersion \in Events
<1>1. CASE \E i \in Events : version[i].state = "open"
  <2>1. PICK i \in Events : version[i].state = "open"
    BY <1>1
  <2>2. ActiveVersion = CHOOSE j \in Events : version[j].state = "open"
    BY <1>1 DEF ActiveVersion
  <2>3. ActiveVersion \in Events /\ version[ActiveVersion].state = "open"
    BY <2>1, <2>2
  <2> QED
    BY <2>3, EventKinds DEF NotesRecorded
<1>2. CASE ~\E i \in Events : version[i].state = "open"
  BY <1>2 DEF ActiveVersion
<1> QED
  BY <1>1, <1>2

LEMMA StartEventInv == ASSUME NotesInv, NEW w \in NoteWorkers, StartEvent(w) PROVE NotesInv'
<1>1. PICK row \in EventRows : Proceeds(w, [step |-> "insert", row |-> row])
  BY DEF StartEvent
<1> DEFINE q == [step |-> "insert", row |-> row]
<1>2. act' = [act EXCEPT ![w] = q] /\ UNCHANGED <<event, version>>
  BY <1>1 DEF Proceeds, StartEvent
<1>3. q \in Acts /\ q.step = "insert"
  BY DEF Acts
<1> HIDE DEF q
<1>4. ActOK(q)
  BY <1>3 DEF ActOK, Arriving, Editing
<1> QED
  BY <1>2, <1>3, <1>4, ActStep DEF Arriving

LEMMA ShowEventInv == ASSUME NotesInv, NEW w \in NoteWorkers, ShowEvent(w) PROVE NotesInv'
<1>1. PICK i \in Stored : Proceeds(w, [step |-> "form", id |-> i, fresh |-> TRUE])
  BY DEF ShowEvent
<1> DEFINE q == [step |-> "form", id |-> i, fresh |-> TRUE]
<1>2. act' = [act EXCEPT ![w] = q] /\ UNCHANGED <<event, version>>
  BY <1>1 DEF Proceeds, ShowEvent
<1>3. q \in Acts /\ q.step = "form" /\ q.id = i
  BY DEF Acts, Stored
<1> HIDE DEF q
<1>4. ActOK(q)
  BY <1>3 DEF ActOK, Arriving, Editing
<1> QED
  BY <1>2, <1>3, <1>4, ActStep DEF Arriving

LEMMA SubmitNoteInv == ASSUME NotesInv, NEW w \in NoteWorkers, SubmitNote(w) PROVE NotesInv'
<1> DEFINE o == act[w]
<1>1. PICK c \in Comments : Proceeds(w, [step |-> "update", id |-> o.id, fresh |-> TRUE, comment |-> c])
  BY DEF SubmitNote
<1> DEFINE q == [step |-> "update", id |-> o.id, fresh |-> TRUE, comment |-> c]
<1>2. act' = [act EXCEPT ![w] = q] /\ UNCHANGED <<event, version>> /\ o.step = "form"
  BY <1>1 DEF Proceeds, SubmitNote, ActAt
<1>3. o.id \in Stored
  BY <1>2, NotesFacts DEF ActOK, Editing
<1>4. q \in Acts /\ q.step = "update" /\ q.id = o.id
  BY <1>3 DEF Acts, Stored
<1> HIDE DEF q, o
<1>5. ActOK(q)
  BY <1>3, <1>4 DEF ActOK, Arriving, Editing
<1> QED
  BY <1>2, <1>4, <1>5, ActStep DEF Arriving

LEMMA UpdateNoteInv == ASSUME NotesInv, NEW w \in NoteWorkers, UpdateNote(w) PROVE NotesInv'
<1> DEFINE o == act[w]
           q == [o EXCEPT !.step = "active"]
<1>1. act' = [act EXCEPT ![w] = q] /\ UNCHANGED <<event, version>> /\ o.step = "update"
  BY DEF Proceeds, UpdateNote, ActAt
<1>2. o.id \in Stored /\ o \in [step: {"update", "active"}, id: Events, fresh: BOOLEAN, comment: Comments]
  BY <1>1, NotesFacts, ActKinds DEF ActOK, Editing
<1> HIDE DEF o
<1>3. q \in Acts /\ q.step = "active" /\ q.id = o.id
  BY <1>2 DEF Acts
<1> HIDE DEF q
<1>4. ActOK(q)
  BY <1>2, <1>3 DEF ActOK, Arriving, Editing
<1> QED
  BY <1>1, <1>3, <1>4, ActStep DEF Arriving

LEMMA CloseTargetInv == ASSUME NotesInv, NEW w \in NoteWorkers, CloseTarget(w) PROVE NotesInv'
<1> DEFINE o == act[w]
           q == [o EXCEPT !.step = "open"]
<1>1. act' = [act EXCEPT ![w] = q] /\ UNCHANGED <<event, version>> /\ o.step = "close"
  BY DEF Proceeds, CloseTarget, ActAt
<1>2. ActOK(o) /\ o \in [step: Arriving, id: Events, row: EventRows, target: Events \cup {0}]
  BY <1>1, NotesFacts, ActKinds DEF Arriving
<1> HIDE DEF o
<1>3. q \in Acts /\ q.step = "open" /\ q.id = o.id /\ q.target = o.target /\ q.row = o.row
  BY <1>2 DEF Acts, Arriving
<1> HIDE DEF q
<1>4. ActOK(q)
  BY <1>1, <1>2, <1>3 DEF ActOK, Arriving, Editing
<1> QED
  BY <1>1, <1>3, <1>4, ActStep DEF Arriving, o

LEMMA ReadActiveInv == ASSUME NotesInv, NEW w \in NoteWorkers, ReadActive(w) PROVE NotesInv'
<1> DEFINE o == act[w]
<1>1. o.step = "active" /\ UNCHANGED <<event, version>>
  BY DEF ReadActive, ActAt
<1>2. /\ o.id \in Stored /\ NotesRecorded
      /\ o \in [step: {"update", "active"}, id: Events, fresh: BOOLEAN, comment: Comments]
  BY <1>1, NotesFacts, ActKinds DEF ActOK, Editing
<1>3. CASE ActiveVersion = 0
  <2> DEFINE q == [step |-> "commit", id |-> o.id, comment |-> o.comment, target |-> 0, by |-> 0]
  <2>1. act' = [act EXCEPT ![w] = q]
    BY <1>3 DEF ReadActive, Synced, Proceeds
  <2> HIDE DEF o
  <2>2. q \in Acts /\ q.step = "commit" /\ q.id = o.id /\ q.target = 0
    BY <1>2 DEF Acts
  <2> HIDE DEF q
  <2>3. ActOK(q)
    BY <1>2, <1>3, <2>2, InForce, EventKinds DEF ActOK, Arriving, Editing
  <2> QED
    BY <1>1, <2>1, <2>2, <2>3, ActStep DEF Arriving
<1>4. CASE ActiveVersion # 0
  <2> DEFINE n == ActiveVersion
             q == [step |-> "later", id |-> o.id, comment |-> o.comment, target |-> n]
  <2>1. act' = [act EXCEPT ![w] = q]
    BY <1>4 DEF ReadActive, Proceeds
  <2>2. n \in Events /\ version[n] # NoVersion /\ \A i \in Events : version[i].state = "open" => i = n
    BY <1>2, <1>4, InForce
  <2> HIDE DEF o, n
  <2>3. q \in Acts /\ q.step = "later" /\ q.id = o.id /\ q.target = n
    BY <1>2, <2>2 DEF Acts
  <2> HIDE DEF q
  <2>4. ActOK(q)
    BY <1>2, <2>2, <2>3 DEF ActOK, Arriving, Editing
  <2> QED
    BY <1>1, <2>1, <2>3, <2>4, ActStep DEF Arriving
<1> QED
  BY <1>3, <1>4

\* Events are ordered by moment and id.
LEMMA LaterTotal ==
  ASSUME NEW i \in Stored, NEW j \in Stored, i # j
  PROVE  Later(i, j) \/ Later(j, i)
<1>1. event[i].at \in Nat /\ event[j].at \in Nat /\ i \in Nat /\ j \in Nat
  BY EventKinds, NoteAssumption DEF Stored, EventRows
<1> QED
  BY <1>1 DEF Later

LEMMA ReadLaterInv == ASSUME NotesInv, NEW w \in NoteWorkers, ReadLater(w) PROVE NotesInv'
<1> DEFINE o == act[w]
           n == IF Newest(o.id) /\ event[o.target].scheme = event[o.id].scheme THEN o.target ELSE 0
           by == IF n = 0 THEN 0 ELSE version[n].by
           q == [step |-> "commit", id |-> o.id, comment |-> o.comment, target |-> n, by |-> by]
<1>1. o.step = "later" /\ UNCHANGED <<event, version>> /\ act' = [act EXCEPT ![w] = q]
  BY DEF ReadLater, ActAt, Synced, Proceeds
<1>2. /\ o.id \in Stored /\ NotesRecorded /\ o.target \in Events /\ version[o.target] # NoVersion
      /\ o \in [step: {"later"}, id: Events, comment: Comments, target: Events]
      /\ \A i \in Events : version[i].state = "open" /\ version[i].by = o.id => i = o.target
  BY <1>1, NotesFacts, ActKinds DEF ActOK, Editing
<1>3. n \in {0, o.target} /\ (n # 0 => Newest(o.id))
  OBVIOUS
<1>4. version[o.target].by \in Stored
  BY <1>2 DEF NotesRecorded
<1>5. by \in Events \cup {0} /\ (n # 0 => by = version[o.target].by /\ by \in Stored)
  BY <1>3, <1>4 DEF Stored
<1>6. \A i \in Events : version[i].state = "open" /\ version[i].by = o.id /\ i # n => ~Newest(o.id)
  <2> SUFFICES ASSUME version[o.target].by = o.id, version[o.target].state = "open", o.target # n
               PROVE  ~Newest(o.id)
    BY <1>2
  <2>1. event[o.target].scheme = event[o.id].scheme
    BY <1>2 DEF NotesRecorded
  <2> QED
    BY <2>1
<1> HIDE DEF o, n, by
<1>7. q \in Acts /\ q.step = "commit" /\ q.id = o.id /\ q.target = n /\ q.by = by
  BY <1>2, <1>3, <1>5 DEF Acts
<1> HIDE DEF q
<1>8. n # 0 /\ o.id # by => Later(o.id, by)
  BY <1>2, <1>3, <1>5, LaterTotal DEF Newest
<1>9. ActOK(q)
  BY <1>2, <1>3, <1>5, <1>6, <1>7, <1>8 DEF ActOK, Arriving, Editing
<1> QED
  BY <1>1, <1>7, <1>9, ActStep DEF Arriving

\* A step that stores something: the others know what they knew.
LEMMA RowStep ==
  ASSUME NotesInv, NEW w \in NoteWorkers, NEW q \in Acts,
         act' \in [NoteWorkers -> Acts], act'[w] = q, ActOK(q)',
         \A u \in NoteWorkers \ {w} :
            \/ act'[u] = act[u]
            \/ act[u].step \in {"form", "update"} /\ act'[u].step = act[u].step /\ act'[u].id = act[u].id,
         event' \in [Events -> EventRows \cup {Unused, Reserved}],
         \A i \in Stored : /\ i \in Stored' /\ event'[i].at = event[i].at
                           /\ event'[i].scheme = event[i].scheme,
         \A i \in Events : version[i] # NoVersion => version'[i] # NoVersion,
         \A i \in Events : version'[i].state = "open" =>
             \/ version[i].state = "open" /\ version'[i].by = version[i].by
             \/ version'[i].by \notin Stored,
         \A u \in NoteWorkers \ {w} : act[u].step \in Arriving => event'[act[u].id] = Reserved,
         q.step \in Arriving => \A u \in NoteWorkers \ {w} : act[u].step \in Arriving => act[u].id # q.id,
         NotesRecorded', CommentsFollow'
  PROVE  NotesInv'
<1>1. ASSUME NEW u \in NoteWorkers PROVE ActOK(act[u])'
  <2>1. CASE u = w
    BY <2>1 DEF ActOK, Stored, Newest, Later
  <2>2. CASE u # w
    <3>1. PICK a \in Acts : a = act[u] /\ ActOK(a)
      BY NotesFacts
    <3>2. a.step \in Arriving => event'[a.id] = Reserved
      BY <2>2, <3>1
    <3>3. NotesRecorded
      BY NotesFacts
    <3>4. ActOK(a)'
      BY <3>1, <3>2, <3>3, OthersKeep
    <3>5. CASE act'[u] = a
      BY <3>4, <3>5 DEF ActOK, Stored, Newest, Later
    <3>6. CASE a.step \in {"form", "update"} /\ act'[u].step = a.step /\ act'[u].id = a.id
      BY <3>4, <3>6 DEF ActOK, Arriving, Editing
    <3> QED
      BY <2>2, <3>1, <3>5, <3>6
  <2> QED
    BY <2>1, <2>2
<1>2. ASSUME NEW u \in NoteWorkers, NEW v \in NoteWorkers, u # v,
             act'[u].step \in Arriving, act'[v].step \in Arriving
      PROVE  act'[u].id # act'[v].id
  <2>1. \A x \in NoteWorkers \ {w} : act'[x].step \in Arriving => act'[x] = act[x]
    BY DEF Arriving
  <2>2. act[u].step \in Arriving /\ act[v].step \in Arriving => act[u].id # act[v].id
    BY <1>2 DEF NotesInv
  <2> QED
    BY <1>2, <2>1, <2>2
<1> QED
  BY <1>1, <1>2 DEF NotesInv

LEMMA InsertNoteInv == ASSUME NotesInv, NEW w \in NoteWorkers, InsertNote(w) PROVE NotesInv'
<1> DEFINE row == act[w].row
           n == ActiveVersion
           step == IF n = 0 THEN "open" ELSE IF SchemeInForce = row.scheme THEN "keep" ELSE "close"
<1>1. PICK i \in Events :
        /\ event[i] = Unused
        /\ event' = [event EXCEPT ![i] = Reserved]
        /\ Proceeds(w, [step |-> step, id |-> i, row |-> row, target |-> n])
  BY DEF InsertNote
<1>0. PICK q : q = [step |-> step, id |-> i, row |-> row, target |-> n]
  OBVIOUS
<1>2. /\ act[w].step = "insert" /\ act' = [act EXCEPT ![w] = q] /\ UNCHANGED version
      /\ act[w] \in Acts /\ act \in [NoteWorkers -> Acts] /\ NotesRecorded
  BY <1>0, <1>1, NotesFacts DEF InsertNote, ActAt, Proceeds
<1>3. row \in EventRows
  BY <1>2, ActKinds
<1>4. /\ step \in Arriving /\ (step # "open" => n # 0) /\ (step = "keep" => event[n].scheme = row.scheme)
      /\ n \in Events \cup {0} /\ (n # 0 => n \in Events /\ version[n] # NoVersion)
  BY <1>2, InForce DEF Arriving, SchemeInForce
<1> HIDE DEF n, step, row
<1>5. q \in Acts /\ q.step = step /\ q.id = i /\ q.row = row /\ q.target = n
  BY <1>0, <1>3, <1>4 DEF Acts
<1>6. /\ event'[i] = Reserved /\ \A j \in Events : j # i => event'[j] = event[j]
      /\ event' \in [Events -> EventRows \cup {Unused, Reserved}] /\ i \notin Stored /\ i \notin Stored'
  BY <1>1, <1>2, EventKinds DEF NotesRecorded, Stored
<1>7. Stored' = Stored /\ \A j \in Stored : event'[j] = event[j]
  BY <1>6 DEF Stored
<1>8. \A j, k \in Stored : Later(j, k)' <=> Later(j, k)
  BY <1>7 DEF Later
<1>9. NotesRecorded'
  BY <1>2, <1>6, <1>7 DEF NotesRecorded
<1>10. CommentsFollow'
  <2> SUFFICES ASSUME NEW j \in Events, version[j].state = "open", Newest(version[j].by)', ~version[j].late
               PROVE  version[j].comment = event'[version[j].by].comment
    BY <1>2 DEF CommentsFollow
  <2>1. version[j].by \in Stored
    BY <1>2, EventKinds DEF NotesRecorded
  <2>2. Newest(version[j].by)
    BY <1>2, <1>7, <2>1 DEF Newest, Later
  <2> QED
    BY <1>7, <2>1, <2>2, NotesFacts DEF CommentsFollow
<1>11. ActOK(q)'
  <2>1. n # 0 => event'[n].scheme = event[n].scheme
    BY <1>2, <1>4, <1>7 DEF NotesRecorded
  <2>2. q.step \notin Editing /\ q.step # "later" /\ q.step # "commit"
    BY <1>4, <1>5 DEF Arriving, Editing
  <2> QED
    BY <1>2, <1>4, <1>5, <1>6, <2>1, <2>2 DEF ActOK
<1>12. \A u \in NoteWorkers \ {w} : act[u].step \in Arriving =>
          event'[act[u].id] = Reserved /\ act[u].id # i
  <2> SUFFICES ASSUME NEW u \in NoteWorkers \ {w}, act[u].step \in Arriving
               PROVE  event'[act[u].id] = Reserved /\ act[u].id # i
    OBVIOUS
  <2>1. event[act[u].id] = Reserved /\ act[u].id \in Events
    BY NotesFacts, ActKinds DEF ActOK
  <2> QED
    BY <1>1, <1>6, <2>1, EventKinds
<1>13. /\ act' \in [NoteWorkers -> Acts] /\ act'[w] = q
       /\ \A u \in NoteWorkers \ {w} : act'[u] = act[u]
  BY <1>2, <1>5
<1>14. \A j \in Events : version'[j] = version[j]
  BY <1>2
<1> QED
  BY <1>5, <1>6, <1>7, <1>9, <1>10, <1>11, <1>12, <1>13, <1>14, RowStep

\* The event of a request is stored, with the version that it opens or keeps.
LEMMA ArrivalInv ==
  ASSUME NotesInv, NEW w \in NoteWorkers, NEW d \in Events, NEW row \in EventRows,
         act[w].step \in Arriving, act[w].id = d,
         act' = [act EXCEPT ![w] = NoAct], event' = [event EXCEPT ![d] = row],
         version' \in [Events -> VersionRows \cup {NoVersion}],
         \A i \in Events :
            \/ version'[i] = version[i]
            \/ version[i] # NoVersion /\ version'[i] \in VersionRows /\ version'[i].state = "closed"
               /\ version'[i].by = version[i].by
            \/ /\ version'[i] \in VersionRows /\ version'[i].by = d
               /\ version'[i].comment = row.comment
               /\ i # d => version[i] # NoVersion /\ event[i].scheme = row.scheme,
         \A i, j \in Events : version'[i].state = "open" /\ version'[j].state = "open" => i = j
  PROVE  NotesInv'
<1>1. /\ NotesRecorded /\ CommentsFollow /\ act \in [NoteWorkers -> Acts] /\ event[d] = Reserved
  BY NotesFacts DEF ActOK
<1>2. /\ event'[d] = row /\ \A j \in Events : j # d => event'[j] = event[j]
      /\ event' \in [Events -> EventRows \cup {Unused, Reserved}] /\ d \notin Stored
  BY <1>1, EventKinds DEF NotesRecorded, Stored
<1>3. Stored' = Stored \cup {d} /\ \A j \in Stored : event'[j] = event[j]
  BY <1>2 DEF Stored
<1>4. \A j, k \in Stored : Later(j, k)' <=> Later(j, k)
  BY <1>3 DEF Later
<1>5. version[d] = NoVersion
  BY <1>1, <1>2 DEF NotesRecorded
<1>6. \A i \in Events : version[i] # NoVersion => version'[i] # NoVersion
  BY EventKinds
<1>7. \A i \in Events : version'[i].state = "open" =>
        \/ version'[i] = version[i]
        \/ version'[i].by = d /\ version'[i].comment = row.comment
  OBVIOUS
<1>8. NotesRecorded'
  <2>1. ASSUME NEW i \in Events, version'[i] # NoVersion
        PROVE  i \in Stored' /\ version'[i].by \in Stored'
               /\ event'[version'[i].by].scheme = event'[i].scheme
    <3>1. CASE version[i] # NoVersion /\ version'[i].by = version[i].by
      BY <1>1, <1>3, <3>1 DEF NotesRecorded
    <3>2. CASE version'[i].by = d /\ (i # d => version[i] # NoVersion /\ event[i].scheme = row.scheme)
      BY <1>1, <1>2, <1>3, <3>2 DEF NotesRecorded
    <3> QED
      BY <2>1, <3>1, <3>2
  <2> QED
    BY <1>2, <2>1 DEF NotesRecorded
<1>9. CommentsFollow'
  <2> SUFFICES ASSUME NEW j \in Events, version'[j].state = "open", Newest(version[j].by)', ~version'[j].late
               PROVE  version'[j].comment = event'[version'[j].by].comment
    BY DEF CommentsFollow
  <2>1. CASE version'[j].by = d /\ version'[j].comment = row.comment
    BY <1>2, <2>1
  <2>2. CASE version'[j] = version[j]
    <3>1. version[j].by \in Stored
      BY <1>1, <2>2, EventKinds DEF NotesRecorded
    <3>2. Newest(version[j].by)
      BY <1>3, <2>2, <3>1 DEF Newest, Later
    <3> QED
      BY <1>1, <1>3, <2>2, <3>1, <3>2 DEF CommentsFollow
  <2> QED
    BY <1>7, <2>1, <2>2
<1>10. \A u \in NoteWorkers \ {w} : act[u].step \in Arriving => event'[act[u].id] = Reserved
  <2> SUFFICES ASSUME NEW u \in NoteWorkers \ {w}, act[u].step \in Arriving
               PROVE  event'[act[u].id] = Reserved
    OBVIOUS
  <2>1. event[act[u].id] = Reserved /\ act[u].id \in Events /\ act[u].id # d
    BY NotesFacts, ActKinds DEF ActOK
  <2> QED
    BY <1>2, <2>1
<1>11. /\ act' \in [NoteWorkers -> Acts] /\ act'[w] = NoAct
       /\ \A u \in NoteWorkers \ {w} : act'[u] = act[u]
  BY <1>1, NoActOK
<1>12. NoAct \in Acts /\ ActOK(NoAct)' /\ NoAct.step \notin Arriving
  BY NoActOK DEF ActOK, Arriving, Editing
<1>13. \A i \in Events : version'[i].state = "open" =>
             \/ version[i].state = "open" /\ version'[i].by = version[i].by
             \/ version'[i].by \notin Stored
  BY <1>2, <1>7
<1> QED
  BY <1>2, <1>3, <1>6, <1>8, <1>9, <1>10, <1>11, <1>12, <1>13, RowStep

LEMMA KeepTargetInv == ASSUME NotesInv, NEW w \in NoteWorkers, KeepTarget(w) PROVE NotesInv'
<1> DEFINE q == act[w]
           t == q.target
           made == [Commented(q.id, q.row.comment) EXCEPT !.state = version[t].state]
<1>1. /\ q.step = "keep" /\ version' = [version EXCEPT ![t] = made]
      /\ event' = [event EXCEPT ![q.id] = q.row] /\ act' = [act EXCEPT ![w] = NoAct]
  BY DEF KeepTarget, ActAt, Proceeds
<1>2. /\ q \in [step: Arriving, id: Events, row: EventRows, target: Events \cup {0}]
      /\ ActOK(q) /\ NotesRecorded
  BY <1>1, NotesFacts, ActKinds DEF Arriving
<1>3. /\ q.id \in Events /\ q.row \in EventRows /\ q.step \in Arriving
      /\ t \in Events /\ version[t] # NoVersion /\ event[t].scheme = q.row.scheme
  BY <1>1, <1>2 DEF ActOK, Arriving
<1>4. version[t] \in VersionRows
  BY <1>2, <1>3 DEF NotesRecorded
<1>5. made \in VersionRows /\ made.by = q.id /\ made.comment = q.row.comment /\ made.state = version[t].state
  <2>1. q.row.comment \in Comments /\ version[t].state \in {"open", "closed"}
    BY <1>3, <1>4, EventKinds DEF EventRows
  <2> QED
    BY <1>3, <2>1 DEF Commented, VersionRows
<1> HIDE DEF made
<1>6. /\ version'[t] = made /\ \A i \in Events : i # t => version'[i] = version[i]
      /\ version' \in [Events -> VersionRows \cup {NoVersion}]
  BY <1>1, <1>2, <1>3, <1>5 DEF NotesRecorded
<1>7. \A i \in Events : version'[i].state = version[i].state
  BY <1>5, <1>6
<1>8. \A i, j \in Events : version'[i].state = "open" /\ version'[j].state = "open" => i = j
  BY <1>2, <1>7 DEF NotesRecorded
<1> HIDE DEF t
<1>9. \A i \in Events :
            \/ version'[i] = version[i]
            \/ version[i] # NoVersion /\ version'[i] \in VersionRows /\ version'[i].state = "closed"
               /\ version'[i].by = version[i].by
            \/ /\ version'[i] \in VersionRows /\ version'[i].by = q.id
               /\ version'[i].comment = q.row.comment
               /\ i # q.id => version[i] # NoVersion /\ event[i].scheme = q.row.scheme
  BY <1>3, <1>5, <1>6
<1>10. PICK d \in Events, row \in EventRows : d = q.id /\ row = q.row
  BY <1>3
<1>11. /\ act[w].step \in Arriving /\ act[w].id = d /\ event' = [event EXCEPT ![d] = row]
       /\ act' = [act EXCEPT ![w] = NoAct]
       /\ \A i \in Events :
            \/ version'[i] = version[i]
            \/ version[i] # NoVersion /\ version'[i] \in VersionRows /\ version'[i].state = "closed"
               /\ version'[i].by = version[i].by
            \/ /\ version'[i] \in VersionRows /\ version'[i].by = d
               /\ version'[i].comment = row.comment
               /\ i # d => version[i] # NoVersion /\ event[i].scheme = row.scheme
  BY <1>1, <1>3, <1>9, <1>10
<1> QED
  BY <1>6, <1>8, <1>11, ArrivalInv

LEMMA CommitEventInv == ASSUME NotesInv, NEW w \in NoteWorkers, CommitEvent(w) PROVE NotesInv'
<1> DEFINE q == act[w]
           t == q.target
           left == IF t = 0 THEN version ELSE [version EXCEPT ![t].state = "closed"]
           made == Commented(q.id, q.row.comment)
<1>1. /\ q.step = "open" /\ event' = [event EXCEPT ![q.id] = q.row] /\ act' = [act EXCEPT ![w] = NoAct]
      /\ IF q.row.scheme = NoScheme THEN version' = left
         ELSE ActiveVersion \in {0, t} /\ version' = [left EXCEPT ![q.id] = made]
  BY DEF CommitEvent, ActAt, Proceeds
<1>2. /\ q \in [step: Arriving, id: Events, row: EventRows, target: Events \cup {0}]
      /\ ActOK(q) /\ NotesRecorded
  BY <1>1, NotesFacts, ActKinds DEF Arriving
<1>3. /\ q.id \in Events /\ q.row \in EventRows /\ q.step \in Arriving /\ t \in Events \cup {0}
      /\ t # 0 => version[t] # NoVersion
  BY <1>1, <1>2 DEF ActOK, Arriving
<1>4. made \in VersionRows /\ made.by = q.id /\ made.comment = q.row.comment
  BY <1>3 DEF Commented, VersionRows, EventRows
<1> HIDE DEF made
<1>5. /\ left \in [Events -> VersionRows \cup {NoVersion}]
      /\ \A i \in Events : i # t => left[i] = version[i]
      /\ t # 0 => /\ left[t] \in VersionRows /\ left[t].state = "closed"
                  /\ left[t].by = version[t].by
  <2>1. CASE t = 0
    BY <1>2, <2>1 DEF NotesRecorded
  <2>2. CASE t # 0
    <3>1. version[t] \in VersionRows /\ t \in Events
      BY <1>2, <1>3, <2>2 DEF NotesRecorded
    <3>2. /\ [version[t] EXCEPT !.state = "closed"] \in VersionRows
          /\ [version[t] EXCEPT !.state = "closed"].state = "closed"
          /\ [version[t] EXCEPT !.state = "closed"].by = version[t].by
      BY <3>1 DEF VersionRows
    <3> QED
      BY <1>2, <2>2, <3>1, <3>2 DEF NotesRecorded
  <2> QED
    BY <2>1, <2>2
<1>6. \A i \in Events : left[i].state = "open" => i # t /\ version[i].state = "open" /\ i = ActiveVersion
  BY <1>2, <1>5, InForce, EventKinds
<1> HIDE DEF left, t
<1>7. CASE q.row.scheme = NoScheme
  <2>1. \A i, j \in Events : version'[i].state = "open" /\ version'[j].state = "open" => i = j
    BY <1>1, <1>6, <1>7
  <2>2. \A i \in Events :
            \/ version'[i] = version[i]
            \/ version[i] # NoVersion /\ version'[i] \in VersionRows /\ version'[i].state = "closed"
               /\ version'[i].by = version[i].by
    BY <1>1, <1>3, <1>5, <1>7, EventKinds
  <2>3. version' \in [Events -> VersionRows \cup {NoVersion}]
    BY <1>1, <1>5, <1>7
  <2> QED
    BY <1>1, <1>3, <2>1, <2>2, <2>3, ArrivalInv
<1>8. CASE q.row.scheme # NoScheme
  <2>1. /\ version' \in [Events -> VersionRows \cup {NoVersion}]
        /\ version'[q.id] = made /\ \A i \in Events : i # q.id => version'[i] = left[i]
        /\ ActiveVersion \in {0, t}
    BY <1>1, <1>3, <1>4, <1>5, <1>8
  <2>2. \A i \in Events : version'[i].state = "open" => i = q.id
    BY <1>6, <2>1, EventKinds
  <2>3. \A i \in Events :
            \/ version'[i] = version[i]
            \/ version[i] # NoVersion /\ version'[i] \in VersionRows /\ version'[i].state = "closed"
               /\ version'[i].by = version[i].by
            \/ i = q.id /\ version'[i] \in VersionRows /\ version'[i].by = q.id
               /\ version'[i].comment = q.row.comment
    BY <1>3, <1>4, <1>5, <2>1, EventKinds
  <2>4. \A i, j \in Events : version'[i].state = "open" /\ version'[j].state = "open" => i = j
    BY <2>2
  <2>5. PICK d \in Events, row \in EventRows : d = q.id /\ row = q.row
    BY <1>3
  <2>6. /\ act[w].step \in Arriving /\ act[w].id = d /\ event' = [event EXCEPT ![d] = row]
        /\ act' = [act EXCEPT ![w] = NoAct]
        /\ \A i \in Events :
             \/ version'[i] = version[i]
             \/ version[i] # NoVersion /\ version'[i] \in VersionRows /\ version'[i].state = "closed"
                /\ version'[i].by = version[i].by
             \/ /\ version'[i] \in VersionRows /\ version'[i].by = d
                /\ version'[i].comment = row.comment
                /\ i # d => version[i] # NoVersion /\ event[i].scheme = row.scheme
    BY <1>1, <1>3, <2>3, <2>5
  <2> QED
    BY <2>1, <2>4, <2>6, ArrivalInv
<1> QED
  BY <1>7, <1>8

LEMMA CommitNoteInv == ASSUME NotesInv, NEW w \in NoteWorkers, CommitNote(w) PROVE NotesInv'
<1> DEFINE q == act[w]
           d == q.id
           t == q.target
           Told(a) == IF a.step \in {"form", "update"} /\ a.id = d THEN [a EXCEPT !.fresh = FALSE] ELSE a
           made == [version[t] EXCEPT !.comment = q.comment, !.late = version[t].by # q.by]
<1>1. /\ q.step = "commit" /\ event' = [event EXCEPT ![d].comment = q.comment]
      /\ act' = [v \in NoteWorkers |-> IF v = w THEN NoAct ELSE Told(act[v])]
      /\ version' = IF t = 0 THEN version
                    ELSE [version EXCEPT ![t].comment = q.comment, ![t].late = version[t].by # q.by]
  BY DEF CommitNote, ActAt
<1>2. /\ q \in [step: {"commit"}, id: Events, comment: Comments, target: Events \cup {0}, by: Events \cup {0}]
      /\ ActOK(q) /\ NotesRecorded /\ CommentsFollow /\ act \in [NoteWorkers -> Acts]
  BY <1>1, NotesFacts, ActKinds
<1>3. /\ d \in Stored /\ d \in Events /\ q.comment \in Comments /\ t \in Events \cup {0}
      /\ t # 0 => /\ version[t] # NoVersion /\ q.by \in Stored
                  /\ d # q.by => Later(d, q.by)
      /\ \A i \in Events : version[i].state = "open" /\ version[i].by = d /\ i # t => ~Newest(d)
  BY <1>1, <1>2 DEF ActOK, Editing, Stored
<1> DEFINE edited == [event[d] EXCEPT !.comment = q.comment]
<1>4. edited \in EventRows /\ edited.at = event[d].at /\ edited.scheme = event[d].scheme
      /\ edited.comment = q.comment
  BY <1>3 DEF EventRows, Stored
<1>5. /\ event'[d] = edited /\ \A i \in Events : i # d => event'[i] = event[i]
      /\ event' \in [Events -> EventRows \cup {Unused, Reserved}]
  BY <1>1, <1>2, <1>3, <1>4 DEF NotesRecorded
<1> HIDE DEF edited
<1>6. /\ Stored' = Stored
      /\ \A i \in Stored : event'[i].at = event[i].at /\ event'[i].scheme = event[i].scheme
  BY <1>3, <1>4, <1>5 DEF Stored
<1>7. \A i, j \in Stored : Later(i, j)' <=> Later(i, j)
  BY <1>6 DEF Later
<1>8. t # 0 => /\ made \in VersionRows /\ made.state = version[t].state /\ made.by = version[t].by
               /\ made.comment = q.comment /\ (made.late <=> version[t].by # q.by)
               /\ version' = [version EXCEPT ![t] = made]
  <2> SUFFICES ASSUME t # 0
               PROVE  /\ made \in VersionRows /\ made.state = version[t].state /\ made.by = version[t].by
                      /\ made.comment = q.comment /\ (made.late <=> version[t].by # q.by)
                      /\ version' = [version EXCEPT ![t] = made]
    OBVIOUS
  <2>1. version[t] \in VersionRows
    BY <1>2, <1>3 DEF NotesRecorded
  <2>2. (version[t].by # q.by) \in BOOLEAN
    OBVIOUS
  <2>3. /\ made \in VersionRows /\ made.state = version[t].state /\ made.by = version[t].by
        /\ made.comment = q.comment /\ (made.late <=> version[t].by # q.by)
    BY <1>3, <2>1, <2>2 DEF VersionRows
  <2>4. version' = [version EXCEPT ![t] = made]
    BY <1>1, <1>2, <1>3 DEF NotesRecorded
  <2> QED
    BY <2>3, <2>4
<1> HIDE DEF made
<1>9. /\ \A i \in Events : i # t => version'[i] = version[i]
      /\ t # 0 => version'[t] = made
      /\ version' \in [Events -> VersionRows \cup {NoVersion}]
  <2>1. CASE t = 0
    BY <1>1, <1>2, <2>1, EventKinds DEF NotesRecorded
  <2>2. CASE t # 0
    BY <1>2, <1>3, <1>8, <2>2 DEF NotesRecorded
  <2> QED
    BY <2>1, <2>2
<1>10. \A i \in Events : /\ version'[i].state = version[i].state /\ version'[i].by = version[i].by
                         /\ version[i] # NoVersion <=> version'[i] # NoVersion
  <2> SUFFICES ASSUME NEW i \in Events
               PROVE  /\ version'[i].state = version[i].state /\ version'[i].by = version[i].by
                      /\ version[i] # NoVersion <=> version'[i] # NoVersion
    OBVIOUS
  <2>1. CASE i # t
    BY <1>9, <2>1
  <2>2. CASE i = t
    BY <1>3, <1>8, <1>9, <2>2, EventKinds
  <2> QED
    BY <2>1, <2>2
<1>11. NotesRecorded'
  BY <1>2, <1>5, <1>6, <1>9, <1>10 DEF NotesRecorded
<1>12. CommentsFollow'
  <2> SUFFICES ASSUME NEW i \in Events, version'[i].state = "open", Newest(version[i].by)', ~version'[i].late
               PROVE  version'[i].comment = event'[version'[i].by].comment
    BY DEF CommentsFollow
  <2> DEFINE b == version[i].by
  <2>1. version[i].state = "open" /\ version'[i].by = b /\ b \in Stored
    BY <1>2, <1>10, EventKinds DEF NotesRecorded
  <2>2. Newest(b)
    BY <1>6, <2>1 DEF Newest, Later
  <2>3. CASE i # t
    <3>1. version'[i] = version[i] /\ b # d
      BY <1>3, <1>9, <2>1, <2>2, <2>3
    <3>2. event'[b] = event[b]
      BY <1>5, <2>1, <3>1 DEF Stored
    <3> QED
      BY <1>2, <2>1, <2>2, <3>1, <3>2 DEF CommentsFollow
  <2>4. CASE i = t
    <3>1. b = q.by /\ version'[i].comment = q.comment
      BY <1>8, <1>9, <2>4, EventKinds
    <3>2. d = q.by
      BY <1>3, <2>2, <2>4, <3>1, EventKinds DEF Newest
    <3> QED
      BY <1>4, <1>5, <2>1, <3>1, <3>2
  <2> QED
    BY <2>3, <2>4
<1>13. \A u \in NoteWorkers \ {w} : act[u].step \in Arriving => event'[act[u].id] = Reserved
  <2> SUFFICES ASSUME NEW u \in NoteWorkers \ {w}, act[u].step \in Arriving
               PROVE  event'[act[u].id] = Reserved
    OBVIOUS
  <2>1. event[act[u].id] = Reserved /\ act[u].id \in Events
    BY NotesFacts, ActKinds DEF ActOK
  <2>2. act[u].id # d
    BY <1>3, <2>1, EventKinds DEF Stored
  <2> QED
    BY <1>5, <2>1, <2>2
<1>14. \A a \in Acts : /\ Told(a) \in Acts
                       /\ Told(a) = a \/ (a.step \in {"form", "update"} /\ Told(a).step = a.step /\ Told(a).id = a.id)
  <2> SUFFICES ASSUME NEW a \in Acts, a.step \in {"form", "update"}
               PROVE  /\ [a EXCEPT !.fresh = FALSE] \in Acts /\ [a EXCEPT !.fresh = FALSE].step = a.step
                      /\ [a EXCEPT !.fresh = FALSE].id = a.id
    OBVIOUS
  <2>1. \/ a \in [step: {"form"}, id: Events, fresh: BOOLEAN]
        \/ a \in [step: {"update", "active"}, id: Events, fresh: BOOLEAN, comment: Comments]
    BY ActKinds
  <2> QED
    BY <2>1 DEF Acts
<1> HIDE DEF Told
<1>15. /\ act' \in [NoteWorkers -> Acts] /\ act'[w] = NoAct
       /\ \A u \in NoteWorkers \ {w} :
            \/ act'[u] = act[u]
            \/ act[u].step \in {"form", "update"} /\ act'[u].step = act[u].step /\ act'[u].id = act[u].id
  BY <1>1, <1>2, <1>14, NoActOK
<1>16. NoAct \in Acts /\ ActOK(NoAct)' /\ NoAct.step \notin Arriving
  BY NoActOK DEF ActOK, Arriving, Editing
<1> QED
  BY <1>5, <1>6, <1>10, <1>11, <1>12, <1>13, <1>15, <1>16, RowStep

LEMMA NotesInvInit == ASSUME NotesInit PROVE NotesInv
<1>1. NotesRecorded /\ CommentsFollow
  BY EventKinds DEF NotesInit, NotesRecorded, CommentsFollow
<1>2. \A w \in NoteWorkers : act[w] = NoAct
  BY DEF NotesInit
<1>3. act \in [NoteWorkers -> Acts]
  BY NoActOK DEF NotesInit
<1> QED
  BY <1>1, <1>2, <1>3, NoActOK DEF NotesInv, Arriving

LEMMA NotesInvNext == ASSUME NotesInv, [NotesNext]_noteVars PROVE NotesInv'
<1>1. CASE UNCHANGED noteVars
  BY <1>1 DEF NotesInv, NotesRecorded, CommentsFollow, ActOK, Stored, Newest, Later, noteVars
<1>2. ASSUME NEW w \in NoteWorkers, LeaveNote(w) PROVE NotesInv'
  BY <1>2, IdleStep DEF LeaveNote
<1> QED
  BY <1>1, <1>2, StartEventInv, InsertNoteInv, KeepTargetInv, CloseTargetInv, CommitEventInv,
     ShowEventInv, SubmitNoteInv, UpdateNoteInv, ReadActiveInv, ReadLaterInv, CommitNoteInv
  DEF NotesNext

\* Events, versions and the requests in progress fit together.
THEOREM NotesInvariant == NotesSpec => []NotesInv
BY NotesInvInit, NotesInvNext, PTL DEF NotesSpec

\* The version in force shows the comment of the newest event, whichever comments
\* are edited meanwhile, unless an edit of an older one was about to be saved.
THEOREM CommentsFollowEvents == NotesSpec => []CommentsFollow
BY NotesInvariant, PTL DEF NotesInv

--------------------------------------------------------------------------------
(***************************************************************************)
(* What the import and the cleanup leave behind, for any old database and  *)
(* any ids: the numbers and links that the application may find, and the   *)
(* sequences it goes on with.                                              *)
(***************************************************************************)

NumberRows == [active: BOOLEAN, status: {"used", "unused", "unknown"}]
LinkRows == [ref: LegacyIds, active: BOOLEAN]

\* A database in which numbers are stored as the application stores them, and
\* every link refers to one.
Sound(db) ==
    /\ db = [t \in Tables |-> db[t]]
    /\ \A t \in Tables : TakenIds(db, t) \subseteq 1 .. LastRowId
    /\ \A n \in TakenIds(db, "phone_numbers") : db["phone_numbers"][n] \in NumberRows
    /\ \A l \in TakenIds(db, "route_phone_numbers") :
          /\ db["route_phone_numbers"][l] \in LinkRows
          /\ db["route_phone_numbers"][l].ref \in TakenIds(db, "phone_numbers")

LinksHold(db) ==
    \A l \in TakenIds(db, "route_phone_numbers") :
        db["route_phone_numbers"][l].active =>
            LET number == db["phone_numbers"][db["route_phone_numbers"][l].ref] IN
            number.active /\ number.status = "used"

\* The old database, whose numbers have more states.
SourceSound ==
    /\ source = [t \in Tables |-> source[t]]
    /\ \A t \in Tables : TakenIds(source, t) \subseteq LegacyIds
    /\ \A n \in TakenIds(source, "phone_numbers") : source["phone_numbers"][n] \in OldRows("phone_numbers")
    /\ \A l \in TakenIds(source, "route_phone_numbers") : source["route_phone_numbers"][l] \in LinkRows

\* The sequences are past the ids of db.
CountersPast(db, last) ==
    \A t \in Tables : TakenIds(db, t) \subseteq 1 .. last[t]

ScriptHas(fields) == script = [f \in fields |-> script[f]]

ScriptSound ==
    \/ script = NoScript
    \/ /\ At("import") /\ ScriptHas({"step", "todo", "drop", "db"}) /\ script.todo \in Seq(Tables)
       /\ Sound(script.db)
    \/ /\ At("sequences") /\ Sound(script.db) /\ LinksHold(script.db)
    \/ /\ At("validate") /\ Sound(script.db) /\ LinksHold(script.db)
       /\ CountersPast(script.db, IF script.drop THEN script.counter ELSE counter)
       /\ script.drop => script.counter \in [Tables -> Nat]
    \/ /\ At("delete") /\ ScriptHas({"step", "todo", "db"}) /\ script.todo \in Seq(Tables)
       /\ Sound(script.db) /\ LinksHold(script.db)
    \/ /\ At("identities") /\ ScriptHas({"step", "db"})
       /\ Sound(script.db) /\ LinksHold(script.db)
    \/ /\ At("verify") /\ Sound(script.db) /\ LinksHold(script.db)
       /\ TakenIds(script.db, "change_log") \subseteq 1 .. counter["change_log"]

CutInv ==
    /\ SourceSound /\ Sound(stored) /\ LinksHold(stored)
    /\ counter \in [Tables -> Nat] /\ ScriptSound

LEMMA TableNames ==
  /\ Tables = {"phone_numbers", "route_phone_numbers", "server_route_priorities",
               "change_log", "provider_change_logs"}
  /\ "phone_numbers" \in Tables /\ "route_phone_numbers" \in Tables /\ "change_log" \in Tables
BY DEF Tables

LEMMA HighestPast ==
  ASSUME NEW db, NEW t \in Tables, TakenIds(db, t) \subseteq 1 .. LastRowId
  PROVE  Highest(db, t) \in Nat /\ TakenIds(db, t) \subseteq 1 .. Highest(db, t)
<1> DEFINE S == TakenIds(db, t) \cup {0}
<1>1. S \in SUBSET Nat /\ LastRowId \in Nat /\ (\A s \in S : s <= LastRowId) /\ S # {}
  BY CutoverAssumption
<1>2. Max(S) \in S /\ \A s \in S : s <= Max(S)
  <2> HIDE DEF S
  <2> QED
    BY <1>1, MaxOfBounded
<1>3. Highest(db, t) = Max(S)
  BY DEF Highest
<1> HIDE DEF Max
<1>4. Max(S) \in Nat
  BY <1>1, <1>2
<1> QED
  BY <1>2, <1>3, <1>4

\* A number that is linked and active is in use.
LEMMA PromotedEffect ==
  ASSUME NEW db, Sound(db), NEW p, p = Promoted(db)
  PROVE  /\ p = [t \in Tables |-> p[t]] /\ \A t \in Tables : TakenIds(p, t) = TakenIds(db, t)
         /\ p["route_phone_numbers"] = db["route_phone_numbers"]
         /\ \A n \in TakenIds(db, "phone_numbers") :
              /\ p["phone_numbers"][n] \in NumberRows
              /\ p["phone_numbers"][n].active = db["phone_numbers"][n].active
              /\ HasLink(db, n) /\ p["phone_numbers"][n].active => p["phone_numbers"][n].status = "used"
<1> DEFINE row(n) == db["phone_numbers"][n]
           made(n) == IF row(n).active /\ row(n).status # "used" /\ HasLink(db, n)
                      THEN [row(n) EXCEPT !.status = "used"] ELSE row(n)
           numbers == [n \in TakenIds(db, "phone_numbers") |-> made(n)]
<1>1. p = [db EXCEPT !["phone_numbers"] = numbers]
  BY DEF Promoted, MapNumbers
<1>2. \A n \in TakenIds(db, "phone_numbers") :
        /\ made(n) \in NumberRows /\ made(n).active = row(n).active
        /\ HasLink(db, n) /\ made(n).active => made(n).status = "used"
  BY DEF Sound, NumberRows
<1> HIDE DEF made
<1>3. p["phone_numbers"] = numbers /\ \A t \in Tables : t # "phone_numbers" => p[t] = db[t]
  BY <1>1, TableNames DEF Sound
<1>4. p = [t \in Tables |-> p[t]]
  BY <1>1 DEF Sound
<1>5. \A t \in Tables : TakenIds(p, t) = TakenIds(db, t)
  BY <1>3 DEF TakenIds
<1> QED
  BY <1>2, <1>3, <1>4, <1>5, TableNames

\* A link in a sound database, after its number was promoted.
LEMMA LinkRow ==
  ASSUME NEW db, Sound(db), NEW l \in TakenIds(db, "route_phone_numbers")
  PROVE  /\ db["route_phone_numbers"][l].ref \in TakenIds(db, "phone_numbers")
         /\ db["route_phone_numbers"][l].ref \in LegacyIds
         /\ db["route_phone_numbers"][l].active \in BOOLEAN
         /\ db["route_phone_numbers"][l].active =>
               HasLink(db, db["route_phone_numbers"][l].ref)
<1>1. /\ db["route_phone_numbers"][l] \in LinkRows
      /\ db["route_phone_numbers"][l].ref \in TakenIds(db, "phone_numbers")
  BY DEF Sound
<1>2. ASSUME db["route_phone_numbers"][l].active
      PROVE  db["route_phone_numbers"][l] = [ref |-> db["route_phone_numbers"][l].ref, active |-> TRUE]
  BY <1>1, <1>2 DEF LinkRows
<1> QED
  BY <1>1, <1>2 DEF LinkRows, HasLink

\* Closing links leaves a sound database sound.
LEMMA ClosedSound ==
  ASSUME NEW db, Sound(db), NEW p, p = [t \in Tables |-> p[t]],
         \A t \in Tables : TakenIds(p, t) = TakenIds(db, t),
         \A n \in TakenIds(db, "phone_numbers") : p["phone_numbers"][n] \in NumberRows,
         \A l \in TakenIds(db, "route_phone_numbers") :
            p["route_phone_numbers"][l] \in
               {db["route_phone_numbers"][l], [db["route_phone_numbers"][l] EXCEPT !.active = FALSE]}
  PROVE  Sound(p)
<1>1. \A row \in LinkRows : /\ [row EXCEPT !.active = FALSE] \in LinkRows
                            /\ [row EXCEPT !.active = FALSE].ref = row.ref
  BY DEF LinkRows
<1>2. \A l \in TakenIds(db, "route_phone_numbers") :
        /\ p["route_phone_numbers"][l] \in LinkRows
        /\ p["route_phone_numbers"][l].ref = db["route_phone_numbers"][l].ref
  BY <1>1 DEF Sound
<1> QED
  BY <1>2, TableNames DEF Sound

LEMMA ReconciledSound ==
  ASSUME NEW db, Sound(db), NEW p, p = Reconciled(db)
  PROVE  Sound(p) /\ LinksHold(p)
<1> DEFINE q == Promoted(db)
           link(l) == db["route_phone_numbers"][l]
           number(n) == q["phone_numbers"][n]
           made(l) == IF ~number(link(l).ref).active THEN [link(l) EXCEPT !.active = FALSE] ELSE link(l)
           links == [l \in TakenIds(db, "route_phone_numbers") |-> made(l)]
<1>1. /\ q = [t \in Tables |-> q[t]] /\ \A t \in Tables : TakenIds(q, t) = TakenIds(db, t)
      /\ q["route_phone_numbers"] = db["route_phone_numbers"]
      /\ \A n \in TakenIds(db, "phone_numbers") :
           /\ number(n) \in NumberRows
           /\ HasLink(db, n) /\ number(n).active => number(n).status = "used"
  BY PromotedEffect
<1>2. p = [q EXCEPT !["route_phone_numbers"] = links]
  BY <1>1 DEF Reconciled, CloseWhere, TakenIds
<1> HIDE DEF q, made
<1>3. /\ p["route_phone_numbers"] = links /\ p["phone_numbers"] = q["phone_numbers"]
      /\ \A t \in Tables : TakenIds(p, t) = TakenIds(db, t)
      /\ p = [t \in Tables |-> p[t]]
  BY <1>1, <1>2, TableNames DEF TakenIds
<1>4. \A l \in TakenIds(db, "route_phone_numbers") :
        p["route_phone_numbers"][l] \in {link(l), [link(l) EXCEPT !.active = FALSE]}
  BY <1>3 DEF made
<1>5. Sound(p)
  BY <1>1, <1>3, <1>4, ClosedSound
<1>6. ASSUME NEW l \in TakenIds(p, "route_phone_numbers"), made(l).active
      PROVE  number(link(l).ref).active /\ number(link(l).ref).status = "used" /\ made(l).ref = link(l).ref
  <2>1. l \in TakenIds(db, "route_phone_numbers")
    BY <1>3, TableNames
  <2>2. /\ link(l).ref \in TakenIds(db, "phone_numbers") /\ link(l).active \in BOOLEAN
        /\ (link(l).active => HasLink(db, link(l).ref)) /\ link(l) \in LinkRows
    BY <2>1, LinkRow DEF Sound
  <2>3. [link(l) EXCEPT !.active = FALSE].active = FALSE
    BY <2>2 DEF LinkRows
  <2>4. number(link(l).ref).active /\ made(l) = link(l)
    BY <1>6, <2>3 DEF made
  <2> QED
    BY <1>1, <1>6, <2>2, <2>4
<1>7. LinksHold(p)
  BY <1>3, <1>6, TableNames DEF LinksHold
<1> QED
  BY <1>5, <1>7

LEMMA RepairedSound ==
  ASSUME NEW db, Sound(db), NEW p, p = Repaired(db)
  PROVE  Sound(p) /\ LinksHold(p)
<1> DEFINE q == Promoted(db)
           settled(n) == IF q["phone_numbers"][n].active THEN q["phone_numbers"][n]
                         ELSE [q["phone_numbers"][n] EXCEPT !.status = "unused"]
           numbers == [n \in TakenIds(db, "phone_numbers") |-> settled(n)]
           link(l) == db["route_phone_numbers"][l]
           made(l) == IF ~numbers[link(l).ref].active \/ numbers[link(l).ref].status # "used"
                      THEN [link(l) EXCEPT !.active = FALSE] ELSE link(l)
           links == [l \in TakenIds(db, "route_phone_numbers") |-> made(l)]
<1>1. /\ q = [t \in Tables |-> q[t]] /\ \A t \in Tables : TakenIds(q, t) = TakenIds(db, t)
      /\ q["route_phone_numbers"] = db["route_phone_numbers"]
      /\ \A n \in TakenIds(db, "phone_numbers") : q["phone_numbers"][n] \in NumberRows
  BY PromotedEffect, Zenon
<1> DEFINE r == [q EXCEPT !["phone_numbers"] = numbers]
<1>2. p = [r EXCEPT !["route_phone_numbers"] = [l \in TakenIds(r, "route_phone_numbers") |->
             IF ~r["phone_numbers"][@[l].ref].active \/ r["phone_numbers"][@[l].ref].status # "used"
             THEN [@[l] EXCEPT !.active = FALSE] ELSE @[l]]]
  <2>1. r = [q EXCEPT !["phone_numbers"] = [n \in TakenIds(q, "phone_numbers") |->
               IF @[n].active THEN @[n] ELSE [@[n] EXCEPT !.status = "unused"]]]
    BY <1>1, TableNames
  <2> QED
    BY <2>1, Zenon DEF Repaired, CloseWhere, MapNumbers
<1>3. r["phone_numbers"] = numbers /\ r["route_phone_numbers"] = db["route_phone_numbers"]
      /\ r = [t \in Tables |-> r[t]] /\ \A t \in Tables : TakenIds(r, t) = TakenIds(db, t)
  <2> HIDE DEF q, numbers
  <2>1. DOMAIN numbers = TakenIds(db, "phone_numbers")
    BY DEF numbers
  <2> QED
    BY <1>1, <2>1, TableNames DEF TakenIds
<1>4. \A n \in TakenIds(db, "phone_numbers") : numbers[n] \in NumberRows
  BY <1>1 DEF NumberRows
<1> HIDE DEF r, q, numbers
<1>5. p = [r EXCEPT !["route_phone_numbers"] = links]
  <2> DEFINE closed == [l \in TakenIds(r, "route_phone_numbers") |->
               IF ~r["phone_numbers"][r["route_phone_numbers"][l].ref].active
                  \/ r["phone_numbers"][r["route_phone_numbers"][l].ref].status # "used"
               THEN [r["route_phone_numbers"][l] EXCEPT !.active = FALSE]
               ELSE r["route_phone_numbers"][l]]
  <2>1. p = [r EXCEPT !["route_phone_numbers"] = closed]
    BY <1>2
  <2>2. TakenIds(r, "route_phone_numbers") = TakenIds(db, "route_phone_numbers")
    BY <1>3, TableNames
  <2>3. closed = links
    BY <1>3, <2>2
  <2> HIDE DEF closed, links
  <2> QED
    BY <2>1, <2>3
<1> HIDE DEF made
<1>6. /\ p["route_phone_numbers"] = links /\ p["phone_numbers"] = numbers
      /\ \A t \in Tables : TakenIds(p, t) = TakenIds(db, t)
      /\ p = [t \in Tables |-> p[t]]
  BY <1>3, <1>5, TableNames DEF TakenIds
<1>7. \A l \in TakenIds(db, "route_phone_numbers") :
        p["route_phone_numbers"][l] \in {link(l), [link(l) EXCEPT !.active = FALSE]}
  BY <1>6 DEF made
<1>8. Sound(p)
  BY <1>4, <1>6, <1>7, ClosedSound
<1>9. ASSUME NEW l \in TakenIds(p, "route_phone_numbers"), made(l).active
      PROVE  numbers[made(l).ref].active /\ numbers[made(l).ref].status = "used"
  <2>1. l \in TakenIds(db, "route_phone_numbers")
    BY <1>6, TableNames
  <2>2. link(l) \in LinkRows
    BY <2>1 DEF Sound
  <2>3. [link(l) EXCEPT !.active = FALSE].active = FALSE
    BY <2>2 DEF LinkRows
  <2> QED
    BY <1>9, <2>3 DEF made
<1>10. LinksHold(p)
  BY <1>6, <1>9, TableNames DEF LinksHold
<1> QED
  BY <1>8, <1>10

\* What a statement of a script does to one table.
LEMMA KeysSound ==
  ASSUME NEW db, db = [t \in Tables |-> db[t]], KeysHold(db),
         \A t \in Tables : TakenIds(db, t) \subseteq 1 .. LastRowId,
         \A n \in TakenIds(db, "phone_numbers") : db["phone_numbers"][n] \in NumberRows,
         \A l \in TakenIds(db, "route_phone_numbers") : db["route_phone_numbers"][l] \in LinkRows
  PROVE  Sound(db)
<1> SUFFICES ASSUME NEW l \in TakenIds(db, "route_phone_numbers")
             PROVE  db["route_phone_numbers"][l].ref \in TakenIds(db, "phone_numbers")
  BY DEF Sound
<1> DEFINE k == <<"route_phone_numbers", "phone_numbers">>
<1>1. k \in ForeignKeys /\ k[1] = "route_phone_numbers" /\ k[2] = "phone_numbers"
  BY DEF ForeignKeys
<1> HIDE DEF k
<1>2. db["route_phone_numbers"][l].ref \in TakenIds(db, "phone_numbers") \cup {0}
  BY <1>1 DEF KeysHold, Orphans
<1>3. db["route_phone_numbers"][l].ref \in LegacyIds
  BY DEF LinkRows
<1>4. 0 \notin LegacyIds
  BY CutoverAssumption
<1> QED
  BY <1>2, <1>3, <1>4

LEMMA ConvertedRow ==
  ASSUME NEW n \in OldRows("phone_numbers") PROVE Converted(n) \in NumberRows
<1>1. n.active \in BOOLEAN
  BY DEF OldRows
<1> QED
  BY <1>1 DEF Converted, NumberRows

\* Steps that leave the stored database alone.
LEMMA ScriptStep ==
  ASSUME CutInv, UNCHANGED <<source, stored>>, counter' \in [Tables -> Nat], ScriptSound'
  PROVE  CutInv'
BY DEF CutInv, SourceSound, Sound, LinksHold, TakenIds

\* Which of the cases of ScriptSound a step finds.
LEMMA ScriptCases ==
  ASSUME CutInv
  PROVE  /\ At("import") => /\ ScriptHas({"step", "todo", "drop", "db"})
                            /\ script.todo \in Seq(Tables) /\ Sound(script.db)
         /\ At("sequences") => Sound(script.db) /\ LinksHold(script.db)
         /\ At("validate") => /\ Sound(script.db) /\ LinksHold(script.db)
                              /\ CountersPast(script.db, IF script.drop THEN script.counter ELSE counter)
                              /\ script.drop => script.counter \in [Tables -> Nat]
         /\ At("delete") => /\ ScriptHas({"step", "todo", "db"}) /\ script.todo \in Seq(Tables)
                            /\ Sound(script.db) /\ LinksHold(script.db)
         /\ At("identities") => ScriptHas({"step", "db"}) /\ Sound(script.db) /\ LinksHold(script.db)
         /\ At("verify") => /\ Sound(script.db) /\ LinksHold(script.db)
                            /\ TakenIds(script.db, "change_log") \subseteq 1 .. counter["change_log"]
         /\ At("none") => script = NoScript
         /\ counter \in [Tables -> Nat]
BY DEF CutInv, ScriptSound, At, NoScript

LEMMA ImportTableInv == ASSUME CutInv, ImportTable PROVE CutInv'
<1> DEFINE t == Head(script.todo)
           old == script.db
           loaded == IF t = "phone_numbers" THEN [i \in TakenIds(source, t) |-> Converted(source[t][i])]
                     ELSE source[t]
           db == [old EXCEPT ![t] = loaded]
<1>1. /\ At("import") /\ script.todo # <<>> /\ KeysHold(db)
      /\ script' = [script EXCEPT !.db = db, !.todo = Tail(@)]
      /\ UNCHANGED <<source, stored, counter>>
  BY DEF ImportTable
<1>2. /\ ScriptHas({"step", "todo", "drop", "db"}) /\ script.todo \in Seq(Tables) /\ Sound(old)
      /\ SourceSound
  BY <1>1 DEF CutInv, ScriptSound, At, NoScript
<1>3. t \in Tables /\ Tail(script.todo) \in Seq(Tables)
  BY <1>1, <1>2
<1>4. /\ script'.step = "import" /\ script'.todo = Tail(script.todo) /\ script'.db = db
      /\ script' = [f \in {"step", "todo", "drop", "db"} |-> script'[f]]
  BY <1>1, <1>2 DEF ScriptHas, At
<1> HIDE DEF t
<1>5. /\ db[t] = loaded /\ \A u \in Tables : u # t => db[u] = old[u]
      /\ db = [u \in Tables |-> db[u]]
  BY <1>2, <1>3 DEF Sound
<1>6. TakenIds(db, t) = TakenIds(source, t)
  BY <1>5 DEF TakenIds
<1>7. \A u \in Tables : TakenIds(db, u) \subseteq 1 .. LastRowId
  <2>1. TakenIds(source, t) \subseteq 1 .. LastRowId
    BY <1>2, <1>3, CutoverAssumption DEF SourceSound
  <2>2. \A u \in Tables : u # t => TakenIds(db, u) = TakenIds(old, u)
    BY <1>5 DEF TakenIds
  <2> QED
    BY <1>2, <1>6, <2>1, <2>2 DEF Sound
<1>8. \A n \in TakenIds(db, "phone_numbers") : db["phone_numbers"][n] \in NumberRows
  <2>1. CASE t = "phone_numbers"
    <3> SUFFICES ASSUME NEW n \in TakenIds(source, "phone_numbers")
                 PROVE  db["phone_numbers"][n] \in NumberRows
      BY <1>6, <2>1
    <3>1. db["phone_numbers"][n] = Converted(source["phone_numbers"][n])
      BY <1>5, <2>1
    <3>2. source["phone_numbers"][n] \in OldRows("phone_numbers")
      BY <1>2 DEF SourceSound
    <3> QED
      BY <3>1, <3>2, ConvertedRow
  <2>2. CASE t # "phone_numbers"
    BY <1>2, <1>5, <2>2, TableNames DEF Sound, TakenIds
  <2> QED
    BY <2>1, <2>2
<1>9. \A l \in TakenIds(db, "route_phone_numbers") : db["route_phone_numbers"][l] \in LinkRows
  <2>1. CASE t = "route_phone_numbers"
    <3>1. db["route_phone_numbers"] = source["route_phone_numbers"]
      BY <1>5, <2>1
    <3> QED
      BY <1>2, <3>1 DEF SourceSound, TakenIds
  <2>2. CASE t # "route_phone_numbers"
    BY <1>2, <1>5, <2>2, TableNames DEF Sound, TakenIds
  <2> QED
    BY <2>1, <2>2
<1> HIDE DEF db
<1>10. Sound(db)
  BY <1>1, <1>5, <1>7, <1>8, <1>9, KeysSound DEF db
<1>11. ScriptSound'
  BY <1>3, <1>4, <1>10 DEF ScriptSound, At, ScriptHas, Sound, TakenIds
<1> QED
  BY <1>1, <1>11, ScriptStep, ScriptCases

LEMMA StartMigrationInv == ASSUME CutInv, StartMigration PROVE CutInv'
<1>1. PICK drop \in BOOLEAN :
        script' = [step |-> "import", todo |-> MigrationOrder, drop |-> drop,
                   db |-> Emptied(stored, Tables)]
  BY DEF StartMigration
<1>2. UNCHANGED <<source, stored, counter>>
  BY DEF StartMigration
<1> DEFINE db == Emptied(stored, Tables)
<1>3. db = [t \in Tables |-> db[t]] /\ \A t \in Tables : TakenIds(db, t) = {}
  BY DEF Emptied, TakenIds
<1>4. Sound(db)
  BY <1>3, TableNames DEF Sound
<1> HIDE DEF db
<1>5. MigrationOrder \in Seq(Tables)
  BY DEF MigrationOrder, Tables
<1>6. /\ script'.step = "import" /\ script'.todo = MigrationOrder /\ script'.db = db
      /\ script' = [f \in {"step", "todo", "drop", "db"} |-> script'[f]]
  BY <1>1 DEF db
<1>7. ScriptSound'
  BY <1>4, <1>5, <1>6 DEF ScriptSound, At, ScriptHas, Sound, TakenIds
<1> QED
  BY <1>2, <1>7, ScriptStep, ScriptCases

LEMMA ReconcileInv == ASSUME CutInv, Reconcile PROVE CutInv'
<1>1. /\ At("import") /\ script' = [script EXCEPT !.step = "sequences", !.db = Reconciled(@)]
      /\ UNCHANGED <<source, stored, counter>>
  BY DEF Reconcile
<1>2. ScriptHas({"step", "todo", "drop", "db"}) /\ Sound(script.db)
  BY <1>1, ScriptCases
<1>3. script'.step = "sequences" /\ script'.db = Reconciled(script.db)
  BY <1>1, <1>2 DEF ScriptHas
<1>4. Sound(script'.db) /\ LinksHold(script'.db)
  BY <1>2, <1>3, ReconciledSound
<1>5. ScriptSound'
  BY <1>3, <1>4 DEF ScriptSound, At, Sound, LinksHold, TakenIds
<1> QED
  BY <1>1, <1>5, ScriptStep, ScriptCases

LEMMA ResetSequencesInv == ASSUME CutInv, ResetSequences PROVE CutInv'
<1> DEFINE db == script.db
           reset == ResetCounter(db)
<1>1. /\ At("sequences") /\ Sound(db) /\ LinksHold(db) /\ UNCHANGED <<source, stored>>
  BY ScriptCases DEF ResetSequences
<1>2. CountersPast(db, reset) /\ reset \in [Tables -> Nat]
  BY <1>1, HighestPast DEF CountersPast, ResetCounter, Sound
<1> HIDE DEF db, reset
<1>3. /\ script'.step = "validate" /\ script'.db = db
      /\ (IF script'.drop THEN script'.counter ELSE counter') = reset
      /\ counter' \in [Tables -> Nat]
  <2>1. CASE script.drop
    <3>1. script' = [step |-> "validate", db |-> db, drop |-> TRUE, counter |-> reset]
      BY <2>1 DEF ResetSequences, db, reset
    <3>2. UNCHANGED counter
      BY <2>1 DEF ResetSequences
    <3> QED
      BY <3>1, <3>2, ScriptCases
  <2>2. CASE ~script.drop
    <3>1. script' = [step |-> "validate", db |-> db, drop |-> FALSE] /\ counter' = reset
      BY <2>2 DEF ResetSequences, db, reset
    <3> QED
      BY <1>2, <3>1
  <2> QED
    BY <2>1, <2>2
<1>4. ScriptSound'
  <2>1. script'.step = "validate" /\ Sound(script'.db) /\ LinksHold(script'.db)
    BY <1>1, <1>3
  <2>2. CountersPast(script'.db, IF script'.drop THEN script'.counter ELSE counter')
    BY <1>2, <1>3
  <2>3. script'.drop => script'.counter \in [Tables -> Nat]
    BY <1>2, <1>3
  <2> QED
    BY <2>1, <2>2, <2>3 DEF ScriptSound, At
<1> QED
  BY <1>1, <1>3, <1>4, ScriptStep

LEMMA CommitInvOf == ASSUME CutInv, CommitMigration \/ CommitCleanup PROVE CutInv'
<1>1. stored' = script.db /\ script' = NoScript /\ UNCHANGED source
  BY DEF CommitMigration, CommitCleanup
<1>2. Sound(script.db) /\ LinksHold(script.db)
  BY ScriptCases DEF CommitMigration, CommitCleanup
<1>3. counter' \in [Tables -> Nat]
  BY ScriptCases DEF CommitMigration, CommitCleanup
<1> QED
  <2>1. Sound(stored') /\ LinksHold(stored')
    BY <1>1, <1>2
  <2>2. SourceSound' /\ ScriptSound'
    BY <1>1 DEF CutInv, SourceSound, TakenIds, ScriptSound
  <2> QED
    BY <1>3, <2>1, <2>2 DEF CutInv

LEMMA StartCleanupInv == ASSUME CutInv, StartCleanup PROVE CutInv'
<1>1. script' = [step |-> "delete", todo |-> CleanupOrder, db |-> stored]
      /\ UNCHANGED <<source, stored, counter>>
  BY DEF StartCleanup
<1>2. CleanupOrder \in Seq(Tables)
  BY DEF CleanupOrder, Tables
<1>3. /\ script'.step = "delete" /\ script'.todo = CleanupOrder /\ script'.db = stored
      /\ script' = [f \in {"step", "todo", "db"} |-> script'[f]]
  <2> DEFINE new == [step |-> "delete", todo |-> CleanupOrder, db |-> stored]
  <2>1. new = [f \in {"step", "todo", "db"} |-> new[f]]
    OBVIOUS
  <2>2. new.step = "delete" /\ new.todo = CleanupOrder /\ new.db = stored
    OBVIOUS
  <2>3. script' = new
    BY <1>1
  <2> HIDE DEF new
  <2> QED
    BY <2>1, <2>2, <2>3
<1>4. ScriptSound'
  <2>1. Sound(script'.db) /\ LinksHold(script'.db)
    BY <1>3 DEF CutInv
  <2> QED
    BY <1>2, <1>3, <2>1 DEF ScriptSound, At, ScriptHas
<1> QED
  BY <1>1, <1>4, ScriptStep, ScriptCases

LEMMA DeleteTableInv == ASSUME CutInv, DeleteTable PROVE CutInv'
<1> DEFINE t == Head(script.todo)
           old == script.db
           db == Emptied(old, {t})
<1>1. /\ At("delete") /\ script.todo # <<>> /\ KeysHold(db)
      /\ script' = [script EXCEPT !.db = db, !.todo = Tail(@)]
      /\ UNCHANGED <<source, stored, counter>>
  BY DEF DeleteTable
<1>2. /\ ScriptHas({"step", "todo", "db"}) /\ script.todo \in Seq(Tables) /\ Sound(old) /\ LinksHold(old)
  BY <1>1, ScriptCases
<1>3. Tail(script.todo) \in Seq(Tables)
  BY <1>1, <1>2
<1>4. /\ script'.step = "delete" /\ script'.todo = Tail(script.todo) /\ script'.db = db
      /\ script' = [f \in {"step", "todo", "db"} |-> script'[f]]
  BY <1>1, <1>2 DEF ScriptHas, At
<1> HIDE DEF t, old
<1>5. /\ db = [u \in Tables |-> db[u]]
      /\ \A u \in Tables : db[u] = IF u = t THEN <<>> ELSE old[u]
  BY DEF Emptied
<1>6. \A u \in Tables : TakenIds(db, u) = IF u = t THEN {} ELSE TakenIds(old, u)
  <2>1. DOMAIN <<>> = {}
    OBVIOUS
  <2> QED
    BY <1>5, <2>1 DEF TakenIds
<1> HIDE DEF db
<1>7. Sound(db)
  BY <1>1, <1>2, <1>5, <1>6, TableNames, KeysSound DEF Sound
<1>8. LinksHold(db)
  <2> SUFFICES ASSUME NEW l \in TakenIds(db, "route_phone_numbers")
               PROVE  /\ l \in TakenIds(old, "route_phone_numbers")
                      /\ db["route_phone_numbers"] = old["route_phone_numbers"]
                      /\ db["phone_numbers"] = old["phone_numbers"]
    BY <1>2 DEF LinksHold
  <2>1. db["route_phone_numbers"][l].ref \in TakenIds(db, "phone_numbers")
    BY <1>7 DEF Sound
  <2> QED
    BY <1>5, <1>6, <2>1, TableNames
<1>9. ScriptSound'
  BY <1>3, <1>4, <1>7, <1>8 DEF ScriptSound, At, ScriptHas, Sound, LinksHold, TakenIds
<1> QED
  BY <1>1, <1>9, ScriptStep, ScriptCases

LEMMA DeleteLogEntriesInv == ASSUME CutInv, DeleteLogEntries PROVE CutInv'
<1> DEFINE old == script.db
           kept == {i \in TakenIds(old, "change_log") : ~old["change_log"][i].operational}
           db == [old EXCEPT !["change_log"] = [i \in kept |-> @[i]]]
<1>1. /\ At("delete") /\ script' = [step |-> "identities", db |-> db]
      /\ UNCHANGED <<source, stored, counter>>
  BY DEF DeleteLogEntries
<1>2. Sound(old) /\ LinksHold(old)
  BY <1>1, ScriptCases
<1>3. kept \subseteq TakenIds(old, "change_log")
  OBVIOUS
<1> HIDE DEF old, kept
<1>4. /\ db = [u \in Tables |-> db[u]] /\ DOMAIN db["change_log"] = kept
      /\ \A u \in Tables : u # "change_log" => db[u] = old[u]
  BY <1>2, TableNames DEF Sound
<1> HIDE DEF db
<1>5. \A u \in Tables : TakenIds(db, u) = IF u = "change_log" THEN kept ELSE TakenIds(old, u)
  BY <1>4 DEF TakenIds
<1>6. Sound(db) /\ LinksHold(db)
  BY <1>2, <1>3, <1>4, <1>5, TableNames DEF Sound, LinksHold
<1>7. /\ script'.step = "identities" /\ script'.db = db
      /\ script' = [f \in {"step", "db"} |-> script'[f]]
  BY <1>1
<1>8. ScriptSound'
  BY <1>6, <1>7 DEF ScriptSound, At, ScriptHas, Sound, LinksHold, TakenIds
<1> QED
  BY <1>1, <1>8, ScriptStep, ScriptCases

LEMMA ResetIdentitiesInv == ASSUME CutInv, ResetIdentities PROVE CutInv'
<1> DEFINE db == script.db
<1>1. /\ At("identities") /\ script' = [script EXCEPT !.step = "verify"]
      /\ counter' = [t \in Tables |-> IF t = "change_log" THEN Highest(db, t) ELSE 0]
      /\ UNCHANGED <<source, stored>>
  BY DEF ResetIdentities
<1>2. ScriptHas({"step", "db"}) /\ Sound(db) /\ LinksHold(db)
  BY <1>1, ScriptCases
<1>3. script'.step = "verify" /\ script'.db = db
  BY <1>1, <1>2 DEF ScriptHas
<1>4. /\ Highest(db, "change_log") \in Nat
      /\ TakenIds(db, "change_log") \subseteq 1 .. Highest(db, "change_log")
  BY <1>2, HighestPast, TableNames DEF Sound
<1>5. /\ counter' \in [Tables -> Nat]
      /\ TakenIds(db, "change_log") \subseteq 1 .. counter'["change_log"]
  BY <1>1, <1>4, TableNames
<1> HIDE DEF db
<1>6. ScriptSound'
  BY <1>2, <1>3, <1>5 DEF ScriptSound, At, Sound, LinksHold, TakenIds
<1> QED
  BY <1>1, <1>5, <1>6, ScriptStep

\* The new row is no row that a link refers to.
LEMMA AddRowInv == ASSUME CutInv, NEW t \in Tables, AddRow(t) PROVE CutInv'
<1> DEFINE id == counter[t] + 1
<1>1. PICK row \in NewRows(t) :
        stored' = IF id \in TakenIds(stored, t) THEN stored
                  ELSE [stored EXCEPT ![t] =
                          [i \in TakenIds(stored, t) \cup {id} |-> IF i = id THEN row ELSE @[i]]]
  BY DEF AddRow
<1>2. /\ At("none") /\ id <= LastRowId /\ counter' = [counter EXCEPT ![t] = id]
      /\ UNCHANGED <<source, script>>
  BY DEF AddRow
<1>3. counter' \in [Tables -> Nat] /\ id \in 1 .. LastRowId
  BY <1>2, ScriptCases, CutoverAssumption
<1>4. ScriptSound' /\ SourceSound'
  BY <1>2, ScriptCases DEF ScriptSound, SourceSound, TakenIds, CutInv
<1>5. Sound(stored) /\ LinksHold(stored)
  BY DEF CutInv
<1>6. CASE id \in TakenIds(stored, t)
  BY <1>1, <1>3, <1>4, <1>5, <1>6 DEF CutInv, Sound, LinksHold, TakenIds
<1>7. CASE id \notin TakenIds(stored, t)
  <2> DEFINE new == [i \in TakenIds(stored, t) \cup {id} |-> IF i = id THEN row ELSE stored[t][i]]
             db == [stored EXCEPT ![t] = new]
  <2>1. stored' = db
    BY <1>1, <1>7
  <2> HIDE DEF id
  <2>2. /\ DOMAIN new = TakenIds(stored, t) \cup {id} /\ new[id] = row
        /\ \A i \in TakenIds(stored, t) : new[i] = stored[t][i]
    BY <1>7
  <2> HIDE DEF new
  <2>3. /\ db = [u \in Tables |-> db[u]] /\ db[t] = new
        /\ \A u \in Tables : u # t => db[u] = stored[u]
    BY <1>5 DEF Sound
  <2> HIDE DEF db
  <2>4. /\ TakenIds(db, t) = TakenIds(stored, t) \cup {id}
        /\ \A u \in Tables : u # t => TakenIds(db, u) = TakenIds(stored, u)
    BY <2>2, <2>3 DEF TakenIds
  <2>5. t # "route_phone_numbers" /\ (t = "phone_numbers" => row \in NumberRows)
    <3>1. NewRows("route_phone_numbers") = {}
      BY DEF NewRows
    <3>2. NewRows("phone_numbers") = {[active |-> TRUE, status |-> "unused"]}
      BY DEF NewRows
    <3>3. [active |-> TRUE, status |-> "unused"] \in NumberRows
      BY DEF NumberRows
    <3>4. t = "phone_numbers" => row = [active |-> TRUE, status |-> "unused"]
      BY <3>2
    <3> QED
      BY <3>1, <3>3, <3>4
  <2>6. \A n \in TakenIds(stored, "phone_numbers") :
          db["phone_numbers"][n] = stored["phone_numbers"][n]
    BY <2>2, <2>3, TableNames
  <2>7. \A n \in TakenIds(db, "phone_numbers") : db["phone_numbers"][n] \in NumberRows
    <3>1. CASE t = "phone_numbers"
      BY <1>5, <2>2, <2>3, <2>4, <2>5, <2>6, <3>1 DEF Sound
    <3>2. CASE t # "phone_numbers"
      BY <1>5, <2>4, <2>6, <3>2, TableNames DEF Sound
    <3> QED
      BY <3>1, <3>2
  <2>8. db["route_phone_numbers"] = stored["route_phone_numbers"]
        /\ TakenIds(db, "route_phone_numbers") = TakenIds(stored, "route_phone_numbers")
        /\ TakenIds(stored, "phone_numbers") \subseteq TakenIds(db, "phone_numbers")
    BY <2>3, <2>4, <2>5, TableNames
  <2>9. \A u \in Tables : TakenIds(db, u) \subseteq 1 .. LastRowId
    BY <1>3, <1>5, <2>4 DEF Sound
  <2>10. Sound(db)
    BY <1>5, <2>3, <2>7, <2>8, <2>9 DEF Sound
  <2>11. LinksHold(db)
    BY <1>5, <2>6, <2>8 DEF LinksHold, Sound
  <2> QED
    BY <1>3, <1>4, <2>1, <2>10, <2>11 DEF CutInv, Sound, LinksHold, TakenIds
<1> QED
  BY <1>6, <1>7

LEMMA RedeployInv == ASSUME CutInv, Redeploy PROVE CutInv'
<1>1. stored' = Repaired(stored) /\ UNCHANGED <<source, counter, script>> /\ At("none")
  BY DEF Redeploy
<1>2. Sound(stored') /\ LinksHold(stored')
  BY <1>1, RepairedSound DEF CutInv
<1>3. script = NoScript /\ counter \in [Tables -> Nat] /\ SourceSound
  BY <1>1, ScriptCases DEF CutInv
<1> QED
  BY <1>1, <1>2, <1>3 DEF CutInv, SourceSound, Sound, LinksHold, TakenIds, ScriptSound

LEMMA CutInvInit == ASSUME CutoverInit PROVE CutInv
<1>1. PICK numbers \in OldTables("phone_numbers") :
        \E links \in OldTables("route_phone_numbers"),
          priorities \in OldTables("server_route_priorities"),
          changes \in OldTables("change_log"), logs \in OldTables("provider_change_logs") :
          source = [t \in Tables |-> CASE t = "phone_numbers" -> numbers
                                       [] t = "route_phone_numbers" -> links
                                       [] t = "server_route_priorities" -> priorities
                                       [] t = "change_log" -> changes
                                       [] t = "provider_change_logs" -> logs]
  BY DEF CutoverInit
<1>2. PICK links \in OldTables("route_phone_numbers"),
          priorities \in OldTables("server_route_priorities"),
          changes \in OldTables("change_log"), logs \in OldTables("provider_change_logs") :
          source = [t \in Tables |-> CASE t = "phone_numbers" -> numbers
                                       [] t = "route_phone_numbers" -> links
                                       [] t = "server_route_priorities" -> priorities
                                       [] t = "change_log" -> changes
                                       [] t = "provider_change_logs" -> logs]
  BY <1>1
<1>3. /\ source["phone_numbers"] = numbers /\ source["route_phone_numbers"] = links
      /\ source["server_route_priorities"] = priorities /\ source["change_log"] = changes
      /\ source["provider_change_logs"] = logs
      /\ source = [t \in Tables |-> source[t]]
  BY <1>2, TableNames
<1>4. \A t, table : table \in OldTables(t) =>
          DOMAIN table \subseteq LegacyIds /\ \A i \in DOMAIN table : table[i] \in OldRows(t)
  BY DEF OldTables
<1>5. \A t \in Tables : source[t] \in OldTables(t)
  BY <1>3, TableNames
<1>6. OldRows("route_phone_numbers") = LinkRows
  BY DEF OldRows, LinkRows
<1>7. SourceSound
  BY <1>3, <1>4, <1>5, <1>6, TableNames DEF SourceSound, TakenIds
<1>8. /\ stored = [t \in Tables |-> stored[t]] /\ \A t \in Tables : TakenIds(stored, t) = {}
      /\ counter \in [Tables -> Nat] /\ script = NoScript
  BY DEF CutoverInit, TakenIds
<1>9. Sound(stored) /\ LinksHold(stored)
  BY <1>8, TableNames DEF Sound, LinksHold
<1> QED
  BY <1>7, <1>8, <1>9 DEF CutInv, ScriptSound

LEMMA CutInvNext == ASSUME CutInv, [CutoverNext]_cutVars PROVE CutInv'
<1>1. CASE UNCHANGED cutVars
  BY <1>1, Zenon DEF CutInv, SourceSound, Sound, LinksHold, TakenIds, ScriptSound, At, ScriptHas,
      CountersPast, cutVars
<1>2. CASE FailScript
  <2>1. script' = NoScript /\ UNCHANGED <<source, stored, counter>>
    BY <1>2 DEF FailScript
  <2>2. ScriptSound'
    BY <2>1 DEF ScriptSound
  <2> QED
    BY <2>1, <2>2, ScriptStep, ScriptCases
<1>3. CASE StartMigration
  BY <1>3, StartMigrationInv
<1>4. CASE ImportTable
  BY <1>4, ImportTableInv
<1>5. CASE Reconcile
  BY <1>5, ReconcileInv
<1>6. CASE ResetSequences
  BY <1>6, ResetSequencesInv
<1>7. CASE CommitMigration \/ CommitCleanup
  BY <1>7, CommitInvOf
<1>8. CASE StartCleanup
  BY <1>8, StartCleanupInv
<1>9. CASE DeleteTable
  BY <1>9, DeleteTableInv
<1>10. CASE DeleteLogEntries
  BY <1>10, DeleteLogEntriesInv
<1>11. CASE ResetIdentities
  BY <1>11, ResetIdentitiesInv
<1>12. CASE Redeploy
  BY <1>12, RedeployInv
<1>13. CASE \E t \in Tables : AddRow(t)
  BY <1>13, AddRowInv
<1> QED
  BY <1>1, <1>2, <1>3, <1>4, <1>5, <1>6, <1>7, <1>8, <1>9, <1>10, <1>11, <1>12, <1>13,
     Zenon DEF CutoverNext

\* Numbers, links, sequences and the transaction of the script that runs fit
\* together, whatever the old database held and however often the scripts fail.
THEOREM CutoverInvariant == CutoverSpec => []CutInv
BY CutInvInit, CutInvNext, PTL DEF CutoverSpec

\* A link that is open after the import, the cleanup or a deployment refers to a
\* number that is active and in use, whatever the old database said.
THEOREM ImportedNumbersInUse == CutoverSpec => []ImportedLinksHold
<1>1. CutInv => ImportedLinksHold
  BY DEF CutInv, LinksHold, ImportedLinksHold, TakenIds
<1> QED
  BY <1>1, CutoverInvariant, PTL

LEMMA CommitPast ==
  ASSUME CutInv, CommitMigration \/ CommitCleanup
  PROVE  \A t \in Tables : TakenIds(stored, t)' \subseteq 1 .. counter'[t]
<1>1. CASE CommitMigration
  <2>1. /\ CountersPast(script.db, IF script.drop THEN script.counter ELSE counter)
        /\ stored' = script.db /\ counter' = IF script.drop THEN script.counter ELSE counter
    BY <1>1, ScriptCases DEF CommitMigration
  <2> QED
    BY <2>1 DEF CountersPast, TakenIds
<1>2. CASE CommitCleanup
  <2>1. /\ TakenIds(script.db, "change_log") \subseteq 1 .. counter["change_log"]
        /\ \A t \in Tables : t # "change_log" => TakenIds(script.db, t) = {}
        /\ stored' = script.db /\ UNCHANGED counter
    BY <1>2, ScriptCases DEF CommitCleanup
  <2> SUFFICES ASSUME NEW t \in Tables PROVE TakenIds(script.db, t) \subseteq 1 .. counter[t]
    BY <2>1 DEF TakenIds
  <2> QED
    BY <2>1
<1> QED
  BY <1>1, <1>2

\* A script that commits leaves every sequence past the ids of its table.
THEOREM SequencesPastIds == CutoverSpec => CommitsLeaveIdsFree
<1>1. ASSUME CutInv, [CutoverNext]_cutVars, ~At("none"), stored' # stored
      PROVE  CommitMigration \/ CommitCleanup
  BY <1>1 DEF CutoverNext, cutVars, StartMigration, ImportTable, Reconcile, ResetSequences,
     StartCleanup, DeleteTable, DeleteLogEntries, ResetIdentities, FailScript, AddRow, Redeploy
<1>2. CutInv /\ [CutoverNext]_cutVars =>
        [~At("none") /\ stored' # stored =>
           \A t \in Tables : TakenIds(stored, t)' \subseteq 1 .. counter'[t]]_cutVars
  BY <1>1, CommitPast
<1> QED
  BY <1>2, CutoverInvariant, PTL DEF CutoverSpec, CommitsLeaveIdsFree

--------------------------------------------------------------------------------
(***************************************************************************)
(* The paid checks of a day are counted once at most, for any numbers of   *)
(* requests, limits and days.                                              *)
(***************************************************************************)

Jobs == [step: JobSteps, asked: Nat, sent: Nat, rows: Nat, date: Days, seen: Nat]

\* Nothing is answered before it is sent, nor sent before the limit is checked.
JobOK(j) ==
    /\ j \in Jobs
    /\ j.rows <= j.sent /\ j.sent <= j.asked /\ j.asked <= MaxAsked
    /\ j.step \in {"idle", "usage", "limit"} => j.sent = 0

JobsTyped ==
    /\ job \in [HlrWorkers -> Jobs]
    /\ \A w \in HlrWorkers : JobOK(job[w])

\* due[d] is what the counter of day d would be if no recording had been written
\* over: counters stay behind it, those included that were read and will be
\* written back.
Behind(due) ==
    /\ \A d \in Days : usage[d] <= due[d] /\ (~overwritten => usage[d] = due[d])
    /\ \A w \in HlrWorkers : JobAt(w, "write") => job[w].seen <= due[job[w].date]
    /\ Amount(due, Days) + Uncounted <= answered
    /\ ~lost => Amount(due, Days) + Uncounted = answered

HlrInv == HlrTypeOK /\ JobsTyped /\ \E due \in [Days -> Nat] : Behind(due)

--------------------------------------------------------------------------------
LEMMA PiecesFinite ==
  ASSUME NEW S, IsFiniteSet(S), NEW f \in [S -> Nat]
  PROVE  IsFiniteSet(Pieces(f, S)) /\ Amount(f, S) \in Nat
<1> DEFINE T == {{x} \X (1 .. f[x]) : x \in S}
           g == [x \in S |-> {x} \X (1 .. f[x])]
<1>1. g \in Surjection(S, T)
  BY DEF Surjection
<1>2. IsFiniteSet(T)
  BY <1>1, FS_Surjection
<1>3. ASSUME NEW x \in S PROVE IsFiniteSet({x} \X (1 .. f[x]))
  <2>1. IsFiniteSet({x})
    BY FS_Singleton
  <2>2. f[x] \in Int /\ 1 \in Int
    OBVIOUS
  <2>3. IsFiniteSet(1 .. f[x])
    BY <2>2, FS_Interval
  <2> QED
    BY <2>1, <2>3, FS_Product
<1>4. IsFiniteSet(UNION T)
  BY <1>2, <1>3, FS_UNION
<1> QED
  BY <1>4, FS_CardinalityType DEF Pieces, Amount

\* The pieces of x, and those of the others.
LEMMA AmountSplit ==
  ASSUME NEW S, IsFiniteSet(S), NEW f \in [S -> Nat], NEW x \in S
  PROVE  /\ Amount(f, S \ {x}) \in Nat
         /\ Amount(f, S) = Amount(f, S \ {x}) + f[x]
<1> DEFINE A == Pieces(f, S \ {x})
           B == {x} \X (1 .. f[x])
<1>1. Pieces(f, S) = A \cup B
  BY DEF Pieces
<1>2. A \cap B = {}
  BY DEF Pieces
<1>3. IsFiniteSet(Pieces(f, S))
  BY PiecesFinite
<1>4. IsFiniteSet(A) /\ IsFiniteSet(B)
  BY <1>1, <1>3, FS_Subset
<1>5. Cardinality(B) = f[x]
  <2>1. IsFiniteSet({x}) /\ Cardinality({x}) = 1
    BY FS_Singleton
  <2>2. f[x] \in Nat /\ f[x] \in Int /\ 1 \in Int
    OBVIOUS
  <2>3. IsFiniteSet(1 .. f[x]) /\ Cardinality(1 .. f[x]) = IF 1 > f[x] THEN 0 ELSE f[x] - 1 + 1
    BY <2>2, FS_Interval
  <2>4. Cardinality(1 .. f[x]) = f[x]
    BY <2>2, <2>3
  <2>5. Cardinality(B) = Cardinality({x}) * Cardinality(1 .. f[x])
    BY <2>1, <2>3, FS_Product
  <2> QED
    BY <2>1, <2>2, <2>4, <2>5
<1>6. Cardinality(A \cup B) = Cardinality(A) + Cardinality(B) - Cardinality(A \cap B)
  BY <1>4, FS_Union
<1>7. Cardinality({}) = 0
  BY FS_EmptySet
<1>8. Cardinality(A) \in Nat
  BY <1>4, FS_CardinalityType
<1>9. f[x] \in Nat
  OBVIOUS
<1>10. Amount(f, S) = Cardinality(A) + Cardinality(B) - 0
  BY <1>1, <1>2, <1>6, <1>7 DEF Amount
<1> QED
  BY <1>5, <1>8, <1>9, <1>10 DEF Amount

LEMMA AmountChanged ==
  ASSUME NEW S, IsFiniteSet(S), NEW f \in [S -> Nat], NEW g \in [S -> Nat], NEW x \in S,
         \A y \in S \ {x} : g[y] = f[y]
  PROVE  Amount(g, S) + f[x] = Amount(f, S) + g[x]
<1>1. {{y} \X (1 .. g[y]) : y \in S \ {x}} = {{y} \X (1 .. f[y]) : y \in S \ {x}}
  OBVIOUS
<1>2. Amount(g, S \ {x}) = Amount(f, S \ {x})
  BY <1>1 DEF Amount, Pieces
<1> QED
  BY <1>2, AmountSplit

LEMMA AmountSmaller ==
  ASSUME NEW S, IsFiniteSet(S), NEW f \in [S -> Nat], NEW g \in [S -> Nat], \A x \in S : f[x] <= g[x]
  PROVE  Amount(f, S) <= Amount(g, S)
<1>1. Pieces(f, S) \subseteq Pieces(g, S)
  BY DEF Pieces
<1>2. IsFiniteSet(Pieces(g, S))
  BY PiecesFinite
<1> QED
  BY <1>1, <1>2, FS_Subset DEF Amount

LEMMA AmountZero ==
  ASSUME NEW S, NEW f \in [S -> Nat], \A x \in S : f[x] = 0
  PROVE  Amount(f, S) = 0
<1>1. Pieces(f, S) = {}
  BY DEF Pieces
<1> QED
  BY <1>1, FS_EmptySet DEF Amount

--------------------------------------------------------------------------------
LEMMA NoJobOK == JobOK(NoJob) /\ NoJob.rows = 0 /\ NoJob.step = "idle"
BY HlrAssumption DEF JobOK, NoJob, Jobs, JobSteps, Days

LEMMA JobOf ==
  ASSUME HlrInv, NEW w \in HlrWorkers
  PROVE  JobOK(job[w])
BY DEF HlrInv, JobsTyped, JobOK, Jobs

LEMMA DaysFinite == IsFiniteSet(Days)
<1>1. 0 \in Int /\ LastDay \in Int
  BY HlrAssumption
<1> QED
  BY <1>1, FS_Interval DEF Days

\* The numbers of the checks in progress when request w goes on with check j.
LEMMA UncountedStep ==
  ASSUME HlrInv, NEW w \in HlrWorkers, NEW j, JobOK(j), job' = [job EXCEPT ![w] = j]
  PROVE  /\ Uncounted \in Nat /\ Uncounted' \in Nat
         /\ Uncounted' + job[w].rows = Uncounted + j.rows
<1> DEFINE f == [v \in HlrWorkers |-> job[v].rows]
           g == [v \in HlrWorkers |-> job'[v].rows]
<1>1. \A v \in HlrWorkers : JobOK(job[v])
  BY JobOf
<1>2. job'[w] = j /\ \A v \in HlrWorkers \ {w} : job'[v] = job[v]
  BY DEF HlrInv, JobsTyped
<1>3. f \in [HlrWorkers -> Nat] /\ g \in [HlrWorkers -> Nat]
  <2>1. \A v \in HlrWorkers : job'[v].rows \in Nat /\ job[v].rows \in Nat
    BY <1>1, <1>2 DEF JobOK, Jobs
  <2> QED
    BY <2>1
<1>4. f[w] = job[w].rows /\ g[w] = j.rows /\ \A v \in HlrWorkers \ {w} : g[v] = f[v]
  BY <1>2
<1>5. Uncounted = Amount(f, HlrWorkers) /\ Uncounted' = Amount(g, HlrWorkers)
  BY DEF Uncounted, Amount, Pieces
<1>6. IsFiniteSet(HlrWorkers)
  BY HlrAssumption
<1> HIDE DEF f, g
<1> QED
  BY <1>3, <1>4, <1>5, <1>6, AmountChanged, PiecesFinite

\* The tables stay, and the counters keep behind; request w goes on with check j,
\* whose answers are no fewer, and counted.
LEMMA JobStep ==
  ASSUME HlrInv, NEW w \in HlrWorkers, NEW j, JobOK(j), job' = [job EXCEPT ![w] = j],
         override' = override, today' = today, usage' = usage, overwritten' = overwritten,
         answered' \in Nat, lost' \in BOOLEAN, lost => lost',
         answered' + job[w].rows >= answered + j.rows,
         ~lost' => answered' + job[w].rows = answered + j.rows,
         j.step = "write" => j.seen = usage[j.date]
  PROVE  HlrInv'
<1>1. HlrTypeOK /\ JobsTyped
  BY DEF HlrInv
<1>2. \A v \in HlrWorkers : JobOK(job[v])
  BY JobOf
<1>3. job'[w] = j /\ \A v \in HlrWorkers \ {w} : job'[v] = job[v]
  BY <1>1 DEF JobsTyped
<1>4. \A v \in HlrWorkers : JobOK(job'[v])
  BY <1>2, <1>3
<1>5. job' \in [HlrWorkers -> Jobs]
  BY <1>1, <1>4 DEF JobsTyped, JobOK, Jobs
<1>6. JobsTyped'
  BY <1>4, <1>5 DEF JobsTyped, JobOK, Jobs
<1>7. HlrTypeOK'
  <2>1. ASSUME NEW x, JobOK(x)
        PROVE  x \in [step: JobSteps, asked: 0 .. MaxAsked, sent: 0 .. MaxAsked,
                      rows: 0 .. MaxAsked, date: Days, seen: Nat]
    BY <2>1, HlrAssumption DEF JobOK, Jobs
  <2> DEFINE Small == [step: JobSteps, asked: 0 .. MaxAsked, sent: 0 .. MaxAsked,
                       rows: 0 .. MaxAsked, date: Days, seen: Nat]
  <2>2. job' \in [HlrWorkers -> Small]
    BY <1>4, <1>5, <2>1
  <2> QED
    BY <1>1, <2>2 DEF HlrTypeOK
<1>8. PICK due \in [Days -> Nat] : Behind(due)
  BY DEF HlrInv
<1>9. /\ Uncounted \in Nat /\ Uncounted' \in Nat
      /\ Uncounted' + job[w].rows = Uncounted + j.rows
  BY UncountedStep
<1>10. Amount(due, Days) \in Nat
  BY DaysFinite, PiecesFinite
<1>11. answered \in Nat /\ job[w].rows \in Nat /\ j.rows \in Nat
  BY <1>1, <1>2 DEF HlrTypeOK, JobOK, Jobs
<1>12. ASSUME NEW v \in HlrWorkers, job'[v].step = "write"
       PROVE  job'[v].seen <= due[job'[v].date]
  <2>1. CASE v = w
    BY <1>3, <1>8, <1>12, <2>1 DEF Behind, JobOK, Jobs
  <2>2. CASE v # w
    BY <1>3, <1>8, <1>12, <2>2 DEF Behind, JobAt
  <2> QED
    BY <2>1, <2>2
<1>13. \A d \in Days : usage'[d] <= due[d] /\ (~overwritten' => usage'[d] = due[d])
  BY <1>8 DEF Behind
<1>14. /\ Amount(due, Days) + Uncounted' <= answered'
       /\ ~lost' => Amount(due, Days) + Uncounted' = answered'
  BY <1>8, <1>9, <1>10, <1>11 DEF Behind
<1>15. Behind(due)'
  BY <1>12, <1>13, <1>14 DEF Behind, JobAt, Amount, Pieces
<1> QED
  BY <1>6, <1>7, <1>15 DEF HlrInv

\* No number is answered and none is lost.
LEMMA QuietStep ==
  ASSUME HlrInv, NEW w \in HlrWorkers, NEW j, JobOK(j), job' = [job EXCEPT ![w] = j],
         UNCHANGED <<override, today, usage, answered, lost, overwritten>>,
         j.rows = job[w].rows, j.step = "write" => j.seen = usage[j.date]
  PROVE  HlrInv'
<1>1. answered \in Nat /\ lost \in BOOLEAN
  BY DEF HlrInv, HlrTypeOK
<1>2. j.rows \in Nat
  BY DEF JobOK, Jobs
<1>3. /\ override' = override /\ today' = today /\ usage' = usage /\ overwritten' = overwritten
      /\ answered' = answered /\ lost' = lost
  OBVIOUS
<1>4. lost' \in BOOLEAN /\ (lost => lost')
  <2>1. lost' \in BOOLEAN
    BY <1>1, <1>3
  <2> QED
    BY <1>3, <2>1
<1>5. /\ answered' \in Nat /\ answered' + job[w].rows >= answered + j.rows
      /\ answered' + job[w].rows = answered + j.rows
  BY <1>1, <1>2, <1>3
<1> QED
  BY <1>3, <1>4, <1>5, JobStep

LEMMA StartCheckInv == ASSUME HlrInv, NEW w \in HlrWorkers, StartCheck(w) PROVE HlrInv'
<1>1. PICK n \in 0 .. MaxAsked :
        job' = [job EXCEPT ![w] = [NoJob EXCEPT !.step = "usage", !.asked = n]]
  BY DEF StartCheck
<1> DEFINE j == [NoJob EXCEPT !.step = "usage", !.asked = n]
<1>2. JobOK(j) /\ j.rows = 0 /\ j.step = "usage"
  <2>1. n \in Nat /\ n <= MaxAsked /\ "usage" \in JobSteps
    BY HlrAssumption DEF JobSteps
  <2>2. NoJob \in Jobs /\ NoJob.sent = 0 /\ NoJob.rows = 0
    BY NoJobOK DEF JobOK, NoJob
  <2>3. j \in Jobs /\ j.step = "usage" /\ j.asked = n /\ j.sent = 0 /\ j.rows = 0
    BY <2>1, <2>2 DEF Jobs
  <2> HIDE DEF j
  <2> QED
    BY <2>1, <2>3 DEF JobOK
<1>3. JobOK(job[w]) /\ job[w].step = "idle"
  BY JobOf DEF StartCheck, JobAt
<1>4. job[w].rows = 0
  BY <1>3 DEF JobOK, Jobs
<1>5. UNCHANGED <<override, today, usage, answered, lost, overwritten>> /\ HlrTypeOK
  BY DEF StartCheck, HlrInv
<1>6. job' = [job EXCEPT ![w] = j]
  BY <1>1
<1> HIDE DEF j
<1>7. j.rows = job[w].rows /\ (j.step = "write" => j.seen = usage[j.date])
  BY <1>2, <1>4
<1> QED
  BY <1>2, <1>5, <1>6, <1>7, QuietStep

LEMMA ReadUsageInv == ASSUME HlrInv, NEW w \in HlrWorkers, ReadUsage(w) PROVE HlrInv'
<1> DEFINE j == [job[w] EXCEPT !.step = "limit", !.seen = usage[today]]
<1>1. job' = [job EXCEPT ![w] = j]
  BY DEF ReadUsage
<1>2. HlrTypeOK /\ UNCHANGED <<override, today, usage, answered, lost, overwritten>>
  BY DEF ReadUsage, HlrInv
<1>3. JobOK(job[w]) /\ job[w].step = "usage" /\ usage[today] \in Nat
  BY <1>2, JobOf DEF ReadUsage, JobAt, HlrTypeOK
<1>4. JobOK(j) /\ j.rows = job[w].rows /\ j.step = "limit"
  BY <1>3 DEF JobOK, Jobs, JobSteps
<1>5. job[w].rows \in Nat
  BY <1>3 DEF JobOK, Jobs
<1> HIDE DEF j
<1> QED
  BY <1>1, <1>2, <1>4, QuietStep

\* A check that ends without an answer.
LEMMA EndCheck ==
  ASSUME HlrInv, NEW w \in HlrWorkers, job' = [job EXCEPT ![w] = NoJob], job[w].rows = 0,
         UNCHANGED <<override, today, usage, answered, lost, overwritten>>
  PROVE  HlrInv'
BY NoJobOK, QuietStep

LEMMA CheckLimitInv == ASSUME HlrInv, NEW w \in HlrWorkers, CheckLimit(w) PROVE HlrInv'
<1> DEFINE j == [job[w] EXCEPT !.step = "send"]
<1>1. HlrTypeOK /\ UNCHANGED <<override, today, usage, answered, lost, overwritten>>
  BY DEF CheckLimit, HlrInv
<1>2. JobOK(job[w]) /\ job[w].step = "limit"
  BY JobOf DEF CheckLimit, JobAt
<1>3. job[w].rows = 0
  BY <1>2 DEF JobOK, Jobs
<1>4. CASE job' = [job EXCEPT ![w] = NoJob]
  BY <1>1, <1>3, <1>4, EndCheck
<1>5. CASE job' = [job EXCEPT ![w].step = "send"]
  <2>1. job' = [job EXCEPT ![w] = j]
    BY <1>5
  <2>2. JobOK(j) /\ j.rows = 0 /\ j.step = "send"
    BY <1>2, <1>3 DEF JobOK, Jobs, JobSteps
  <2> HIDE DEF j
  <2> QED
    BY <1>1, <1>3, <2>1, <2>2, QuietStep
<1> QED
  BY <1>4, <1>5 DEF CheckLimit

LEMMA BatchIs ==
  ASSUME NEW w \in HlrWorkers, JobOK(job[w]), job[w].sent < job[w].asked
  PROVE  Batch(w) \in Nat /\ Batch(w) <= job[w].asked - job[w].sent
<1> DEFINE left == job[w].asked - job[w].sent
<1>1. left \in Nat /\ BatchSize \in Nat
  BY HlrAssumption DEF JobOK, Jobs
<1> HIDE DEF left
<1>2. \E x \in {BatchSize, left} : \A y \in {BatchSize, left} : x <= y
  BY <1>1
<1>3. /\ Min({BatchSize, left}) \in {BatchSize, left}
      /\ \A y \in {BatchSize, left} : Min({BatchSize, left}) <= y
  BY <1>2 DEF Min
<1> QED
  BY <1>1, <1>3 DEF Batch, left

LEMMA SendBatchInv == ASSUME HlrInv, NEW w \in HlrWorkers, SendBatch(w) PROVE HlrInv'
<1>1. HlrTypeOK /\ UNCHANGED <<override, today, usage, lost, overwritten>>
  BY DEF SendBatch, HlrInv
<1>2. JobOK(job[w]) /\ job[w].step = "send" /\ job[w].sent < job[w].asked
  BY JobOf DEF SendBatch, JobAt
<1>3. PICK n \in 0 .. Batch(w) :
        /\ job' = [job EXCEPT ![w].sent = @ + Batch(w), ![w].rows = @ + n]
        /\ answered' = answered + n
  BY DEF SendBatch
<1> DEFINE b == Batch(w)
           j == [job[w] EXCEPT !.sent = @ + b, !.rows = @ + n]
<1>4. b \in Nat /\ b <= job[w].asked - job[w].sent /\ n \in Nat /\ n <= b
  BY <1>2, BatchIs
<1>5. job' = [job EXCEPT ![w] = j]
  BY <1>3
<1> HIDE DEF b
<1>6. JobOK(j) /\ j.rows = job[w].rows + n /\ j.step = "send" /\ job[w].rows \in Nat
  <2>1. /\ job[w] \in Jobs /\ job[w].rows <= job[w].sent /\ job[w].sent \in Nat
        /\ job[w].asked \in Nat /\ job[w].asked <= MaxAsked /\ job[w].rows \in Nat
    BY <1>2 DEF JobOK, Jobs
  <2> DEFINE r == job[w].rows + n
             s == job[w].sent + b
  <2>2. r \in Nat /\ s \in Nat
    BY <1>4, <2>1
  <2>3. j = [job[w] EXCEPT !.sent = s, !.rows = r]
    OBVIOUS
  <2> HIDE DEF r, s
  <2>4. /\ j \in Jobs /\ j.rows = r /\ j.sent = s /\ j.asked = job[w].asked /\ j.step = "send"
    BY <1>2, <2>1, <2>2, <2>3 DEF Jobs
  <2>5. /\ j \in Jobs /\ j.rows = job[w].rows + n /\ j.sent = job[w].sent + b
        /\ j.asked = job[w].asked /\ j.step = "send"
    BY <2>4 DEF r, s
  <2> HIDE DEF j
  <2>6. j.rows <= j.sent /\ j.sent <= j.asked /\ j.asked <= MaxAsked
    BY <1>4, <2>1, <2>5
  <2> QED
    BY <2>1, <2>5, <2>6 DEF JobOK
<1> HIDE DEF j
<1>7. /\ answered \in Nat /\ answered' \in Nat /\ lost \in BOOLEAN
      /\ answered' + job[w].rows = answered + j.rows
  BY <1>1, <1>3, <1>4, <1>6 DEF HlrTypeOK
<1>8. answered' + job[w].rows >= answered + j.rows
  BY <1>6, <1>7
<1> QED
  BY <1>1, <1>5, <1>6, <1>7, <1>8, JobStep

LEMMA AnsweredInv == ASSUME HlrInv, NEW w \in HlrWorkers, Answered(w) PROVE HlrInv'
<1> DEFINE j == [job[w] EXCEPT !.step = "select"]
<1>1. HlrTypeOK /\ UNCHANGED <<override, today, usage, answered, lost, overwritten>>
  BY DEF Answered, HlrInv
<1>2. JobOK(job[w]) /\ job[w].rows \in Nat
  BY JobOf DEF JobOK, Jobs
<1>3. job' = [job EXCEPT ![w] = IF job[w].rows > 0 THEN j ELSE NoJob]
  BY DEF Answered
<1>4. CASE job[w].rows = 0
  <2>1. job' = [job EXCEPT ![w] = NoJob]
    BY <1>3, <1>4
  <2> QED
    BY <1>1, <1>4, <2>1, EndCheck
<1>5. CASE job[w].rows > 0
  <2>1. JobOK(j) /\ j.rows = job[w].rows /\ j.step = "select"
    BY <1>2 DEF JobOK, Jobs, JobSteps
  <2>2. job' = [job EXCEPT ![w] = j]
    BY <1>3, <1>5
  <2> HIDE DEF j
  <2> QED
    BY <1>1, <2>1, <2>2, QuietStep
<1> QED
  BY <1>2, <1>4, <1>5

LEMMA SelectUsageInv == ASSUME HlrInv, NEW w \in HlrWorkers, SelectUsage(w) PROVE HlrInv'
<1> DEFINE j == [job[w] EXCEPT !.step = "write", !.date = today, !.seen = usage[today]]
<1>1. HlrTypeOK /\ UNCHANGED <<override, today, usage, answered, lost, overwritten>>
  BY DEF SelectUsage, HlrInv
<1>2. job' = [job EXCEPT ![w] = j]
  BY DEF SelectUsage
<1>3. JobOK(job[w]) /\ job[w].rows \in Nat /\ usage[today] \in Nat /\ today \in Days
  BY <1>1, JobOf DEF JobOK, Jobs, HlrTypeOK
<1>4. JobOK(j) /\ j.rows = job[w].rows /\ j.date = today /\ j.seen = usage[today]
  BY <1>3 DEF JobOK, Jobs, JobSteps
<1> HIDE DEF j
<1> QED
  BY <1>1, <1>2, <1>4, QuietStep

LEMMA BreakOffInv == ASSUME HlrInv, NEW w \in HlrWorkers, BreakOff(w) PROVE HlrInv'
<1>1. /\ HlrTypeOK /\ UNCHANGED <<override, today, usage, answered, overwritten>>
      /\ job' = [job EXCEPT ![w] = NoJob]
      /\ lost' = (lost \/ job[w].rows > 0)
  BY DEF BreakOff, HlrInv
<1>2. job[w].rows \in Nat
  BY JobOf DEF JobOK, Jobs
<1>3. lost' \in BOOLEAN /\ (lost => lost') /\ (~lost' => ~(job[w].rows > 0))
  BY <1>1, Zenon DEF HlrTypeOK
<1>4. answered \in Nat
  BY <1>1 DEF HlrTypeOK
<1>5. /\ override' = override /\ today' = today /\ usage' = usage /\ overwritten' = overwritten
      /\ answered' = answered
  BY <1>1
<1>6. /\ answered' \in Nat /\ answered' + job[w].rows >= answered + NoJob.rows
      /\ ~lost' => answered' + job[w].rows = answered + NoJob.rows
  BY <1>2, <1>3, <1>4, <1>5, NoJobOK
<1>7. JobOK(NoJob) /\ (NoJob.step = "write" => NoJob.seen = usage[NoJob.date])
  BY NoJobOK
<1> QED
  BY <1>1, <1>3, <1>5, <1>6, <1>7, JobStep

LEMMA WriteUsageInv == ASSUME HlrInv, NEW w \in HlrWorkers, WriteUsage(w) PROVE HlrInv'
<1> DEFINE d == job[w].date
           k == job[w].seen + job[w].rows
<1>1. /\ HlrTypeOK /\ JobsTyped /\ job[w].step = "write"
      /\ usage' = [usage EXCEPT ![d] = k]
      /\ overwritten' = (overwritten \/ usage[d] # job[w].seen)
      /\ job' = [job EXCEPT ![w] = NoJob]
      /\ UNCHANGED <<override, today, answered, lost>>
  BY DEF WriteUsage, JobAt, HlrInv
<1>2. /\ JobOK(job[w]) /\ d \in Days /\ job[w].seen \in Nat /\ job[w].rows \in Nat /\ k \in Nat
  BY JobOf DEF JobOK, Jobs
<1>3. PICK due \in [Days -> Nat] : Behind(due)
  BY DEF HlrInv
<1> DEFINE more == due[d] + job[w].rows
<1>4. more \in Nat
  BY <1>2
<1>5. /\ job'[w] = NoJob /\ \A v \in HlrWorkers \ {w} : job'[v] = job[v]
      /\ \A v \in HlrWorkers : JobOK(job'[v])
      /\ job' \in [HlrWorkers -> Jobs]
  <2>1. NoJob \in Jobs
    BY NoJobOK DEF JobOK
  <2> QED
    BY <1>1, <2>1, NoJobOK DEF JobsTyped
<1> HIDE DEF k, d, more
<1>6. PICK new \in [Days -> Nat] : new[d] = more /\ \A e \in Days \ {d} : new[e] = due[e]
  <2>1. [due EXCEPT ![d] = more] \in [Days -> Nat]
    BY <1>4
  <2> QED
    BY <1>2, <2>1
<1>7. /\ usage \in [Days -> Nat] /\ usage' \in [Days -> Nat]
      /\ usage'[d] = k /\ \A e \in Days \ {d} : usage'[e] = usage[e]
  BY <1>1, <1>2 DEF HlrTypeOK
<1>8. job[w].seen <= due[d] /\ due[d] \in Nat
  BY <1>1, <1>2, <1>3 DEF Behind, JobAt, d
<1>9. k <= more /\ (~overwritten' => k = more)
  <2>1. k <= more
    BY <1>2, <1>8 DEF k, more
  <2>2. ASSUME ~overwritten' PROVE k = more
    <3>1. ~overwritten /\ usage[d] = job[w].seen
      BY <1>1, <2>2
    <3>2. usage[d] = due[d]
      BY <1>2, <1>3, <3>1 DEF Behind
    <3> QED
      BY <3>1, <3>2 DEF k, more
  <2> QED
    BY <2>1, <2>2
<1>10. ASSUME NEW e \in Days PROVE usage'[e] <= new[e] /\ (~overwritten' => usage'[e] = new[e])
  <2>1. CASE e = d
    BY <1>6, <1>7, <1>9, <2>1
  <2>2. CASE e # d
    <3>1. ~overwritten' => ~overwritten
      BY <1>1
    <3> QED
      BY <1>3, <1>6, <1>7, <2>2, <3>1 DEF Behind
  <2> QED
    BY <2>1, <2>2
<1>11. ASSUME NEW v \in HlrWorkers, job'[v].step = "write" PROVE job'[v].seen <= new[job'[v].date]
  <2>1. v # w
    BY <1>5, <1>11, NoJobOK
  <2>2. job'[v] = job[v] /\ job[v].seen <= due[job[v].date] /\ job[v].date \in Days /\ job[v].seen \in Nat
    BY <1>3, <1>5, <1>11, <2>1 DEF Behind, JobAt, JobOK, Jobs
  <2>3. due[job[v].date] <= new[job[v].date]
    BY <1>2, <1>6, <1>8, <2>2 DEF more
  <2> QED
    BY <1>3, <1>6, <2>2, <2>3
<1>12. /\ Uncounted \in Nat /\ Uncounted' \in Nat /\ Uncounted' + job[w].rows = Uncounted
  <2>1. /\ Uncounted \in Nat /\ Uncounted' \in Nat
        /\ Uncounted' + job[w].rows = Uncounted + NoJob.rows
    BY <1>1, NoJobOK, UncountedStep
  <2> QED
    BY <2>1, NoJobOK
<1>13. /\ Amount(due, Days) \in Nat /\ Amount(new, Days) \in Nat
       /\ Amount(new, Days) = Amount(due, Days) + job[w].rows
  <2>1. Amount(new, Days) + due[d] = Amount(due, Days) + new[d]
    BY <1>2, <1>6, DaysFinite, AmountChanged
  <2>2. Amount(due, Days) \in Nat /\ Amount(new, Days) \in Nat
    BY <1>6, DaysFinite, PiecesFinite
  <2> QED
    BY <1>2, <1>6, <1>8, <2>1, <2>2 DEF more
<1>14. /\ Amount(new, Days) + Uncounted' <= answered'
       /\ ~lost' => Amount(new, Days) + Uncounted' = answered'
  <2>1. answered' = answered /\ lost' = lost
    BY <1>1
  <2>2. /\ Amount(due, Days) + Uncounted <= answered
        /\ ~lost => Amount(due, Days) + Uncounted = answered
    BY <1>3 DEF Behind
  <2>3. Amount(new, Days) + Uncounted' = Amount(due, Days) + Uncounted
    BY <1>2, <1>12, <1>13
  <2> QED
    BY <2>1, <2>2, <2>3
<1>15. Behind(new)'
  BY <1>10, <1>11, <1>14 DEF Behind, JobAt, Amount, Pieces
<1>16. HlrTypeOK'
  <2> DEFINE Small == [step: JobSteps, asked: 0 .. MaxAsked, sent: 0 .. MaxAsked,
                       rows: 0 .. MaxAsked, date: Days, seen: Nat]
  <2>1. ASSUME NEW x, JobOK(x) PROVE x \in Small
    BY <2>1, HlrAssumption DEF JobOK, Jobs
  <2>2. job' \in [HlrWorkers -> Small]
    BY <1>5, <2>1
  <2>3. overwritten' \in BOOLEAN
    BY <1>1
  <2> QED
    BY <1>1, <1>7, <2>2, <2>3 DEF HlrTypeOK
<1>17. JobsTyped'
  BY <1>5 DEF JobsTyped, JobOK, Jobs
<1> QED
  BY <1>6, <1>15, <1>16, <1>17 DEF HlrInv

LEMMA LimitInv ==
  ASSUME HlrInv, SetLimit \/ ResetLimit \/ Midnight \/ UNCHANGED hlrVars
  PROVE  HlrInv'
<1>1. UNCHANGED <<usage, job, answered, lost, overwritten>>
  BY DEF SetLimit, ResetLimit, Midnight, hlrVars
<1>2. override' \in Overrides \cup {NoOverride}
  BY DEF SetLimit, ResetLimit, Midnight, hlrVars, HlrInv, HlrTypeOK
<1>3. today' \in Days
  BY HlrAssumption DEF SetLimit, ResetLimit, Midnight, hlrVars, HlrInv, HlrTypeOK, Days
<1>4. HlrTypeOK' /\ JobsTyped'
  BY <1>1, <1>2, <1>3 DEF HlrInv, HlrTypeOK, JobsTyped
<1>5. ASSUME NEW due \in [Days -> Nat], Behind(due) PROVE Behind(due)'
  BY <1>1, <1>5 DEF Behind, JobAt, Uncounted, Amount, Pieces
<1> QED
  BY <1>4, <1>5 DEF HlrInv

LEMMA HlrInvInit == ASSUME HlrInit PROVE HlrInv
<1>1. \A w \in HlrWorkers : job[w] = NoJob
  BY DEF HlrInit
<1>2. NoJob \in Jobs /\ JobOK(NoJob) /\ NoJob.rows = 0 /\ NoJob.step = "idle"
  BY NoJobOK DEF JobOK
<1>3. JobsTyped
  BY <1>1, <1>2 DEF HlrInit, JobsTyped
<1>4. HlrTypeOK
  <2> DEFINE Small == [step: JobSteps, asked: 0 .. MaxAsked, sent: 0 .. MaxAsked,
                       rows: 0 .. MaxAsked, date: Days, seen: Nat]
  <2>1. NoJob \in Small
    BY HlrAssumption DEF NoJob, JobSteps, Days
  <2>2. job \in [HlrWorkers -> Small]
    BY <2>1 DEF HlrInit
  <2>3. /\ override \in Overrides \cup {NoOverride} /\ usage \in [Days -> Nat]
        /\ answered \in Nat /\ lost \in BOOLEAN /\ overwritten \in BOOLEAN
    BY DEF HlrInit
  <2>4. today \in Days
    BY HlrAssumption DEF HlrInit, Days
  <2> QED
    BY <2>2, <2>3, <2>4 DEF HlrTypeOK
<1> DEFINE due == [d \in Days |-> 0]
<1>5. due \in [Days -> Nat] /\ \A d \in Days : due[d] = 0
  OBVIOUS
<1>6. Amount(due, Days) = 0
  <2> HIDE DEF due
  <2> QED
    BY <1>5, AmountZero
<1>7. Uncounted = 0
  <2> DEFINE f == [w \in HlrWorkers |-> job[w].rows]
  <2>1. f \in [HlrWorkers -> Nat] /\ \A w \in HlrWorkers : f[w] = 0
    BY <1>1, <1>2
  <2> HIDE DEF f
  <2>2. Amount(f, HlrWorkers) = 0
    BY <2>1, AmountZero
  <2> QED
    BY <2>2 DEF f, Uncounted
<1>8. usage = due /\ answered = 0
  BY DEF HlrInit
<1> HIDE DEF due
<1>9. Behind(due)
  BY <1>1, <1>2, <1>5, <1>6, <1>7, <1>8 DEF Behind, JobAt
<1> QED
  BY <1>3, <1>4, <1>5, <1>9 DEF HlrInv

\* The counters and the checks still to be recorded hold every number that was
\* answered, or fewer if a request was lost or recordings overlapped: for any
\* numbers of requests and days and any limits.
THEOREM ChecksCountedOnce == HlrSpec => []AnswersCounted
<1>1. HlrInv /\ [HlrNext]_hlrVars => HlrInv'
  BY LimitInv, StartCheckInv, ReadUsageInv, CheckLimitInv, SendBatchInv, AnsweredInv,
     SelectUsageInv, WriteUsageInv, BreakOffInv DEF HlrNext
<1>2. HlrInv => AnswersCounted
  <2> SUFFICES ASSUME HlrInv PROVE AnswersCounted
    OBVIOUS
  <2>1. PICK due \in [Days -> Nat] : Behind(due)
    BY DEF HlrInv
  <2>2. usage \in [Days -> Nat] /\ answered \in Nat
    BY DEF HlrInv, HlrTypeOK
  <2>3. Amount(usage, Days) <= Amount(due, Days)
    BY <2>1, <2>2, DaysFinite, AmountSmaller DEF Behind
  <2>4. Amount(usage, Days) \in Nat /\ Amount(due, Days) \in Nat
    BY <2>2, DaysFinite, PiecesFinite
  <2>5. Uncounted \in Nat
    <3> DEFINE f == [w \in HlrWorkers |-> job[w].rows]
    <3>1. f \in [HlrWorkers -> Nat] /\ IsFiniteSet(HlrWorkers)
      BY JobOf, HlrAssumption DEF JobOK, Jobs
    <3> HIDE DEF f
    <3>2. Amount(f, HlrWorkers) \in Nat
      BY <3>1, PiecesFinite
    <3> QED
      BY <3>2 DEF f, Uncounted
  <2>6. ~overwritten => usage = due
    <3>1. ~overwritten => \A d \in Days : usage[d] = due[d]
      BY <2>1 DEF Behind
    <3> QED
      BY <2>2, <3>1
  <2>7. /\ Amount(due, Days) + Uncounted <= answered
        /\ ~lost => Amount(due, Days) + Uncounted = answered
    BY <2>1 DEF Behind
  <2> QED
    BY <2>2, <2>3, <2>4, <2>5, <2>6, <2>7 DEF AnswersCounted, Counted
<1> QED
  BY <1>1, <1>2, HlrInvInit, PTL DEF HlrSpec

--------------------------------------------------------------------------------
(***************************************************************************)
(* Sign-ins that overlap exceed the maximum of failures only by those that *)
(* were let through together: for any numbers of requests, any maximum and *)
(* any window.                                                             *)
(***************************************************************************)

ThrottleTyped ==
    /\ is_active \in BOOLEAN
    /\ failures \in [Ages -> Nat]
    /\ worker \in [Workers -> [step: Steps, ticks: Nat]]

\* Requests that may still store a failure without another look at the lock.
LetThrough == {w \in Workers : worker[w].step \in {"verify", "fail"}}

\* A request is let through while there are fewer than MaxFailures failures, and
\* its own failure takes the place that it had.
ThrottleInv ==
    /\ ThrottleTyped
    /\ is_active => Recent + Cardinality(LetThrough) <= MaxFailures - 1 + Cardinality(Workers)

--------------------------------------------------------------------------------
LEMMA RecentIs ==
  ASSUME NEW f \in [Ages -> Nat]
  PROVE  /\ IsFiniteSet(Pieces(f, Ages)) /\ Amount(f, Ages) \in Nat
         /\ f = failures => Recent = Amount(f, Ages)
<1>1. 0 \in Int /\ Window \in Int
  BY SettingsAssumption
<1>2. IsFiniteSet(Ages)
  BY <1>1, FS_Interval DEF Ages
<1> QED
  BY <1>2, PiecesFinite DEF Recent, RecentRows, Amount, Pieces

LEMMA LetThroughCount ==
  ASSUME NEW S \in SUBSET Workers, NEW T \in SUBSET S
  PROVE  /\ Cardinality(S) \in Nat /\ Cardinality(T) \in Nat /\ Cardinality(Workers) \in Nat
         /\ Cardinality(T) <= Cardinality(S) /\ Cardinality(S) <= Cardinality(Workers)
         /\ IsFiniteSet(S)
<1>1. IsFiniteSet(Workers)
  BY SettingsAssumption
<1>2. IsFiniteSet(S) /\ Cardinality(S) <= Cardinality(Workers)
  BY <1>1, FS_Subset
<1>3. IsFiniteSet(T) /\ Cardinality(T) <= Cardinality(S)
  BY <1>2, FS_Subset
<1> QED
  BY <1>1, <1>2, <1>3, FS_CardinalityType

\* Nobody else is let through and no failure is stored, or there are fewer than
\* MaxFailures of them.
LEMMA ThrottleStep ==
  ASSUME ThrottleInv, ThrottleTyped', is_active' = is_active,
         is_active => \/ Recent' <= Recent /\ LetThrough' \subseteq LetThrough
                      \/ Recent' <= MaxFailures - 1
  PROVE  ThrottleInv'
<1>1. Recent \in Nat
  BY RecentIs DEF ThrottleInv, ThrottleTyped
<1>2. Recent' \in Nat
  <2>1. PICK f \in [Ages -> Nat] : f = failures'
    BY DEF ThrottleTyped
  <2>2. Recent' = Amount(f, Ages)
    BY <2>1 DEF Recent, RecentRows, Amount, Pieces
  <2> QED
    BY <2>2, RecentIs
<1>3. LetThrough \in SUBSET Workers /\ LetThrough' \in SUBSET Workers
  BY DEF LetThrough
<1>4. MaxFailures \in Nat
  BY SettingsAssumption
<1>5. CASE ~is_active
  BY <1>5 DEF ThrottleInv
<1>6. CASE is_active /\ Recent' <= MaxFailures - 1
  BY <1>2, <1>3, <1>4, <1>6, LetThroughCount DEF ThrottleInv
<1>7. CASE is_active /\ Recent' <= Recent /\ LetThrough' \subseteq LetThrough
  <2>1. /\ Cardinality(LetThrough') <= Cardinality(LetThrough)
        /\ Cardinality(LetThrough') \in Nat /\ Cardinality(LetThrough) \in Nat
        /\ Cardinality(Workers) \in Nat
    BY <1>3, <1>7, LetThroughCount
  <2>2. Recent + Cardinality(LetThrough) <= MaxFailures - 1 + Cardinality(Workers)
    BY <1>7 DEF ThrottleInv
  <2> QED
    BY <1>1, <1>2, <1>4, <1>7, <2>1, <2>2 DEF ThrottleInv
<1> QED
  BY <1>5, <1>6, <1>7

\* Request w goes to another step; the failures stay as they are.
LEMMA WorkerStep ==
  ASSUME ThrottleInv, NEW w \in Workers, NEW step \in Steps,
         Go(w, step) \/ (step = "idle" /\ End(w)), UNCHANGED <<is_active, failures>>,
         step \in {"verify", "fail"} =>
             ~is_active \/ w \in LetThrough \/ ~LockReached
  PROVE  ThrottleInv'
<1>1. /\ worker' \in [Workers -> [step: Steps, ticks: Nat]]
      /\ worker'[w].step = step /\ \A v \in Workers \ {w} : worker'[v] = worker[v]
  <2>1. worker \in [Workers -> [step: Steps, ticks: Nat]]
    BY DEF ThrottleInv, ThrottleTyped
  <2>2. CASE Go(w, step)
    <3> DEFINE r == [worker[w] EXCEPT !.step = step]
    <3>1. worker' = [worker EXCEPT ![w] = r]
      BY <2>2 DEF Go
    <3>2. r \in [step: Steps, ticks: Nat] /\ r.step = step
      BY <2>1
    <3> HIDE DEF r
    <3> QED
      BY <2>1, <3>1, <3>2
  <2>3. CASE step = "idle" /\ End(w)
    BY <2>1, <2>3 DEF End, Steps
  <2> QED
    BY <2>2, <2>3
<1>2. ThrottleTyped'
  BY <1>1 DEF ThrottleInv, ThrottleTyped
<1>3. Recent' = Recent /\ Recent \in Nat
  BY RecentIs DEF Recent, RecentRows, ThrottleInv, ThrottleTyped
<1>4. CASE ~is_active
  BY <1>2, <1>4, ThrottleStep
<1>5. CASE ~LockReached
  <2>1. Recent' <= MaxFailures - 1
    BY <1>3, <1>5, SettingsAssumption DEF LockReached
  <2> QED
    BY <1>2, <2>1, ThrottleStep
<1>6. CASE step \in {"verify", "fail"} => w \in LetThrough
  <2>1. LetThrough' \subseteq LetThrough
    BY <1>1, <1>6 DEF LetThrough
  <2> QED
    BY <1>2, <1>3, <2>1, ThrottleStep
<1> QED
  BY <1>4, <1>5, <1>6

\* All failures are deleted.
LEMMA ClearStep ==
  ASSUME ThrottleInv, NEW w \in Workers, Clear, Go(w, "verify") \/ End(w)
  PROVE  ThrottleInv'
<1>1. worker' \in [Workers -> [step: Steps, ticks: Nat]]
  BY DEF ThrottleInv, ThrottleTyped, Go, End, Steps
<1>2. failures' \in [Ages -> Nat] /\ is_active' = is_active /\ \A a \in Ages : failures'[a] = 0
  BY DEF Clear
<1>3. ThrottleTyped'
  BY <1>1, <1>2 DEF ThrottleInv, ThrottleTyped
<1>4. Recent' = 0
  <2>1. PICK f \in [Ages -> Nat] : f = failures'
    BY <1>2
  <2>2. Recent' = Amount(f, Ages)
    BY <2>1 DEF Recent, RecentRows, Amount, Pieces
  <2> QED
    BY <1>2, <2>1, <2>2, AmountZero
<1>5. Recent' <= MaxFailures - 1
  BY <1>4, SettingsAssumption
<1> QED
  BY <1>2, <1>3, <1>5, ThrottleStep

LEMMA FailInv == ASSUME ThrottleInv, NEW w \in Workers, Fail(w) PROVE ThrottleInv'
<1>1. /\ worker[w].step = "fail" /\ ThrottleTyped /\ is_active' = is_active
      /\ failures' = [failures EXCEPT ![0] = @ + 1]
      /\ worker' = [worker EXCEPT ![w] = [step |-> "idle", ticks |-> 0]]
  BY DEF Fail, Doing, End, ThrottleInv
<1>2. 0 \in Ages /\ IsFiniteSet(Ages)
  <2>1. 0 \in Int /\ Window \in Int
    BY SettingsAssumption
  <2> QED
    BY <2>1, SettingsAssumption, FS_Interval DEF Ages
<1>3. PICK f \in [Ages -> Nat] : f = failures
  BY <1>1 DEF ThrottleTyped
<1>4. PICK g \in [Ages -> Nat] : g = failures' /\ g[0] = f[0] + 1 /\ \A a \in Ages \ {0} : g[a] = f[a]
  <2>1. f[0] + 1 \in Nat
    BY <1>2
  <2> QED
    BY <1>1, <1>2, <1>3, <2>1
<1>5. Recent' = Recent + 1 /\ Recent \in Nat
  <2>1. Amount(g, Ages) + f[0] = Amount(f, Ages) + g[0]
    BY <1>2, <1>4, AmountChanged
  <2>2. Amount(f, Ages) \in Nat /\ Amount(g, Ages) \in Nat
    BY RecentIs
  <2>3. Recent = Amount(f, Ages) /\ Recent' = Amount(g, Ages)
    BY <1>3, <1>4 DEF Recent, RecentRows, Amount, Pieces
  <2> QED
    BY <1>2, <1>4, <2>1, <2>2, <2>3
<1>6. /\ LetThrough \in SUBSET Workers /\ w \in LetThrough /\ LetThrough' = LetThrough \ {w}
      /\ worker' \in [Workers -> [step: Steps, ticks: Nat]]
  BY <1>1 DEF LetThrough, ThrottleTyped, Steps
<1>7. Cardinality(LetThrough') = Cardinality(LetThrough) - 1 /\ Cardinality(LetThrough) \in Nat
  <2>1. IsFiniteSet(LetThrough) /\ Cardinality(LetThrough) \in Nat
    BY <1>6, LetThroughCount
  <2> QED
    BY <1>6, <2>1, FS_RemoveElement
<1>8. Cardinality(Workers) \in Nat /\ MaxFailures \in Nat
  BY SettingsAssumption, FS_CardinalityType
<1>9. ThrottleTyped'
  BY <1>1, <1>4, <1>6 DEF ThrottleTyped
<1>10. is_active' => Recent' + Cardinality(LetThrough') <= MaxFailures - 1 + Cardinality(Workers)
  BY <1>1, <1>5, <1>7, <1>8 DEF ThrottleInv
<1> QED
  BY <1>9, <1>10 DEF ThrottleInv

\* Failures only grow older, and the oldest drop out of the window.
LEMMA TickInv == ASSUME ThrottleInv, Tick PROVE ThrottleInv'
<1>1. ThrottleTyped /\ is_active' = is_active /\ failures' = Aged
  BY DEF Tick, ThrottleInv
<1>2. /\ worker' \in [Workers -> [step: Steps, ticks: Nat]]
      /\ \A w \in Workers : worker'[w].step = worker[w].step
  <2>1. ASSUME NEW w \in Workers
        PROVE  /\ worker[w] \in [step: Steps, ticks: Nat]
               /\ [worker[w] EXCEPT !.ticks = worker[w].ticks + 1] \in [step: Steps, ticks: Nat]
               /\ [worker[w] EXCEPT !.ticks = worker[w].ticks + 1].step = worker[w].step
    BY <1>1 DEF ThrottleTyped
  <2>2. worker' = [w \in Workers |-> IF Doing(w, "idle") THEN worker[w]
                                     ELSE [worker[w] EXCEPT !.ticks = worker[w].ticks + 1]]
    BY DEF Tick
  <2> QED
    BY <2>1, <2>2
<1>3. PICK f \in [Ages -> Nat] : f = failures
  BY <1>1 DEF ThrottleTyped
<1>4. PICK g : g = failures' /\ g = [a \in Ages |-> IF a = 0 THEN 0 ELSE f[a - 1]]
  BY <1>1, <1>3 DEF Aged
<1>5. \A a \in Ages : a # 0 => a - 1 \in Ages
  BY SettingsAssumption DEF Ages
<1>6. g \in [Ages -> Nat]
  BY <1>4, <1>5
<1>7. Amount(g, Ages) <= Amount(f, Ages)
  <2> DEFINE younger == [p \in Pieces(g, Ages) |-> <<p[1] - 1, p[2]>>]
  <2>1. ASSUME NEW p \in Pieces(g, Ages)
        PROVE  /\ p = <<p[1], p[2]>> /\ p[1] \in Int
               /\ <<p[1] - 1, p[2]>> \in Pieces(f, Ages)
    <3>1. PICK a \in Ages : p \in {a} \X (1 .. g[a])
      BY DEF Pieces
    <3>2. a # 0 /\ g[a] = f[a - 1]
      BY <1>4, <3>1
    <3>3. p[1] = a /\ p[2] \in 1 .. f[a - 1] /\ p = <<p[1], p[2]>>
      BY <3>1, <3>2
    <3>4. a - 1 \in Ages /\ a \in Int
      BY <1>5, <3>2 DEF Ages
    <3> QED
      BY <3>3, <3>4 DEF Pieces
  <2>2. younger \in [Pieces(g, Ages) -> Pieces(f, Ages)]
    BY <2>1
  <2>3. ASSUME NEW p \in Pieces(g, Ages), NEW q \in Pieces(g, Ages), younger[p] = younger[q]
        PROVE  p = q
    <3>1. p[1] - 1 = q[1] - 1 /\ p[2] = q[2]
      BY <2>3
    <3>2. p[1] \in Int /\ q[1] \in Int /\ p = <<p[1], p[2]>> /\ q = <<q[1], q[2]>>
      BY <2>1
    <3>3. p[1] = q[1]
      BY <3>1, <3>2
    <3> QED
      BY <3>1, <3>2, <3>3
  <2> HIDE DEF younger
  <2>4. younger \in Injection(Pieces(g, Ages), Pieces(f, Ages))
    BY <2>2, <2>3 DEF Injection, IsInjective
  <2>5. IsFiniteSet(Pieces(f, Ages))
    BY RecentIs
  <2> QED
    BY <2>4, <2>5, FS_Injection DEF Amount
<1>8. Recent' <= Recent
  BY <1>3, <1>4, <1>7 DEF Recent, RecentRows, Amount, Pieces
<1>9. LetThrough' = LetThrough
  BY <1>2 DEF LetThrough
<1>10. ThrottleTyped'
  BY <1>1, <1>2, <1>4, <1>6 DEF ThrottleTyped
<1> QED
  BY <1>1, <1>8, <1>9, <1>10, ThrottleStep

LEMMA ThrottleInvStep == ASSUME ThrottleInv, [Next]_vars PROVE ThrottleInv'
<1>1. CASE UNCHANGED vars
  BY <1>1 DEF vars, ThrottleInv, ThrottleTyped, Recent, RecentRows, LetThrough
<1>2. CASE Tick
  BY <1>2, TickInv
<1>3. ASSUME NEW w \in Workers, Arrive(w) PROVE ThrottleInv'
  <2>1. Go(w, "check") \/ (Go(w, "verify") /\ ~is_active)
    BY <1>3 DEF Arrive
  <2> QED
    BY <1>3, <2>1, WorkerStep DEF Arrive, Steps
<1>4. ASSUME NEW w \in Workers, Check(w) PROVE ThrottleInv'
  <2>1. End(w) \/ Go(w, "expire") \/ (Go(w, "verify") /\ ~LockReached)
    BY <1>4 DEF Check
  <2> QED
    BY <1>4, <2>1, WorkerStep DEF Check, Steps
<1>5. ASSUME NEW w \in Workers, Verify(w) PROVE ThrottleInv'
  <2>1. w \in LetThrough
    BY <1>5 DEF Verify, Doing, LetThrough
  <2>2. Go(w, "fail") \/ Go(w, "succeed")
    BY <1>5 DEF Verify
  <2> QED
    BY <1>5, <2>1, <2>2, WorkerStep DEF Verify, Steps
<1>6. ASSUME NEW w \in Workers, Expire(w) \/ Succeed(w) PROVE ThrottleInv'
  BY <1>6, ClearStep DEF Expire, Succeed
<1>7. ASSUME NEW w \in Workers, Disconnect(w) PROVE ThrottleInv'
  BY <1>7, WorkerStep DEF Disconnect, Steps
<1> QED
  BY <1>1, <1>2, <1>3, <1>4, <1>5, <1>6, <1>7, FailInv DEF Next, Step

\* An active account has at most MaxFailures failures in the window, and one for
\* each further request that was let through before they were stored.
THEOREM OverlapsBounded == Spec => []FailuresBounded
<1>1. ASSUME Init PROVE ThrottleInv
  <2>1. ThrottleTyped /\ LetThrough = {} /\ \A a \in Ages : failures[a] = 0
    BY <1>1 DEF Init, ThrottleTyped, LetThrough, Steps
  <2>2. Recent = 0
    BY <2>1, RecentIs, AmountZero DEF ThrottleTyped
  <2>3. Cardinality(LetThrough) = 0 /\ Cardinality(Workers) \in Nat /\ MaxFailures \in Nat \ {0}
    BY <2>1, FS_EmptySet, FS_CardinalityType, SettingsAssumption
  <2> QED
    BY <2>1, <2>2, <2>3 DEF ThrottleInv
<1>2. ThrottleInv => FailuresBounded
  <2> SUFFICES ASSUME ThrottleInv, is_active PROVE Recent <= MaxFailures - 1 + Cardinality(Workers)
    BY DEF FailuresBounded
  <2>1. Recent \in Nat
    BY RecentIs DEF ThrottleInv, ThrottleTyped
  <2>2. Cardinality(LetThrough) \in Nat /\ Cardinality(Workers) \in Nat /\ MaxFailures \in Nat
    BY LetThroughCount, SettingsAssumption DEF LetThrough
  <2> QED
    BY <2>1, <2>2 DEF ThrottleInv
<1> QED
  BY <1>1, <1>2, ThrottleInvStep, PTL DEF Spec

--------------------------------------------------------------------------------
(***************************************************************************)
(* What is proved of a page, import or script by itself holds of it in     *)
(* Pages too: in a behaviour of Pages each of them runs as its own         *)
(* specification says, the page that is followed and those that rest.      *)
(***************************************************************************)

\* A step of Pages is for each page a step of its own or no step.
LEMMA PagesStep ==
  ASSUME [PagesNext]_pageVars
  PROVE  /\ [HlrNext]_hlrVars /\ [SpamNext]_spamVars
         /\ [FeedNext]_feedVars /\ [RouteNext]_routeVars
         /\ [DictNext]_dictVars /\ [CardNext]_cardVars
         /\ [NotesNext]_noteVars /\ [CutoverNext]_cutVars
<1>1. CASE UNCHANGED pageVars
  BY <1>1 DEF pageVars
<1>2. CASE PagesNext
  BY <1>2 DEF PagesNext, Resting
<1> QED
  BY <1>1, <1>2

\* Pages start where each of them may start: at rest is a start of theirs.
LEMMA PagesStart ==
  ASSUME PagesInit
  PROVE  /\ HlrInit /\ SpamInit /\ FeedInit /\ RouteInit
         /\ DictInit /\ CardInit /\ NotesInit /\ CutoverInit
BY DEF PagesInit, SpamRests, FeedRests, RoutesRest, DictionariesRest, CutoverRests

\* Every behaviour of the composition is one of each page, import and script.
THEOREM PagesRunTheirParts ==
  PagesSpec =>
    /\ HlrSpec /\ SpamSpec /\ FeedSpec /\ RouteSpec
    /\ DictSpec /\ CardSpec /\ NotesSpec /\ CutoverSpec
BY PagesStart, PagesStep, PTL
   DEF PagesSpec, HlrSpec, SpamSpec, FeedSpec, RouteSpec, DictSpec, CardSpec, NotesSpec,
       CutoverSpec
================================================================================
