------------------------------ MODULE SpamChecks -------------------------------
(***************************************************************************)
(* SPAM checks: the reply of a Telegram bot is pasted into a form, parsed  *)
(* against the numbers that were asked about and saved as one batch, which *)
(* moves the score of each number up or down.  The form carries a token, so *)
(* that saving it again is recognised.                                     *)
(*                                                                         *)
(* A save is one transaction of several statements; what it writes is kept *)
(* in the form of its worker until the commit.                             *)
(***************************************************************************)
EXTENDS Integers, Sequences, FiniteSets, FiniteSetsExt, Functions

CONSTANTS SpamWorkers,    \* requests that can be in progress together
          Numbers,        \* numbers a reply can name
          Purchased,      \* those that are in phone_numbers
          SpamRoutes, Tokens,
          StartScores,    \* bound: the scores the numbers may start with
          Replies         \* bound: the marks a number may have in a reply

Marks == {"clear", "hiya", "other"}

ASSUME SpamAssumption ==
    /\ Purchased \subseteq Numbers
    /\ StartScores \subseteq 0 .. 5
    /\ Replies \subseteq SUBSET Marks

VARIABLES score,      \* phone_spam_state: Purchased -> score
          raised,     \* phone_numbers: Purchased -> is_problematic, review_required
          members,    \* route_phone_numbers: <<route, number>> pairs that are active
          batches,    \* spam_check_batches: Tokens -> number of rows
          log,        \* spam_check_results: Purchased -> sequence
          form        \* SpamWorkers -> the save in progress

spamVars == <<score, raised, members, batches, log, form>>

SaveSteps == {"idle", "token", "lock", "validate", "insert", "score"}

Flags == [is_problematic: BOOLEAN, review_required: BOOLEAN]

NoSpamForm == [step |-> "idle"]

Nothing == [n \in {} |-> 0]

FormAt(w, step) == form[w].step = step

Abandon(w) == form' = [form EXCEPT ![w] = NoSpamForm]
Proceed(w, step) == form' = [form EXCEPT ![w].step = step]

(***************************************************************************)
(* The parser and the score                                                *)
(***************************************************************************)
\* parse_response, for a number that was asked about: the marks of its lines.
Status(marks) ==
    CASE marks = {} -> "missing"
      [] "clear" \in marks /\ marks # {"clear"} -> "error"
      [] OTHER -> "ready"

\* Numbers to be saved; those that are not purchased are not found.
Ready(f) == {n \in DOMAIN f.reply \cap Purchased : Status(f.reply[n]) = "ready"}

\* score_change
Scored(before, marks) ==
    CASE marks = {"clear"} -> Max({0, before - 1})
      [] "other" \in marks -> Min({5, before + 2})
      [] OTHER -> Min({5, before + 1})

SpamInit ==
    /\ score \in [Purchased -> StartScores]
    /\ raised = [n \in Purchased |-> [is_problematic |-> FALSE, review_required |-> FALSE]]
    /\ members \in SUBSET (SpamRoutes \X Purchased)
    /\ batches = [t \in Tokens |-> 0]
    /\ log = [n \in Purchased |-> <<>>]
    /\ form = [w \in SpamWorkers |-> NoSpamForm]

(***************************************************************************)
(* POST /spam-checker/save                                                 *)
(***************************************************************************)
\* The page was generated earlier: its route map and its token are of that
\* time, and the same page can be saved again, with a reply edited since.  What
\* the reply says of numbers that were not asked about is dropped.
Submit(w) ==
    /\ FormAt(w, "idle")
    /\ \E t \in Tokens, asked \in SUBSET Numbers :
       \E reply \in [asked -> Replies], map \in [asked \cap Purchased -> SUBSET SpamRoutes] :
         LET f == [step |-> "token", token |-> t, reply |-> reply, map |-> map,
                   seen |-> Nothing, valid |-> {}, done |-> Nothing]
         IN Ready(f) # {} /\ form' = [form EXCEPT ![w] = f]
    /\ UNCHANGED <<score, raised, members, batches, log>>

\* A token that is saved is reported and nothing else is done.
ReadToken(w) ==
    /\ FormAt(w, "token")
    /\ IF batches[form[w].token] > 0 THEN Abandon(w) ELSE Proceed(w, "lock")
    /\ UNCHANGED <<score, raised, members, batches, log>>

Holds(w, n) == form[w].step \in {"validate", "insert", "score"} /\ n \in DOMAIN form[w].reply

\* Fault: the phones are read without FOR UPDATE.
LockPhonesShared(w) ==
    /\ FormAt(w, "lock")
    /\ form' = [form EXCEPT ![w].step = "validate",
                            ![w].seen = [n \in DOMAIN form[w].reply \cap Purchased |-> raised[n]]]
    /\ UNCHANGED <<score, raised, members, batches, log>>

\* SELECT ... FOR UPDATE of all numbers of the form, in the order of one scan.
LockPhones(w) ==
    LET rows == DOMAIN form[w].reply \cap Purchased IN
    /\ FormAt(w, "lock")
    /\ \A v \in SpamWorkers \ {w}, n \in rows : ~Holds(v, n)
    /\ form' = [form EXCEPT ![w].step = "validate",
                            ![w].seen = [n \in rows |-> raised[n]]]
    /\ UNCHANGED <<score, raised, members, batches, log>>

\* A number is saved only if it still belongs to every route it was listed for.
Validate(w) ==
    LET valid == {n \in Ready(form[w]) : form[w].map[n] \X {n} \subseteq members} IN
    /\ FormAt(w, "validate")
    /\ IF valid = {} THEN Abandon(w)
       ELSE form' = [form EXCEPT ![w].step = "insert", ![w].valid = valid]
    /\ UNCHANGED <<score, raised, members, batches, log>>

\* Fault: request_token has no unique index.
InsertBatchAgain(w) ==
    /\ FormAt(w, "insert")
    /\ Proceed(w, "score")
    /\ UNCHANGED <<score, raised, members, batches, log>>

\* INSERT INTO spam_check_batches: the unique index waits for another
\* transaction with the token and refuses a token that is saved.
InsertBatch(w) ==
    LET t == form[w].token IN
    /\ FormAt(w, "insert")
    /\ \A v \in SpamWorkers \ {w} : FormAt(v, "score") => form[v].token # t
    /\ IF batches[t] > 0 THEN Abandon(w) ELSE Proceed(w, "score")
    /\ UNCHANGED <<score, raised, members, batches, log>>

ScoreNumber(w) ==
    /\ FormAt(w, "score")
    /\ \E n \in form[w].valid \ DOMAIN form[w].done :
         form' = [form EXCEPT ![w].done =
                    [m \in DOMAIN @ \cup {n} |->
                       IF m = n THEN [token |-> form[w].token, before |-> score[n],
                                      after |-> Scored(score[n], form[w].reply[n])]
                       ELSE form[w].done[m]]]
    /\ UNCHANGED <<score, raised, members, batches, log>>

Reached(result) == result.before < 5 /\ result.after = 5

Raised == [is_problematic |-> TRUE, review_required |-> TRUE]

\* Fault: a number that has one of the flags already is left as it is.
FlagsAfterPartial(f, n) ==
    IF Reached(f.done[n]) /\ f.seen[n] = [is_problematic |-> FALSE, review_required |-> FALSE]
    THEN Raised ELSE f.seen[n]

FlagsAfter(f, n) == IF Reached(f.done[n]) THEN Raised ELSE f.seen[n]

SaveCommit(w) ==
    LET f == form[w]
        result == f.done
    IN
    /\ FormAt(w, "score") /\ DOMAIN result = f.valid
    /\ batches' = [batches EXCEPT ![f.token] = @ + 1]
    /\ score' = [n \in Purchased |-> IF n \in f.valid THEN result[n].after ELSE score[n]]
    /\ log' = [n \in Purchased |-> IF n \in f.valid THEN Append(log[n], result[n]) ELSE log[n]]
    /\ raised' = [n \in Purchased |->
                    IF n \in f.valid /\ Reached(result[n]) THEN FlagsAfter(f, n) ELSE raised[n]]
    /\ Abandon(w)
    /\ UNCHANGED members

\* The request or its connection is lost: the transaction is rolled back.
LoseSave(w) ==
    /\ ~FormAt(w, "idle")
    /\ Abandon(w)
    /\ UNCHANGED <<score, raised, members, batches, log>>

(***************************************************************************)
(* Other pages.  An edit of a number waits for its row.                    *)
(***************************************************************************)
EditFlags(n) ==
    /\ \A w \in SpamWorkers : ~Holds(w, n)
    /\ \E flags \in Flags : raised' = [raised EXCEPT ![n] = flags]
    /\ UNCHANGED <<score, members, batches, log, form>>

ChangeMember ==
    /\ \E pair \in SpamRoutes \X Purchased :
         members' = IF pair \in members THEN members \ {pair} ELSE members \cup {pair}
    /\ UNCHANGED <<score, raised, batches, log, form>>

SpamNext ==
    \/ \E w \in SpamWorkers :
         \/ Submit(w) \/ ReadToken(w) \/ LockPhones(w) \/ Validate(w) \/ InsertBatch(w)
         \/ ScoreNumber(w) \/ SaveCommit(w) \/ LoseSave(w)
    \/ \E n \in Purchased : EditFlags(n)
    \/ ChangeMember

SpamSpec == SpamInit /\ [][SpamNext]_spamVars

(***************************************************************************)
(* Properties                                                              *)
(***************************************************************************)
SpamTypeOK ==
    /\ score \in [Purchased -> 0 .. 5]
    /\ raised \in [Purchased -> Flags]
    /\ members \subseteq SpamRoutes \X Purchased
    /\ batches \in [Tokens -> Nat]
    /\ \A n \in Purchased : \A i \in DOMAIN log[n] :
         log[n][i] \in [token: Tokens, before: 0 .. 5, after: 0 .. 5]
    /\ \A w \in SpamWorkers : form[w].step \in SaveSteps

\* The results of a number form a chain that ends in its score, whichever forms
\* are saved together: none is computed from a score another has replaced.
ScoreChain ==
    \A n \in Purchased :
        /\ \A i \in 1 .. Len(log[n]) - 1 : log[n][i].after = log[n][i + 1].before
        /\ log[n] # <<>> => log[n][Len(log[n])].after = score[n]

\* A form that is saved twice, even while the first save is in progress, moves
\* the score of a number once.
TokenScoresOnce ==
    /\ \A t \in Tokens : batches[t] <= 1
    /\ \A n \in Purchased : \A i, j \in DOMAIN log[n] :
            log[n][i].token = log[n][j].token => i = j

\* A save that brings a number to the full score raises both flags, whatever
\* they were; any other leaves the flags an editor has set.
FlagsRaisedAtFive ==
    [][\A n \in Purchased : log'[n] # log[n] =>
         raised'[n] = IF score[n] < 5 /\ score'[n] = 5 THEN Raised ELSE raised[n]]_spamVars
================================================================================
