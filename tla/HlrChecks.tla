------------------------------- MODULE HlrChecks -------------------------------
(***************************************************************************)
(* Paid HLR checks and their daily counter.  A request reads the counter   *)
(* and the limit, sends its numbers to the provider batch by batch and     *)
(* adds what was answered to the counter of the day on which it ends; the  *)
(* counter is read and written back as a number, in two statements.        *)
(*                                                                         *)
(* A number is only counted, so a check is a number of numbers; those with *)
(* a bad format are answered without the provider and left out.            *)
(***************************************************************************)
EXTENDS Naturals, FiniteSets, FiniteSetsExt

CONSTANTS HlrWorkers,    \* requests that can be in progress together
          MaxAsked,      \* HLR_MAX_NUMBERS
          BatchSize,     \* HLR_BATCH_SIZE
          EnvLimit,      \* HLR_DAILY_CHECK_LIMIT, or its default
          Overrides,     \* the limits an admin may save
          NoOverride,    \* app_settings has no valid override
          LastDay,       \* bound: midnight passes so many times
          MaxAnswered    \* bound: no further request once so much was answered

ASSUME HlrAssumption ==
    /\ IsFiniteSet(HlrWorkers)
    /\ MaxAsked \in Nat /\ BatchSize \in Nat \ {0} /\ EnvLimit \in Nat \ {0}
    /\ Overrides \subseteq Nat \ {0} /\ NoOverride \notin Overrides
    /\ LastDay \in Nat /\ MaxAnswered \in Nat

VARIABLES override,    \* hlr_daily_limit_override of app_settings
          today, usage,    \* the date, and hlr_daily_usage: date -> checked_count
          job,    \* HlrWorkers -> the check in progress
          answered,    \* numbers the provider has answered so far
          lost,    \* an answer was lost with its request
          overwritten    \* a counter was written over another request's change

hlrVars == <<override, today, usage, job, answered, lost, overwritten>>

Days == 0 .. LastDay

JobSteps == {"idle", "usage", "limit", "send", "select", "write"}

NoJob == [step |-> "idle", asked |-> 0, sent |-> 0, rows |-> 0, date |-> 0, seen |-> 0]

JobAt(w, step) == job[w].step = step

\* hlr_daily_limit_state
EffectiveLimit == IF override = NoOverride THEN EnvLimit ELSE override

Remaining(seen) == IF seen < EffectiveLimit THEN EffectiveLimit - seen ELSE 0

HlrInit ==
    /\ override = NoOverride
    /\ today = 0
    /\ usage = [d \in Days |-> 0]
    /\ job = [w \in HlrWorkers |-> NoJob]
    /\ answered = 0
    /\ lost = FALSE /\ overwritten = FALSE

(***************************************************************************)
(* POST /hlr/config/daily-limit and .../reset                              *)
(***************************************************************************)
SetLimit ==
    /\ override' \in Overrides
    /\ UNCHANGED <<today, usage, job, answered, lost, overwritten>>

ResetLimit ==
    /\ override' = NoOverride
    /\ UNCHANGED <<today, usage, job, answered, lost, overwritten>>

(***************************************************************************)
(* POST /hlr/check                                                         *)
(***************************************************************************)
\* hlr_prepare_numbers: more than MaxAsked numbers are refused.
StartCheck(w) ==
    /\ JobAt(w, "idle")
    /\ answered < MaxAnswered
    /\ \E n \in 0 .. MaxAsked :
         job' = [job EXCEPT ![w] = [NoJob EXCEPT !.step = "usage", !.asked = n]]
    /\ UNCHANGED <<override, today, usage, answered, lost, overwritten>>

ReadUsage(w) ==
    /\ JobAt(w, "usage")
    /\ job' = [job EXCEPT ![w].step = "limit", ![w].seen = usage[today]]
    /\ UNCHANGED <<override, today, usage, answered, lost, overwritten>>

CheckLimit(w) ==
    /\ JobAt(w, "limit")
    /\ \/ job[w].asked > Remaining(job[w].seen) /\ job' = [job EXCEPT ![w] = NoJob]
       \/ job[w].asked <= Remaining(job[w].seen) /\ job' = [job EXCEPT ![w].step = "send"]
    /\ UNCHANGED <<override, today, usage, answered, lost, overwritten>>

Batch(w) == Min({BatchSize, job[w].asked - job[w].sent})

\* Fault: the rows of a batch that failed are counted as well.
SendBatchCounted(w) ==
    /\ JobAt(w, "send") /\ job[w].sent < job[w].asked
    /\ \E n \in 0 .. Batch(w) :
         /\ job' = [job EXCEPT ![w].sent = @ + Batch(w), ![w].rows = @ + Batch(w)]
         /\ answered' = answered + n
    /\ UNCHANGED <<override, today, usage, lost, overwritten>>

\* hlr_real_api_check, one batch: all numbers are answered, fewer rows come
\* back and zip drops the others, or the batch fails and none is counted.
SendBatch(w) ==
    /\ JobAt(w, "send") /\ job[w].sent < job[w].asked
    /\ \E n \in 0 .. Batch(w) :
         /\ job' = [job EXCEPT ![w].sent = @ + Batch(w), ![w].rows = @ + n]
         /\ answered' = answered + n
    /\ UNCHANGED <<override, today, usage, lost, overwritten>>

\* After the last batch: only a check that was answered is recorded.
Answered(w) ==
    /\ JobAt(w, "send") /\ job[w].sent = job[w].asked
    /\ job' = [job EXCEPT ![w] = IF @.rows > 0 THEN [@ EXCEPT !.step = "select"] ELSE NoJob]
    /\ UNCHANGED <<override, today, usage, answered, lost, overwritten>>

\* hlr_record_daily_usage takes the date of the end of the check.
SelectUsage(w) ==
    /\ JobAt(w, "select")
    /\ job' = [job EXCEPT ![w].step = "write", ![w].date = today, ![w].seen = usage[today]]
    /\ UNCHANGED <<override, today, usage, answered, lost, overwritten>>

WriteUsage(w) ==
    LET d == job[w].date IN
    /\ JobAt(w, "write")
    /\ usage' = [usage EXCEPT ![d] = job[w].seen + job[w].rows]
    /\ overwritten' = (overwritten \/ usage[d] # job[w].seen)
    /\ job' = [job EXCEPT ![w] = NoJob]
    /\ UNCHANGED <<override, today, answered, lost>>

\* An error of the provider's answer that no except clause names, or the end of
\* the process: what the earlier batches answered is not recorded.
BreakOff(w) ==
    /\ ~JobAt(w, "idle")
    /\ job' = [job EXCEPT ![w] = NoJob]
    /\ lost' = (lost \/ job[w].rows > 0)
    /\ UNCHANGED <<override, today, usage, answered, overwritten>>

Midnight ==
    /\ today < LastDay
    /\ today' = today + 1
    /\ UNCHANGED <<override, usage, job, answered, lost, overwritten>>

HlrNext ==
    \/ SetLimit \/ ResetLimit \/ Midnight
    \/ \E w \in HlrWorkers :
         \/ StartCheck(w) \/ ReadUsage(w) \/ CheckLimit(w) \/ SendBatch(w) \/ Answered(w)
         \/ SelectUsage(w) \/ WriteUsage(w) \/ BreakOff(w)

HlrSpec == HlrInit /\ [][HlrNext]_hlrVars

(***************************************************************************)
(* Properties                                                              *)
(***************************************************************************)
HlrTypeOK ==
    /\ override \in Overrides \cup {NoOverride}
    /\ today \in Days
    /\ usage \in [Days -> Nat]
    /\ job \in [HlrWorkers -> [step: JobSteps, asked: 0 .. MaxAsked, sent: 0 .. MaxAsked,
                               rows: 0 .. MaxAsked, date: Days, seen: Nat]]
    /\ answered \in Nat
    /\ lost \in BOOLEAN /\ overwritten \in BOOLEAN

\* f[x] pieces of every x.
Pieces(f, S) == UNION {{x} \X (1 .. f[x]) : x \in S}
Amount(f, S) == Cardinality(Pieces(f, S))

Counted == Amount(usage, Days)
Uncounted == Amount([w \in HlrWorkers |-> job[w].rows], HlrWorkers)

\* The counters and the checks still to be recorded hold every number that was
\* answered, unless a request was lost or two recordings of a day overlapped;
\* and then they hold fewer, however often counters were overwritten: nobody is
\* refused for numbers that were never checked.
AnswersCounted ==
    /\ Counted + Uncounted <= answered
    /\ ~lost /\ ~overwritten => Counted + Uncounted = answered
================================================================================
