-------------------------------- MODULE Progress -------------------------------
(***************************************************************************)
(* What eventually happens in the parts of the program that wait: requests *)
(* about numbers and routing events wait for the locks of one another, and *)
(* a sign-in waits for a lock to run out.  The three share no row, so that *)
(* a behaviour of the program interleaves one of each, and each of them is *)
(* followed by itself.                                                     *)
(***************************************************************************)
EXTENDS LoginThrottle, Sequences

CONSTANTS Absent, None,
          Phones, PhoneRoutes, LinkIds, Forms, Reach, Ops,
          Campaigns, Geos, Servers, Routes, SettingIds, RouteGeo, Rows, Kinds

VARIABLES part,   \* which of the three is followed
          phone, link, closings, pc, req, seen, todo, wPhone, wLink, wClosed,
          campaign, settings, announced, campaignPc, campaignReq, campaignTodo,
          plan, target, wSettings, wEvents, superseded

Phone == INSTANCE PhoneSessions WITH Routes <- PhoneRoutes

Campaign == INSTANCE CampaignSessions
    WITH pc <- campaignPc, req <- campaignReq, todo <- campaignTodo

phoneVars == <<phone, link, closings, pc, req, seen, todo, wPhone, wLink, wClosed>>
campaignVars == <<campaign, settings, announced, campaignPc, campaignReq, campaignTodo,
                  plan, target, wSettings, wEvents, superseded>>
allVars == <<part, vars, phoneVars, campaignVars>>

Parts == {"numbers", "campaigns", "login"}

ProgressInit ==
    /\ part \in Parts
    /\ Init /\ (part # "login" => is_active)
    /\ Phone!Init
    /\ Campaign!Init

ProgressNext ==
    /\ UNCHANGED part
    /\ \/ part = "numbers" /\ Phone!Next /\ UNCHANGED <<vars, campaignVars>>
       \/ part = "campaigns" /\ Campaign!Next /\ UNCHANGED <<vars, phoneVars>>
       \/ part = "login" /\ Next /\ UNCHANGED <<phoneVars, campaignVars>>

\* Threads run to their end, deadlocks are detected and time does not stop.
ProgressSpec ==
    /\ ProgressInit /\ [][ProgressNext]_allVars
    /\ Phone!Fairness
    /\ Campaign!Fairness
    /\ \A w \in Workers : WF_vars(part = "login" /\ Step(w))
    /\ WF_vars(part = "login" /\ Tick)

(***************************************************************************)
(* Properties                                                              *)
(***************************************************************************)
Waiting(w) == pc[w] # "idle" \/ campaignPc[w] # "idle"

\* Every request ends, by a commit or a rollback, although two of them may
\* lock numbers and links, or the versions of several campaigns, in opposite
\* orders and wait for one another.
RequestsEnd == \A w \in Workers : Waiting(w) ~> ~Waiting(w)
================================================================================
