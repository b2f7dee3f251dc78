--------------------------------- MODULE Pages ---------------------------------
(***************************************************************************)
(* The pages, imports and scripts beside numbers, tariffs and sign-in,     *)
(* each a module of its own.  The pages share no row that their requests   *)
(* change and no lock, and the scripts run while nobody uses them, so it   *)
(* is enough to follow one at a time while the others rest in a state of   *)
(* theirs.                                                                 *)
(***************************************************************************)
EXTENDS HlrChecks, SpamChecks, Archivarius, RouteImports, Dictionaries, CampaignCards,
        EventNotes, Cutover

VARIABLE page    \* the page that is followed

AllPages == {"hlr", "spam", "archivarius", "routes", "dictionaries", "campaigns", "notes", "cutover"}

\* Pages that rest: nothing is recorded yet.
SpamRests == SpamInit /\ members = {}
FeedRests == FeedInit /\ rows = {}
RoutesRest == RouteInit /\ \A i \in RouteIds : ~IsRoute(i)
DictionariesRest == DictInit /\ kind = "countries"
CutoverRests == CutoverInit /\ \A t \in Tables : TakenIds(source, t) = {}

PagesInit ==
    /\ page \in AllPages
    /\ HlrInit /\ CardInit /\ NotesInit
    /\ IF page = "spam" THEN SpamInit ELSE SpamRests
    /\ IF page = "archivarius" THEN FeedInit ELSE FeedRests
    /\ IF page = "routes" THEN RouteInit ELSE RoutesRest
    /\ IF page = "dictionaries" THEN DictInit ELSE DictionariesRest
    /\ IF page = "cutover" THEN CutoverInit ELSE CutoverRests

Resting(p) ==
    /\ p # "hlr" => UNCHANGED hlrVars
    /\ p # "spam" => UNCHANGED spamVars
    /\ p # "archivarius" => UNCHANGED feedVars
    /\ p # "routes" => UNCHANGED routeVars
    /\ p # "dictionaries" => UNCHANGED dictVars
    /\ p # "campaigns" => UNCHANGED cardVars
    /\ p # "notes" => UNCHANGED noteVars
    /\ p # "cutover" => UNCHANGED cutVars

PagesNext ==
    /\ UNCHANGED page
    /\ Resting(page)
    /\ \/ page = "hlr" /\ HlrNext
       \/ page = "spam" /\ SpamNext
       \/ page = "archivarius" /\ FeedNext
       \/ page = "routes" /\ RouteNext
       \/ page = "dictionaries" /\ DictNext
       \/ page = "campaigns" /\ CardNext
       \/ page = "notes" /\ NotesNext
       \/ page = "cutover" /\ CutoverNext

pageVars == <<page, hlrVars, spamVars, feedVars, routeVars, dictVars, cardVars, noteVars,
              cutVars>>

PagesSpec == PagesInit /\ [][PagesNext]_pageVars
================================================================================
