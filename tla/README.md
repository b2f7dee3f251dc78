# TeleRoute in TLA+

TLA+ specifications of TeleRoute, the internal application (Python, WSGI,
PostgreSQL) that keeps routes, purchased phone numbers, tariffs, calling
campaigns and the journal of provider changes.  The modules are translations of
`src/app` and of the scripts that move its data; TLC checks them on small
instances and TLAPS proves the safety properties for every value of the constants.

Contents: [the system](#the-system), [the modules](#the-modules),
[the runs](#the-runs), [bounds](#bounds), [fairness](#fairness),
[the proofs](#the-proofs),
[what the code does otherwise than it says](#what-the-code-does-otherwise-than-it-says),
[not modelled](#not-modelled), [where to go on](#where-to-go-on).

## The system

A request is one thread with a PostgreSQL connection of its own
(`app/server.py:10854`; README.md: "The local runner serves requests
concurrently").  It runs at READ COMMITTED and takes no explicit locks except in
`save_spam_check_batch`.  A repository method is one transaction
(`commit=True`) or a part of its caller's (`commit=False`).  All state is in the
database and nothing is cached between requests.  The hard behaviour is therefore
that of overlapping transactions, where a decision taken on a row read by one
statement is written by a later one, and of requests that consist of several
transactions and stop between two of them.

| component | state | operations | what makes it correct |
|---|---|---|---|
| Purchased numbers and route links (`repository.py`, `importer.py`) | `phone_numbers`, `route_phone_numbers`, their histories | create, edit, import, link, unlink, flag by SPAM score | a number linked to a route is active and in use; one active link per route and number; flags agree; a closed link is in the history once; a number switched back on is reviewed |
| Tariffs and rates | `tariffs`, `currency_rates`, `tariff_change_history` | create, edit, switch on or off, new rate with recalculation, import | EUR price = price * rate; the rate is the latest; one tariff per key; the history ends with the terms; an edit replaces what its form displayed |
| Campaign routing and its journal | `company_routing_settings`, `routing_events`, `server_route_priorities` | routing events (campaign settings, server priority), later edits of their comments | one open version per campaign; the journal explains what is in force; a version's route is of its GEO; an event changes what it asks; a version shows the comment of the event that explains it |
| Calling campaigns | `calling_companies` | create, edit, import, (de)activate | the external number identifies a campaign; an edit replaces the row its form displayed |
| Users and permissions | `users`, `user_permissions` | create, edit, password, rights | an active administrator always remains; an edit that is reported is complete |
| Sign-in throttle (`security.py`) | `login_attempts` | failure, lock, expiry, success | locked out after three failures, not for ever, and afresh each time |
| HLR checks (`server.py`) | `hlr_daily_usage`, the limit in `app_settings` | paid check of a list of numbers in batches, change of the limit | the counter has every number the provider answered; the daily limit holds |
| SPAM checker (`spam_checker.py`, `repository.py`) | `spam_check_batches`, `spam_check_results`, `phone_spam_state` | parse a pasted reply, save a batch once per token | results form a chain of scores; a token scores once; the full score raises the flags |
| Routes (`repository.py`, `importer.py`) | `routes`, `route_history` | create, edit, import, rollback of an import | a route has its history; a rollback spares what is referred to; an import takes hold |
| Dictionaries and change reasons | one table each, copies of GEO names in `phone_numbers` | create, rename, linked rename, scopes | names differ in more than case; copies follow; scopes are those of one form |
| Archivarius API and push (`archivarius.py`, `scripts/archivarius_push.py`) | `change_log`, the state file | pages behind a cursor, snapshot, push, save the cursor | nothing up to the cursor is missing; a snapshot has every row that stayed |
| Importer (`importer.py`) | none of its own | preview, then apply row by row | a row is applied completely or reported |
| Telegram (`telegram.py`) | none | text after the commit of an event | never blocks or undoes an event |
| Pages, CSV export | none | read only | - |
| Scripts and migrations (`scripts/migrate_sqlite_to_postgres.py`, `prepare_release_database.py`, `apply_postgres_schema.py`) | the whole database and its sequences | import of an old SQLite database, cleanup of test data before a release, migrations that every deployment runs again | what is imported satisfies what the application assumes; ids that are given next are free; a failure leaves everything as it was |
| Adapters, harnesses | none | - | - |

They interact through the database only: an event may name routes whose numbers
another request links; the importer calls the same repository methods as the
pages; a SPAM batch writes flags the number forms write too; a number copies the
name of its GEO; an event sends its notification after its commit; every change
leaves an entry in the log that the export reads.  The scripts run while the
application is stopped or locked out (`scripts/legacy/README.md`; the cleanup
takes ACCESS EXCLUSIVE locks), but they leave rows and sequences to it.

`PROJECT.json` lists every component with its status, the hazards of the code
line by line with the properties that cover them, and the lines each definition
stands for.

## The modules

| module | models | how it corresponds to the code |
|---|---|---|
| `PhonePool` | what the number requests promise when each runs alone | one action per repository method; a form is the record `update_phone_number` receives, so `ImportPhone` first merges the row as `importer.py` does; a bulk form is a sequence of `CreatePhone` |
| `PhoneSessions` | the same requests statement by statement | `pc` is the next statement of a worker, `seen` what it read, `wPhone`, `wLink`, `wClosed` its uncommitted writes; `WaitsFor` is PostgreSQL's row locks (strong for a changed number, weak otherwise, KEY SHARE for foreign keys) and the partial unique index; `Commit` publishes, `Rollback` forgets |
| `TariffBook` | tariffs, rates, history and open edit forms, requests one at a time | `CreateTariff`, `EditTariff`, `UpsertRate` with its recalculation, `ImportNew` and `ImportExisting` for a commit of the import, with the tariffs that the refused rows before it have put out of force; money is a whole number with `Column` for the rounding of the `NUMERIC` columns; an edit form holds the token of `updated_at` |
| `TariffSessions` | the same statement by statement | as `PhoneSessions`; creating a tariff out of force is two transactions as in the handler; an import goes on over the rows of its file (`NextRow`): a refused row (`RefuseRow`) neither commits nor rolls back, so that the tariffs it has closed stay locked while later rows close theirs, until a row is created (`CommitRow`), a new dictionary value is stored (`CommitValue`), or the file ends (`CommitTariffs`) |
| `CampaignRouting` | versions of campaign settings and the journal of their events | `ApplyEvent` closes the open version and opens the next for every selected campaign; `announced` is what the newest event of a campaign says; campaigns are moved between servers and GEOs by `UpdateCampaign`, which touches no setting |
| `ServerPriorities` | the priority of a server and its journal | one event for several servers, which skips those that have the route |
| `RoutingEvents` | both kinds of events together | the form's two scopes over the shared routes and GEOs |
| `CampaignSessions` | overlapping campaign events, with campaigns being edited | statement by statement; an event takes its campaigns in the order of the form, looks the version in force up a second time, and closes it or, when it decides what the event wants, keeps it (`KeepVersion`) |
| `EventNotes` | the comments of a campaign's events and of the version in force | an event in five statements, an edit of its comment in five more: read the row, update it, read the version, look for a newer event, write the version; events are ordered by a moment the form gives and may be back-dated |
| `CampaignCards` | the cards of campaigns: number in the dialler, server, GEO | the query for a duplicate, the insert, the forms with `updated_at`, the import's update by number |
| `Accounts` | users, rights, password reset | statement by statement: every write of the handler commits at once, so a request may stop after any of them |
| `LoginThrottle` | sign-in attempts of one username from one client | statement by statement with a clock; a failure is kept by its age |
| `HlrChecks` | a paid check and the counter of its day | read the counter, read the limit, send batch after batch, read the counter again, write it; midnight, failing batches and lost requests at any moment |
| `SpamChecks` | the save of a pasted reply | read the token, lock the numbers, validate, insert the batch, score number by number, commit |
| `RouteImports` | import of routes, rollback of an import, the edit form | every row of an import is a transaction; a rollback is one transaction of a preview and, per route, the deletion of the history and of the row |
| `Dictionaries` | dictionary values, change reasons, the names copied to numbers | the check for a similar name, the write, the linked rename of the copies number by number; the older forms that do not look; the save of a number |
| `Archivarius` | pages of the change log and of a section, the push script | an entry has its id at the insert and is visible at the commit; a run reads, posts and saves its cursor in steps of their own |
| `Cutover` | the import of an old database, the cleanup, the repair at every deployment and the inserts between them | a script works on its own copy of the tables (`script.db`), which its commit makes the database; its steps are those of `run_apply` and `prepare_release_database`; `setval` changes `counter` at once, unless the script has made the sequence itself |
| `OneAtATime`, `Pages`, `Progress`, `MCNumbers`, `MCSessions` | compositions: tariffs, settings of campaigns, priorities of servers and accounts one request at a time; the seven pages beside them and the scripts; the parts that wait; numbers, one request at a time or overlapping; overlapping events and overlapping tariff requests | each follows one component while the others rest, since they change no row in common |
| `PagesProofs` | theorems about the modules that `Pages` composes, about `Pages` itself, and about `LoginThrottle` | a part for each |
| other `*Proofs` | theorems about the module they are named for | - |
| other `MC*` | constants, symmetry and forms for TLC | - |

`PhonePool`, `TariffBook` and `CampaignRouting` are the abstract specifications of
`PhoneSessions`, `TariffSessions` and `CampaignSessions`: the detailed modules
INSTANCE them over the committed tables, use their operators for what a statement
computes, and check those of their properties that survive overlap.
`PhoneSessions` implements `PhonePool` (property `ImplementsPool`) when no two
workers serve requests about one number (`Disjoint`): the run `numbers` checks it
and `DisjointRequestsAtomic` proves it.  When requests concern one number it does
not, which the run `phone_link_race` shows.
`TariffSessions` implements `TariffBook` while the requests in progress are
`Separate`, which is proved (`SeparateRunAsAlone`, [below](#the-proofs)).

A definition under a comment "Fault:" is a wrong variant of the operation that
follows it; substituted for it, it must break a property, which shows that the
property constrains that operation.

Some variables are not in the program.  `announced`, `strikes`, `applied`,
`answered` and `told` remember what was promised.  `superseded`, `doubled`,
`overwritten`, `lost`, `overtaken`, `unguarded`, `unfollowed` and `late` remember
that a certain overlap has happened, and properties except it by name; they are set
from what the requests did, never from whether the property still holds, so
that everything outside the named overlap is checked.

## The runs

Twelve runs; the longest takes about three minutes on two workers.

| run | question | distinct states |
|---|---|---|
| `numbers` | Do number requests that run one at a time keep linked numbers in use, flags in agreement, closings in the history and reactivated numbers in review?  Do overlapping requests about different numbers change the database as if each had run alone (`ImplementsPool`)? | 920,364 |
| `phone_sessions` | What survives two overlapping requests about one number?  Links stay unique (`ActiveLinkUnique`), the flags of a row agree (`FlagsSettled`), and no closing lacks its row of history, nor a row its closing (`ClosingsLogged`). | 2,598,936 |
| `phone_link_race` | (violated) Is a linked number always active and in use when requests overlap? | - |
| `sessions` | What survives overlapping tariff requests?  One tariff in force per key, the history follows, no edit is lost, and requests wait for one another only where an import keeps the locks of refused rows (`DeadlocksExplained`).  What survives overlapping events and edits of campaigns?  One open version, opened as announced and for the campaign as it is then. | 2,027,428 |
| `one_at_a_time` | Run one at a time, do tariffs keep EUR prices and rates right; are settings and priorities what the journal says; does an administrator remain, is the role taken by others only, and is a reported edit complete, whichever commit a request is lost after? | 506,708 |
| `pages` | What survives two overlapping requests on any of the seven pages beside, and any sequence of scripts, failures and inserts? | 3,052,201 |
| `progress` | Does every request end, although two may lock each other's rows; does a lock of the sign-in end; by how much can overlapping sign-ins exceed the maximum? | 62,793 |
| `login_reset` | (violated) Does each lock take three new failures? | - |
| `events_gap` | (violated) Does the feed of the change log have no gaps? | - |
| `import_failure` | (violated) Does a database failure abort the whole import? | - |
| `cleanup_ids` | (violated) Is the id that is given next always free? | - |
| `migration_order` | (violated) Can every old database be imported in the order of the tables? | - |

What `pages` checks, by page:

* HLR (`HlrChecks`): `AnswersCounted` - counters and open checks together hold
  every answered number, and never more, unless a request was lost or a counter
  written over.
* SPAM (`SpamChecks`): `ScoreChain` - the results of a number lead from one score
  to the next and to the present one; `TokenScoresOnce` - a form saved again, also
  while the first save runs, scores once.
* Archivarius: `NothingSkipped` - what is committed up to the cursor has reached
  the relay unless it was overtaken; `SnapshotWhole` - a snapshot has every row
  that was there throughout.
* Routes (`RouteImports`): `RoutesRecorded`, `ImportTakesHold`; that a rollback
  spares what is referred to (`RollbackSpares`) is proved.
* Dictionaries: `NamesApart`, `LabelsFollow`, `ScopesWhole`.
* Campaigns (`CampaignCards`): `NumbersApart`.
* Comments (`EventNotes`): `CommentsFollow` - the version in force shows the
  comment of the event that opened or kept it, if that is the newest.
* Scripts (`Cutover`): `ImportedLinksHold` - whatever the old database said, what
  is linked after the import, and after every later deployment, is active and in
  use; `CommitsLeaveIdsFree` - a script that commits leaves the sequences past
  every id that is taken.

Further configurations, all of them violated (see
[below](#what-the-code-does-otherwise-than-it-says)):

| configuration (module) | property |
|---|---|
| `CampaignSessions_lost_route.cfg` (`MCCampaignSessions`) | `OnlyAsked` |
| `TariffSessions_eur_race.cfg`, `TariffSessions_rate_race.cfg` (`TariffSessions`) | `EurPriceExact`, `CurrentUsesLatest` |
| `TariffBook_import.cfg` (`TariffBook`) | `ImportReplaces` |
| `PhoneSessions_review_race.cfg` (`MCPhoneSessions`) | `ReactivationReviewed` |
| `Accounts_last_admin.cfg` (`MCAccounts`) | `AdminRemains` |

## Bounds

Overlap is between two requests throughout: the code's races are between one
request that has read and another that writes.  What a third request adds is left
to the theorems, which hold for any number of requests.  Two properties have the
form they have because of three requests: `DeadlocksExplained` names, besides the
imports that two requests suffice for, a circle of three in which transactions wait
for one another, and `RenameReaches` of `Dictionaries` allows for a second rename
that has already stored what the first one is about to.

* Numbers: two numbers, two routes, two links with every form that differs in
  a flag - a link closed and opened again, a number on two routes, two numbers on
  one route.  Overlap: in `phone_sessions` two requests about one number on one
  route with two links, in `numbers` two requests about a number each.
* Tariffs: two tariffs, two keys, two currencies, two rates (`RateIds` in order
  of creation), two prices.  Two tariffs of one key, a change of currency
  and a recalculation of several tariffs all occur.  Overlap: one currency and one
  price, and the rows of a file have one rate (`OneImportedRate`); a file has any
  number of rows, one per key between two commits, so that two imports of both keys
  close their tariffs in opposite orders, and an import meets a recalculation.
* Campaigns: two campaigns, two servers (one under overlap), two GEOs, three routes
  of which two share a GEO (two routes under overlap), two versions; an event for
  both servers skips the one that has the route already; ids that run out refuse an event as an
  error would.  `sessions` starts without settings and edits campaigns at
  any moment between two statements.
* Sign-in: a maximum of three (the code's default), a window of four ticks and a
  lockout of two (the code: 900 s and 60 s; the order window > lockout > request
  is what matters), no further request while `MaxRows` = 5 rows are recent.
* Accounts: two users and one request at a time (`Serial`); a request knows its
  own account, another one and nobody else.
* HLR: checks of up to three numbers in batches of two against limits of three
  and two; one midnight; no further request once four numbers were answered
  (`MaxAnswered`).  A check fills the limit, exceeds it, fails in its second
  batch and ends on another day than it began.
* SPAM: two numbers of which one is purchased, one route, two tokens, a score
  that starts at three so that it reaches five; a reply is clear, a mark or a
  contradiction.
* Archivarius: two writers and two runs, pages of one entry, three entries and
  two rows of a section: a run reads a page, is overtaken and reads the next.
* Routes: two names, two ids, files of two rows for one route or two, with a known
  or an unknown provider.
* Dictionaries: two values, three names of which two differ only in case, two
  scopes, one number.
* Campaign cards: two cards, two numbers, two servers, one GEO or several.
* Comments: three events of one campaign, two moments, one scheme and the server
  priority, two comments: an event is newest, back-dated or of the same moment,
  and finds its scheme in force or not.
* Scripts: five tables, chosen so that there are two foreign keys, a table that the
  import converts and one that the cleanup keeps in part; old rows have the id 2
  (`LegacyIds`), so that the number of rows and the largest id differ; sequences
  reach 2 (`LastRowId`), the id of those rows.

The compositions give several constants the same model values, which are permuted
together; two states are identified only if one is a renaming of the other, and
the component that rests has no value in its state that tells them apart.

## Fairness

`PhoneSessions` and `CampaignSessions`: strong fairness of each worker's next
statement, because a statement that waits is enabled and disabled as locks come
and go and PostgreSQL grants locks from a first-in-first-out queue to running
threads; weak fairness of the deadlock victim, because the detector runs after
`deadlock_timeout` and the circle stays until then.  No fairness is assumed of
beginning a request or of losing a connection.  `LoginThrottle`: weak fairness of
each statement (nothing there waits) and of the clock; none of signing in.
`ProgressSpec` conjoins the three.

## The proofs

TLAPS proves, for every value of the constants that satisfies the named
assumptions of the modules:

| module | theorems | the inductive invariant and why it is needed |
|---|---|---|
| `PhonePoolProofs` | `TypeCorrect`, `LinkedPhonesInUse`, `FlagsAgree`, `LinksUniqueAndLogged`, `ReactivationsReviewed` | the conjunction of the properties: a number out of use is kept from being linked because `LinkedPhoneInUse` and the uniqueness of links are known of all links before a request closes some of them |
| `TariffBookProofs` | `BookTypeCorrect`, `LatestRateUsed`, `OneTariffPerKey`, `HistoryRecordsTerms`, `EurPricesExact`, `EditsAreNotLost` | `LatestExists` (the newest rate of a currency is well defined over a finite set of ids), `RateKnown` (a tariff names an existing rate of its currency) and `FormsTrue` (a form whose token is fresh displays the row); `EurPricesExact` assumes that prices are whole units of their column |
| `CampaignRoutingProofs` | `TypeCorrect`, `AtMostOneOpenVersion`, `JournalExplainsRouting`, `RoutesOfTheirGeo`, `EventsChangeOnlyAsked`, `PrioritiesFollowJournal` | `RoutingInv`: besides the properties, that a campaign not yet created has no versions and nothing announced; of the priorities, `PriorityInv`, the property with the types, assuming that the absent row is no row |
| `CampaignSessionsProofs` | `SessionsTyped`, `OneVersionIsOpen`, `AnnouncedIsInForce`, `OpenedForItsCampaign` | `SessionsInv`: two events write different versions (`RowsApart`); a written version stays with its campaign and is not opened again, and of the campaigns still to do only the first may have lost its version (`WrittenRowOK`); a version that was inserted will be the only open one of its campaign (`Opens`): its event closes those that are open, and no other event touches them or opens another, because that one waits for the row or for the index.  `EventsOK`: while an event is uncommitted nobody edits what its version is opened for (`Fits`), and when a campaign is done its event has left the version it decided, or kept a closed one (`Shown`) |
| `AccountsProofs` | `TypeCorrect`, `AnAdministratorRemains`, `AdministrationIsTakenByOthers`, `ReportedEditsAreComplete`, `RegistersRunTheirParts` | `TypeInv` adds that the row a request is about to change exists; `AdminInv` adds that at most one request is in progress and `Checked`, what a request that is about to write has found out: the user is not its own actor and another administrator exists; `EditInv` adds that between two commits of an edit the row has the role and activity of its form.  The three theorems before the last assume `Serial`; without it they are false (`Accounts_last_admin.cfg`) |
| `PhoneSessionsProofs` | `PhoneSessionsTyped`, `LinksStayUnique`, `OverlappingFlagsSettled`, `OverlappingClosingsLogged`, `RowsWrittenByOne` | `SessionsInv`: besides the properties, that no two transactions write the same number or close or insert the same link (`RowsApart`), because each waits for the rows and index entries of the others (`WaitsFor`), and what the next statement of each relies on (`WorkerOK`): the number it is about to write exists, and the link it has inserted is the only one between its route and number |
| | `DisjointRequestsAtomic` | `Ours`: while the numbers a worker serves are served by nobody else, what it read is what the table says and its uncommitted rows are what the action of `PhonePool` would write; its commit is that action, every other statement a stutter |
| `TariffSessionsProofs` | `TariffsTyped`, `SessionsInvariant`, `OverlappingCurrentUnique`, `OverlappingHistoryFollows`, `OverlappingEditsNotLost` | `SessionsInv`: transactions hold different rows and different keys of the unique index (`RowsApart`); an entry in the index excludes every other tariff of its key (`EntryAlone`); an edit that has passed the comparison of `updated_at` holds the row its form displayed (`FormTrue`); the rate a request uses exists (`RateKnown`) |
| | `OverlappingDeadlocksExplained` | `Ordered`: a recalculation locks its tariffs by ascending id, so that of recalculations in a circle the one that holds the largest id waits for none of them; `RowsKeep` and `RowsFew`: a create or an edit holds one tariff, and only an edit that puts one in force waits while it holds a row; an import that waits holds nothing but tariffs closed by earlier rows (`Carries`).  A circle without such an import therefore has such an edit and two recalculations |
| | `SeparateRunAsAlone`, `SeparateUseLatestRate`, `SeparateKeysUnique`, `SeparatePricesExact` | `AloneInv`: while nobody else's request deals with its keys and no other uploads a rate of its currencies, what a request has read is what it would read now (`RateLatest`, `InsertReady`, `OffReady` and one invariant for each request: `CreateAlone`, `EditAlone`, `UpsertAlone`, `ImportAlone`) and its uncommitted rows are those `TariffBook` would write |
| `PagesProofs`: Archivarius | `FeedTypeCorrect`, `OnlyOvertakenSkipped`, `SnapshotsAreWhole` | `FeedInv`: ids are given out in order to one transaction each, nothing up to the saved cursor is still to be inserted, and the same holds of the cursor of each run in progress with the page it is about to post.  `Gathered`: of the rows that were there throughout, a snapshot in progress has those up to where it is |
| SPAM | `SpamInvariant`, `FormsScoreOnce`, `ScoresFollowResults`, `FullScoreRaisesFlags` | `SpamInv`: two saves in progress lock different numbers and have different tokens once inserted; `Current`, what a save has computed starts from the scores and flags in force; every logged token is a batch |
| routes | `RouteInvariant`, `RoutesKeepTheirHistory`, `RollbacksSpareReferenced`, `EditsReplaceWhatTheyShow` | `RouteInv`: a route has a history; two rollbacks clear different routes; `Knows`, what a rollback has cleared and deleted is unreferenced and stays so because it holds the rows; a fresh edit form displays its row |
| | `ImportsTakeHold` | `HoldInv`: of the rows that an import has left behind, those whose route nobody else has touched are in force |
| dictionaries | `SimilarNamesUnguarded`, `CopiedNamesFollow`, `LinkedRenameReaches`, `ScopesReplacedWhole` | `DictInv`: besides the properties, that a save which has looked for a similar name finds none until its commit or is marked `late` (`ValueOK`), that a rename in progress keeps others from the value and the numbers it has renamed (`SavesApart`), and that the save of a number stores the name in force or is marked `outdated` (`PhoneOK`) |
| campaign cards | `NumbersStayApart`, `EditsLogWhatTheyReplace` | `CardInv`: two tasks never write one row (`WritersApart`); the number of a creation is free until its commit or the creation is marked `late`, and a form that is fresh displays its row (`TaskKept`) |
| comments | `CommentsFollowEvents` | `NotesInv`: two events that are being stored have different ids, and an edit that is about to commit has found the version that its event opened or kept, unless a later event has made it somebody else's (`ActOK`) |
| scripts | `ImportedNumbersInUse`, `SequencesPastIds` | `CutInv`: links refer to numbers in use in the database and in the copy of the script (`Sound`, `LinksHold`), and what each step of the script has done holds of its copy until the commit (`ScriptSound`) |
| HLR checks | `ChecksCountedOnce` | `HlrInv`: there is a count for each day, what the counters would be had none been written over, that they stay behind (`Behind`); with the checks still to be recorded it makes up what was answered |
| sign-in | `OverlapsBounded` | `ThrottleInv`: the recent failures of an active account and the requests that were let through are together fewer than the maximum and one for each request that may overlap |

`CampaignSessionsProofs`, `PhoneSessionsProofs`, `TariffSessionsProofs` and
`PagesProofs` are about overlapping requests, any number of them.  An action
property (`[][A]_vars`) follows from the same invariant, one step per action.
Lemmas state once what the operators return (`SavedType`, `RowWriteType`, ...) and
are cited by name.

`SeparateRunAsAlone` is a refinement, `TariffSpec /\ []Separate => Alone!Spec`, where
`Alone` is `TariffBook` over the committed tables.  `Separate` asks of two requests
in progress that they have no key (country, provider, prefix) in common and, if one
of them uploads a rate, no currency either; an import concerns the keys and the
currencies of the tariffs it has closed and not yet committed as well as those of
the row it has reached (`Concerned`).  Each request is then one step of
`TariffBook`, at its commit, and an import one step for each commit it makes
(`ImportNew`, `ImportExisting`), which closes what the refused rows before it
closed.  A tariff that is created out of force is the exception
in the code: `create_tariff` commits it in force and `set_tariff_active` switches it
off in a transaction of its own.  The refinement mapping (`VisibleTariff`, `VisibleLogged`) leaves such a tariff
out until the second commit; it is the only respect in which separate requests show
more than the one-at-a-time specification has.  The theorems of `TariffBookProofs` are
then cited for the overlapping requests and carried back to the tables themselves.
That `Separate` cannot be dropped is what the configurations
`TariffSessions_rate_race.cfg` and `TariffSessions_eur_race.cfg` show.

Theorems are about the components, and carry over to the compositions:
`PagesRunTheirParts` and `RegistersRunTheirParts` prove that a behaviour of `Pages` or
`OneAtATime` is a behaviour of each component in it.  Of accounts this is so when they
are followed; at rest they have more administrators than a deployment leaves.

The assumptions are on the representation of what is absent (`None`, `Absent`,
`Nil`, "unborn" and the external number "none" are no rows, names or numbers of the
database), on bounds (naturals, not zero where the code divides or compares with
one), on foreign keys of the constants (a route has a GEO), and on sets of ids,
campaigns and, for HLR checks and the sign-in, requests being finite, which is
needed for what is counted or for the largest of them.

Every safety property that a passing run checks, invariant or action property, is
thus a theorem too.  Only model-checked are the two liveness properties, `RequestsEnd` and
`LockEnds`: they rest on fairness, hence on ENABLED, of which TLAPS proves nothing.
Of the compositions that exist for a run only (`MCNumbers`, `MCSessions`, `Progress`),
which let one component move while the others rest in the same way, nothing is proved.

## What the code does otherwise than it says

With a run in `PROJECT.json`:

* `phone_link_race`: `add_phone_to_route` reads the number without a lock and
  promotes it by id; a deactivation that commits in between leaves an active link
  on an inactive number.
* `login_reset`: `login_lock_remaining` (`security.py:122`) answers "not locked"
  before it clears a lock that ran out, when the oldest failure has left the
  window.  The other two stay, and one wrong password locks again.
  `tests/test_security.py:20` describes a lock of one minute "then reset".
* `events_gap`: an entry of the change log that commits after a later id was
  exported is never exported (`archivarius.py:241`); the documentation promises
  polling "without gaps or duplicates" (`docs/archivarius_api.md:62`).
* `import_failure`: every row of an import is committed by the repository, so the
  rollback after a database failure (`importer.py:197`) undoes one row; the comment
  above it says "Abort the whole transaction".
* `cleanup_ids`: `setval` is not undone by a rollback.  A cleanup that fails after
  `_reset_identities` (`prepare_release_database.py:79`) keeps its rows while their
  ids are given again, and inserts are refused; the test
  `test_injected_failure_rolls_back_everything`, which fails it there, compares rows
  only.
* `migration_order`: priorities are imported before the provider changes they
  reference (`migrate_sqlite_to_postgres.py:33` and `36`, foreign key
  `fk_server_route_priorities_log`), so that an old database with such a change is
  refused, although the dry run reports "Ready for --apply."

With a configuration of the table above:

* A recalculation writes EUR prices computed from prices it read before
  (`repository.py:2246`); a concurrent edit keeps the new price with the EUR
  price of the old one (`EurPriceExact`).  Handlers read the latest rate before
  their transaction, and rates are ordered by the start of theirs
  (`CurrentUsesLatest`).
* Two events for one campaign, one setting a route, one enabling autorotation:
  the later undoes the earlier, since it writes the state it read
  (`repository.py:3253`, `OnlyAsked`).
* Of two overlapping edits of a number the one that switches it on may have read
  it as active and skip the review (`ReactivationReviewed`).
* The import closes the tariff in force before the replacement is validated; the
  refused row is reported, the closing stays (`importer.py:745`, `ImportReplaces`).
  It neither commits nor rolls back there (`importer.py:188`), so that row locks
  accumulate in the order of the file: two imports of the same tariffs in opposite
  orders, or an import and a recalculation, can deadlock, and one of them ends with
  an error (the exception of `Carries` in `DeadlocksExplained`).
* Two administrators who switch each other off at the same time both count one
  other (`server.py:10081`); none remains, although the message reads "Нельзя
  отключить последнего активного администратора." (`AdminRemains`).

As a named exception of a property that is checked:

* An event that finds its decision in force keeps the version and writes its
  comment to it (`repository.py:2890`), although another event may have closed it
  since; the journal then announces what is not in force (`superseded` in
  `OpenedAsAnnounced`).
* Two campaigns created together may get one external number (`doubled` in
  `NumbersApart`): the unique indexes have the server and the GEO in their keys.
* Two dictionary values saved together, or by the older forms of GEOs, which do not
  look (`server.py:10405`), may have names that differ in case only (`unguarded` in
  `NamesApart`).
* A number whose form read the name of its GEO before a linked rename committed
  stores the old name (`unfollowed` in `LabelsFollow`).
* The daily HLR counter is read and written back as a number; of two checks
  that end together one is not counted (`overwritten` in `AnswersCounted`).

Seen while modelling; a module may state it, no run checks it:

* A campaign that is moved to another server or GEO keeps its open version of the
  old one (`SettingMatchesCampaign` of `CampaignRouting`).
* A price below half a unit of its column is accepted as positive and stored as
  zero (`repository.py:251`, `PricePositive` of `TariffBook`).
* A version may show the comment of no event: an edit of the newest event's comment
  is taken to a version that another, back-dated event opened
  (`CommentsOfEvents` of `EventNotes`).
* `docs/postgres/security_gate.md:21` gives the throttle's defaults as five
  failures and a 15-minute lockout; `security.py:85` has three and 60 seconds.
* The edit of a user with a refused new password reports an error and keeps the
  edit (`server.py:10086` commits before `server.py:10097`).
* Creating a user with an existing login reports success, changes nothing of the
  user and replaces that user's rights (`repository.py:436`, `server.py:10066`).
* The notification of an event is sent after the commit (`server.py:10323`); a
  process that stops in between loses it.
* The connection of a request is opened before the block that closes it
  (`server.py:10855`); an error while the user is looked up leaves it open.

## Not modelled

* Text: comments other than those of events, wording of messages, spelling of
  numbers and of CSV columns.  Statuses of numbers are kept with every spelling
  the normalisation knows.
* Tariffs: `valid_from`, comments, prefixes other than as part of the key; rates
  are whole numbers; a row of a CSV import that is refused for its price or its
  spelling is left out unless its key has a tariff.
* Events: `routing_mode` (derived from route and autorotation), activity flags of
  servers, the scope without a choice, which the form refuses.
  `update_server_route_priority`, `deactivate_routing_event`,
  `update_company_routing_setting_comment` and `create_provider_change` are never
  called by the application, so that no state of it contains their effects.
* Campaigns: line counts, intervals and comments.
* Accounts: usernames are fixed, authorisation is read in one step, the matrix of
  sections is "by role", "custom with" or "custom without" writing to the
  administration.  A cookie is valid while its user is active; its signature and
  attributes are left out.
* Throttle: one identity; the activity of the account does not change; a request
  takes less than a lockout.
* HLR: the balance, the demo mode and badly formatted numbers, none of which is
  counted.  SPAM: the spelling of a reply; its lines are the marks of a number.
* Routes: columns other than name and provider.  Naming rules only propose a name.
* Dictionaries: activity flags, and those whose labels are found by name.
* Importer: the preview, its report and the parsing of CSV.  The report of a bulk
  form.
* Archivarius: the shape of the items and the API token; of the four sections,
  which are read alike, one is followed.
* PostgreSQL itself, from which the modules take row locks, unique indexes, the
  visibility of commits and the choice of a deadlock victim; these definitions are
  marked external.
* Scripts: the conversion of values other than the status of a number, dry runs and
  reports, the creation of the schema, migrations other than the one that repairs
  numbers and links; a selection of tables (`--tables`).
* Telegram, pages, CSV export, the database adapter, harnesses and smoke tests, with
  the reasons in `PROJECT.json`.

The map covers about a sixth of the implementation, and nearly all of what changes
state.  The rest is not a state machine: most of the 11,200 lines of `server.py` are
HTML, CSS and JavaScript, about 1,400 lines of `repository.py` are the queries,
snapshots and summaries of pages, and most of the 8,500 lines under `scripts/` are
harnesses, smoke tests and the upgrade of older SQLite files.

## Where to go on

* The steps of `CampaignSessions` mapped to `CampaignRouting` for requests about
  different campaigns, as `DisjointRequestsAtomic` does for numbers and
  `SeparateRunAsAlone` for tariffs.
* `LinkedPhoneInUse` under overlap, if `add_phone_to_route` locked the number it
  reads: the counterpart of the run `phone_link_race`.
* A run with three users that reaches the circle of an edit and two recalculations
  that `DeadlocksExplained` names.
* Naming rules, of which one is active.
