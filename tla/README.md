# urban.monitor in TLA+

urban.monitor follows the meetings of the urban planning commission (CTATU) of Cluj-Napoca and the
city's urbanism certificates: a task of the server (or `urban sync` on the command line) reads the
city's pages every few hours into one SQLite database, people search it on the web, and accounts
receive mails about the keywords they hold. Parsing and rendering are most of the code; what can go
wrong in ways a test hardly reaches is elsewhere: several requests, the sync task and a second
process share the database without sharing a lock, downloads and mails fail one by one, a restart can
fall between any two statements, and row ids are used again. That part is modelled here.

Paths below are those of the repository; `accounts.rs`, `alerts.rs`, `db.rs`, `sync.rs`, `agenda.rs`,
`notify.rs` are in `crates/core/src`, `client.rs` in `crates/core/src/scrape`, `account.rs`, `jobs.rs`,
`query.rs` in `crates/app/src`, `text.rs` in `crates/shared/src`, `requirements.md` in `docs/spec`, the decision
records in `docs`; `privacy.rs` in `crates/app/src/ui`.

## Inventory

| Component | State | Operations | What makes it correct |
|---|---|---|---|
| accounts, keywords, credits (`accounts.rs`) | tables `users`, `keywords`, `credit_ledger`; a `User` in the hand of each request | find_or_create_user, user, user_by_session, users_with_keywords, ensure_cycle, add_keyword, delete_keyword, delete_user | two credits a year, one per keyword added, none back; ledger keys never collide; a deleted account leaves nothing to the next with its row id |
| sign-in links, sessions (`accounts.rs`, `account.rs`) | `magic_links`, `sessions` | login, verify, logout, current_user, delete_account, sweep_expired | a link works once, one link per address per two minutes, a session lasts and belongs to an account |
| certificate list sync (`sync.rs`) | `certificates`, `meta` (backfill year, resume page) | sync_certificates | every certificate from the start year on is kept, a walk of 310 pages survives interruptions |
| certificate pages, HTTP client (`sync.rs`, `client.rs`) | `certificates.detail_fetched_at`, `certificates_fts`; the time of the last request of a process | sync_certificate_details, write_certificate_detail, get_bytes, throttle | each PUZ/PUD page is fetched once, failures get their turn again; one request a second; the index shows the row |
| meeting sync (`sync.rs`, `agenda.rs`, `db.rs`) | `meetings`, `items`, `documents`, `agenda_rows` | run_inner, process_meeting, match_rows, write_meeting | rows and projects are linked one to one, projects show their row, nothing known is forgotten, documents are fetched |
| agenda text (`agenda.rs`) | the rows in the making | parse_agenda, split_nr_reg, assemble | numbers glued together are told apart; a row is read whole and nothing else with it |
| keyword alerts (`alerts.rs`) | `users.alerts_checked_until`, `alert_log` | run_keyword_alerts, find_matches, send_keyword_digest | every match is mailed, once, to the account that holds the keyword |
| meeting alerts (`notify.rs`) | `meetings.alerted_at` | alert_new_meetings, mark_alerted | each meeting is alerted once, late rather than never |
| jobs and command line (`jobs.rs`, `bin/urban.rs`) | `sync_running`, the full-sync marker, `sync_runs` | spawn, run_once, take_full_sync_marker, start/finish_sync_run, close_stale_runs | one sync at a time in the server, every run is closed with its outcome, a marker counts once |
| search (`db.rs`, `query.rs`, `ui/home.rs`, `ui/certificates.rs`, `api/handlers.rs`) | `items_fts`, `certificates_fts`, `agenda_rows`; a query string | the forms, the pager, search, search_certificates, reindex_item | the query asked is the one meant; paging shows all; rows of an agenda are found |
| classification and addresses (`text.rs`) | none | classify, classify_scop, parse_work_address, street_of | what is read does not depend on how it was written |
| storage (`db.rs`) | the SQLite file, a pool of 8 connections | the writes and reads of all of the above | each write is one transaction |
| HTML parsers, PDF extraction, normalisation, other web pages and API answers, configuration | none, or per call | reads, string functions | tested by examples and fixtures |

How they interact. Everything meets in the database: WAL mode, foreign keys on, busy timeout of 5 s, and
`BEGIN DEFERRED` transactions that start with a SELECT, so that a transaction works on a snapshot and
its first write fails once another connection has committed. Web requests run their database work on
blocking threads (`account.rs:101-118`), so two of the same visitor overlap. The server's only task
(`jobs.rs:42-47`) syncs, sends the meeting alerts, then the digests, and sleeps; `urban sync` and
`urban notify` are other processes with the same file, which the flag `sync_running` does not see. The
mailer and the city's site are calls that may fail, or succeed without an answer.

The hard behaviours, each at its line, are the `hazards` of `PROJECT.json`.

## Plan

The money and the promises to users first, then what feeds them, then the functions of text they rest on;
each component with its proofs as soon as TLC agreed with the invariants:

1. `CreditPlan`, `Accounts`; `AccountsProofs`: credits, and the plan they implement.
2. `CertificateSync`, `CertificateSyncProofs`: the walk of the list.
3. `Login`, `LoginProofs`: links and sessions.
4. `KeywordAlerts`, `KeywordAlertsProofs`: the digest. It takes accounts and keywords from `Accounts` and
   entries from the two syncs, reduced to what the window of an account is compared with.
5. `MeetingSync`, `MeetingSyncProofs`: one meeting.
6. `Jobs`, `JobsProofs`: who runs when, and the alert of the meetings.
7. `CertificatePages`, `CertificatePagesProofs`: the pages and the HTTP client.
8. `Search`, `SearchProofs`: from the form to the statements, while a sync writes.
9. `Texts`, composed of `Classification`, `WorkAddress` and `AgendaText`: what the program reads of what was
   written. What is proved of it is in `MeetingSyncProofs`, whose runs read agendas.

Left, in order of worth: liveness of `MeetingSync` (documents whose page failed are fetched while the meeting is
recent); the pool of connections (`accounts.rs:250`).

No module declares a RECURSIVE operator.

## Modules

**Accounts.** A thread is a request, the digest, or the command line. Each transaction is two actions:
`...Begin` takes the snapshot and keeps what it read, `...Commit` writes, which needs the snapshot to be
current (`SnapshotHolds`, the set `fresh`). A `User` value outlives its read: `ReadUser` and `ReadHolders`
put rows in the thread's hand, `KeepCycle` or `RotateBegin`/`RotateCommit` (ensure_cycle) work on them
later, when the row may have been rotated, deleted or replaced by another account with the same id
(`NextRowId`: INTEGER PRIMARY KEY without AUTOINCREMENT). `now` in ensure_cycle is any moment since the
row was read. The ledger is kept as the set of its idempotency keys. `Abandon` is every error, refusal and
restart.

**CreditPlan.** The promise: open, charge, drop, renew after a year, close; no threads, no ledger, no
transactions. `Accounts` maps to it by `Plan`: the open accounts are the live rows, `used`, `end` and the
keywords held are read off the tables.

**Login.** Nothing here is a transaction, so every SQL statement is an action: `AskLink` counts and
`CreateLink` inserts, `ReadLink` selects and `MarkLink` updates, `SignIn`, `OpenSession`, the two deletes
of the sweep. `inbox` is the links that reached a mailbox. Tokens, hashes and cookies are left out; the consent
to open an account is modelled in `Accounts`, here its absence is an `Abandon`.

**CertificateSync.** One action per step of the loop of sync_certificates: `Begin` (which kind of run),
`ReadResumePage`, `FetchPage`/`EmptyPage`, `Store`, `SavePage`, and at the end `MarkYear` and `ClearPage`, which
the code does in two statements. The site lists certificates newest first and publishes on top.
`walk` and `covered` are history. `walk` belongs to the resume page, over all runs that take it up: the newest certificate
when the walk began (`newest`), and those its pages left out as older than the start year of the run that read them
(`passed`); the rest it owes (`Owed`). `covered` is what a walk that ended uncut owed of the year it noted and after.

**KeywordAlerts.** The sync task goes `asleep` → `syncing` (`BeginWrite`/`CommitWrite`: `first_seen_at` is taken
at the beginning of a transaction) → `ListUsers` → for each account `TakeUser`, `FindMatches`,
`Send` or `FailToSend`, `LogAlert`, `Advance`. The row in hand (address, window) is that of the list, the
keywords are read when its turn comes. Between any two steps accounts open, close and change keywords, the
command line writes, an error or restart (`Stop`) ends the digest. An entry may be written again by any later sync, with
more words, fewer or others, and a certificate with another date: only `first_seen_at` stays (`Upserted`). `mailed` and
`settled` are history, and of an entry who wrote it first (`by`) and the words by which a digest could have found it
at any moment since (`always`).

**MeetingSync.** `Begin` (selection and meeting_summary), `FetchPage`, `ReadAgenda`, `FetchDocuments`, `Write`.
Each download fails or not by a choice of its own; `Write` is write_meeting with its COALESCEs.
`Match` is match_rows: the candidate pairs from the best to the worst, each taken when row and card are free; a
function over the sets of pairs that are left, so that it can be reasoned about.

**Jobs.** The server starts (`StartServer`: close_stale_runs, the flag down, a delay), then in each round takes
the marker, syncs under `sync_running`, alerts and sleeps; `urban sync` and `urban notify` run next to it. A sync
is the listing, the choice of the meetings to process, their rows, and the end of its row in `sync_runs`; an alert
is the selection, one mail, and one `mark_alerted` per meeting. Mails fail, or leave although their answer is lost;
every step may be an error or a stop. `TypeOK` includes what the flag means (`FlagIsOfTheSync`): in a server that runs it is
up exactly from the start of a sync to its end; one that starts lowers it, since it is in memory. `mailed`, `excused`, `granted` and `ended` are history.

**CertificatePages.** A run selects the newest pages it lacks up to `MaxDetails`, and for each asks (`throttle`,
then up to `MaxAttempts` requests with doubled pauses), then writes row and index; a page that cannot be had is
skipped. Time passes by `Tick`s of a second and a process keeps what is left of its pauses, so that no clock grows.
The list is read at the same time and may change the kind of a certificate. `asked` is history.

**Search.** A visitor asks by form, link or API call, the parameters go through the query string (`Show`,
`SearchParams`), the database counts and selects in two statements, and the pager leads to the next page through the
query string again; syncs commit between any two of these. A text is a set of words; whether a word matches is left to
SQLite. `wanted`, `owed` and `torn` are history: what was meant, what the visitor still has to be shown, and whether a
commit fell between the two statements. A page of results is the hits whose rank (how many come before) is within
LIMIT and OFFSET. The last value of a repeated key counts, except of `tip`, whose values are collected.

**Classification, WorkAddress, AgendaText, Texts.** Functions of text, as operators on words, segments and lines
rather than characters; the comma and the dash of an address are words too. `Texts` is the writer they are checked against: it composes titles and purposes word by word,
addresses with street, number and the way they are written, and an agenda line by line (letterhead, heads of
columns, rows whose number is glued to the registration number or not, rows that the extraction lost, words over the
ends of lines and sheets, the signature), and feeds each line to the parser.

The MC modules hold the values of constants that a `.cfg` cannot write.

## Runs

All runs but `texts` check deadlock; there a text ends.

| Run | What it checks | Bounds, and why they are enough |
|---|---|---|
| accounts | `TypeOK`, `CreditsCoverKeywords`, `NothingInherited`, `DebitKeyUnused`, `NoRefund`, `PlanHolds` (refinement of CreditPlan) | 2 threads race for the last credit and rotate twice; one user row for two addresses, so its id is used again; 3 keyword rows; years of one tick, so that whole years are skipped. Two live accounts with two threads are out of TLC's reach here; accounts only meet in the batch of the digest and in row ids, and the proofs cover any number |
| accounts_reset | `ResetsReachCounters` fails | as above |
| certificates | `TypeOK`, `ResumeSkipsNothing`, `WalksCoverHistory` | 2 overlapping runners, pages of 2, a list that grows from 5 to 7, so the last page moves and is cut by `MaxPages` = 3; 2 start years, so that the year is lowered or raised between the runs of a walk; empty answers |
| certificates_live | `WalkIsFinished` | 1 runner, list of 4 to 6, interruptions without limit |
| login | `TypeOK`, `ThrottleHolds`, `SessionsHaveAccount`, `SessionsLast`, `UsedLinkIsDead` | 2 requests, one address (links of different addresses never meet), 3 links, 2 sessions, 4 ticks: throttle and link live 1, sessions 2, sweep after 1 more |
| keyword_alerts | `TypeOK`, `NothingMissed`, `NoRepeat` | 2 addresses and 2 user rows: an id is used again during a digest, and a digest goes on to a second account; the server and one command line; one certificate, issued in or out of the window, which needs no second: entries meet only in one mail, and the proofs cover any number; 3 seconds, enough for a failed digest and its retry, with the certificate written again in between, with or without the word |
| meetings | `TypeOK`, `LinkedItemShowsItsRow`, `AssignmentIsBest` | 2 overlapping runners, an agenda published twice, 2 rows, 2 cards, score tables with ties, contention and a row that no free card suits |
| meetings_agenda | `RowsAreOfTheAgenda` fails | 1 runner |
| jobs | `TypeOK`, `MarkedIsMailed`, `OutcomeIsRecorded`, `AlertedOnce`, `MarkerIsForOneRun`, `UpcomingIsAlerted` (liveness) | the server and one command line, one meeting that is moved, three days, one marker at a time; that marks are set meeting by meeting after one mail about all of them is covered by the proofs |
| certificate_pages | `TypeOK`, `ProcessIsPolite`, `IndexShowsRow`, `FetchedForGood`, `PagesAreFetched` (liveness) | the server alone with 3 certificates and a cap of 2, so that one waits for its turn; 3 attempts as in the code; a delay of one second. Two processes are out of TLC's reach here; the proofs cover any number |
| search | `TypeOK`, `AnswersWhatWasAsked`, `PagerShowsAll`, `RowsAreFound` | one visitor (visitors do not change anything), one word, 2 meetings with 2 projects that both may list, agendas of a row, 3 certificates whose page adds a word, pages of one, so that one can be added above while another is still owed; a `tip` known, unknown or repeated |
| texts | `WritingDoesNotMatter`, `AddressIsRead`, `NumbersAreRead`, `RowsAreReadWhole` | titles and purposes of 5 words, of which the abbreviation must be among the first `Leading` = 3 (6 in the code), so that "P.U.Z." takes all of them; every way of writing an address, with all sequences of up to three words for the kind of street, two names (of one word and of two) and two numbers; agendas of 22 rows, past the change to two digits, with up to 8 rows lost in a row and registration numbers that begin like a row's |

What the properties say is in the comment above each of them. In short: under any
interleaving, failure and restart the model has, an account never holds more keywords than it paid for,
is renewed at most once per elapsed year and inherits nothing from an earlier account with its row id; a
walk of the certificates resumes without skipping anything and ends, and unless it was cut or its start year lowered
on the way it has stored its history; a used link opens no second session except for clicks that
overlap; the alert window never passes an entry the server stored that has matched ever since without a mail, and nothing
is mailed again after the window moved; linked rows and projects agree; no meeting is marked as alerted without its mail,
and one that stays upcoming is alerted in the end; a process asks the city's site at most once a second, and every page gets
its turn; the database is asked what the visitor meant, and paging shows all of it; the program reads what was
written. Where overlap weakens
a promise of the docs ("at most one link in two minutes", "a token works once"), the property
is stated up to the overlap and says so.

Every property of a passing run has a mutant in `PROJECT.json`: a plausible wrong version of one definition (they
stand before the definition they replace, marked "Mutant") that breaks it.

**Fairness.** Three runs assume some, always of the server and never of the command line, the city or a visitor.
Its task goes on for ever (`jobs.rs:43-47`), and systemd starts it again (`deploy/urban.service`).

- `certificates_live`: weak fairness of `Begin`; a step may fail any number of times (the site, the
  database, a restart) but, whenever it keeps being reached, goes through at some point, hence strong fairness of each
  step of that runner. That new certificates stop being published (`MaxListed`) is a bound, not a claim about the city.
- `jobs`: weak fairness of the server's steps taken together, and its failures cease at some point
  (`<>[][~Fails(Server)]_vars`): a server whose every mail fails alerts of nothing. The command line may fail and
  interfere for ever.
- `certificate_pages`: time passes, weak fairness of the server's steps, and its interruptions cease; the pages themselves may
  come and go for ever, and `PagesAreFetched` is about those that stay.

**Bounds.** Besides those of the table: clocks, days, row ids and numbers of links, sessions and markers end at the
`Max...` constants, in the guard of the action that would pass them. `MAX_CERT_PAGES` is 2000 in the code and
`MaxPages` = 3 here, `MAX_DETAILS_PER_RUN` is 300 and `MaxDetails` = 2, so that both are reached. The LIMIT 200 of the
digest's queries and the LIMIT of the agenda rows of a search are not.

## Findings

Shown by a run:

1. `ensure_cycle` inserts its ledger rows even when its UPDATE matched nothing (`accounts.rs:286-314`). Two
   readers of an account, one just before and one just after a year boundary, leave a reset the counters
   never saw. The rotations that follow meet their own key and fail until the next year boundary, when
   `accounts.rs:273-276` computes another start and with it another key. For at most that cycle the account is locked out,
   and with it fails every digest, which rotates all accounts before the first mail.
2. When a republished agenda fails to download once, its link is stored beside the old text, and it is taken as
   read from then on.

Disagreements of code and docs seen while modelling, without a run of their own:

3. An empty page in the middle of the certificate list is taken for its end (`sync.rs:232`), and the history is noted
   as read ("parcurs complet", `sync.rs:23`). `WalksCoverHistory` leaves such walks out (`cut`).
4. A walk taken up with a lower start year resumes behind the page on which the earlier run reached its own
   (`sync.rs:208`), whose older certificates that run had left out (`sync.rs:242`), and notes the lower year all the same
   (`sync.rs:265`, "parcurs complet" in `sync.rs:23`). They are missing until a sync with `--full`. It takes a stop between the
   page being saved and the year being noted: a run from year 2 on reads the last page, leaves out certificate 1 of
   year 1, saves page 4 and stops; the next, from year 1 on, resumes at page 4, finds it empty and notes year 1.
   `ResumeSkipsNothing` and `WalksCoverHistory` leave those certificates out (`passed`).
5. A run outside a walk that fails after its first page of new certificates hides those of the second: the next run
   finds nothing new on the first page and stops (`sync.rs:253`; `requirements.md:155`).
6. Deleting an account leaves its address in `magic_links` until the sweep (`accounts.rs:465`;
   `privacy.rs:27` says at once).
7. Words a project or certificate gets later (the beneficiary, once the agenda can be read; the fields of a
   certificate's page, always a run later) are never alerted: the window has passed its `first_seen_at`
   (`db.rs:638`, `db.rs:969`; `requirements.md:141-143`).
8. An entry whose text or date is replaced between a mail that failed and its retry (`db.rs:636-648`, `db.rs:777-786`, indexed
   again at `db.rs:680` and `db.rs:805`) matches nothing at the retry, so the window moves and the entry is never mailed
   ("fereastra nu avansează și se reîncearcă", `alerts.rs:6-7`). `NothingMissed` is about the words by which an entry could be
   found ever since it was stored (`always`), which leaves out both kinds.
9. A plan spelled out counts wherever it stands, so "conform plan urbanistic zonal aprobat" is filed under PUZ, while
   "conform PUZ aprobat" is not (`text.rs:246-251`; `text.rs:210-213`, `requirements.md:162-163`).
10. The pause between two requests is per process: `urban sync` next to the server asks twice as often as
    `requirements.md:184` allows (`client.rs:106`).
11. As many PUZ/PUD pages that cannot be had as the cap of a run keep all older ones from being asked for (`sync.rs:38`,
    `db.rs:821`); `PagesAreFetched` supposes fewer.
12. COUNT and SELECT of a search are two statements without a transaction (`db.rs:923-938`): a commit between them may
    suppress the link to the next page (`torn` in `PagerShowsAll`).
13. Results are ordered by date and id, not "apoi după relevanță" (`db.rs:930`; `requirements.md:83`).
14. A project that two meetings list keeps the words of one agenda row, so the other row leads to it but is not found by its
    words, neither by the project nor among the rows without one (`shared` in `RowsAreFound`).
15. Two projects can show the same registration number (a row moves to a better card, COALESCE keeps it on the former one).
16. An entry of `urban sync` that commits after the digest has passed its `first_seen_at` is in no digest; when a row id is
    used again in the middle of a digest, the mail goes to the former address with the new account's matches.
17. A meeting of today is past for the list of meetings (`db.rs:376`) and still upcoming for the alert (`db.rs:986`).

Limits of the text functions met while stating their properties: a street whose name has a number ("21 Decembrie
1989") loses its name, and "Str X f.nr." in one segment gives the street "X f"; a registration number of six digits
on a row without its own number loses the digits that look like the number expected (`agenda.rs:144`); a line
that begins with "primar" ends the table (`agenda.rs:54`); a purpose that names two plans may be filed under either,
depending on how the first is written. `Texts` writes none of these.

## Proofs

Each module of theorems belongs to one component (that of meetings to two) and proves properties that its run checks on a small instance; TLAPS
proves them for every value of the constants that satisfies the component's assumptions (`...Assumption`, evaluated by
TLC on every run).

| Module | Theorems | What they need beyond the types |
|---|---|---|
| AccountsProofs | `TypeCorrect`, `CreditsCover`, `NothingIsInherited`, `NoRefunds`, `DebitKeysAreUnique`, `AccountsKeepThePlan` (refinement) | `CreditInv`, `LedgersHaveOwner`, `CyclesInv`, `NumberedInv`, `PlanInv` |
| CertificateSyncProofs | `TypeCorrect`, `NothingIsSkipped`, `HistoryIsCovered` | `WalkInv` |
| LoginProofs | `TypeCorrect`, `SessionsKeepAccounts`, `LinksWorkOnce`, `SessionsOutliveTheSweep`, `ThrottleIsKept` | `LinkInv`, `ThrottleInv` |
| KeywordAlertsProofs | `TypeCorrect`, `NothingIsMissed`, `NothingIsRepeated` | `WindowInv`, `RepeatInv` |
| JobsProofs | `TypeCorrect`, `MarkersCount`, `OutcomesAreRecorded`, `MarkedAfterMail`, `AlertsAreNotRepeated` | `TypeInv`, `AlertInv` |
| CertificatePagesProofs | `TypeCorrect`, `IndexAlwaysShowsRow`, `ProcessesArePolite`, `FetchedStays` | `Tables`, `Pauses` |
| MeetingSyncProofs | `TypeCorrect`, `LinkedItemsShowTheirRow`, `AssignmentsAreBest`; of `Texts`: `RowNumbersAreRead`, `AgendasAreReadWhole`, `WritingIsIrrelevant`, `AddressesAreRead` | `Typed`, `MatchIsBest`; `ReadingInv` |
| SearchProofs | `TypeCorrect`, `AsksWhatWasMeant`, `PagerSkipsNothing`, `RowsOfAgendasAreFound` | `VisitsOK`, `TablesOK`, `PagerOK` |

**Accounts.** `CreditsCoverKeywords` is not inductive: it says nothing of what open transactions carry. The invariant
`CreditInv` adds to it and to `TypeOK`

- `SnapshotsCurrent`: what a transaction whose snapshot is still current has read (keywords held, balance,
  existing account) is what the tables say. This is where `fresh` earns its place: any commit empties it, so
  every action that changes a table has nothing to show for it, and `Begin` establishes it for its thread;
- `KeywordsHaveOwner`: keywords refer to live accounts, so that a new account starts with none.

The step lemmas follow the actions: a commit of `add_keyword` raises `Held` and `used` by one, from a balance of at
least one; `RotateCommit` either leaves the counters (stale row) or sets `used` to the number of keywords held,
which the invariant before the step bounds by `Credits`, so that `min` does not cut; deletions only shrink `Held`.

`NothingInherited` follows from `KeywordsHaveOwner` and its counterpart `LedgersHaveOwner`: `RotateCommit` and
`AddCommit` insert ledger rows for live accounts only (foreign key) and keep their account alive, `DeleteUser`
removes them with it.

`NoRefund` needs `CyclesInv`: the cycle of an account lasts one `Year`, and a rotation under way writes a start no
earlier than the end of the cycle it read. A rotation that finds the row still in that cycle therefore moves its
start, and one that does not leaves the counters: no step lowers `used` and keeps `start`.

**The plan.** That `Accounts` implements `CreditPlan` needs both invariants and `RenewalsAreDue`: what a rotation
under way adds to the end of the cycle it read are whole years that are over, counted up to the moment it
looked at the clock and hence up to any later one. Each commit is a step of the plan about one account (`OneAccount`: what it
does to the tables is what the plan sees of it), all else is a stutter; a late rotation stutters because its UPDATE
matches nothing. The keys of debits do not collide because they are numbered up to their count (`NumberedInv`), and
debits of an account are never deleted one by one.

**CertificateSync.** `WalkInv` says of every runner what it has in hand (`Sound`): what a page fetched is worth, the
page it will note once it has stored it, and that whatever its walk set out for is stored or still ahead
(`FoundOrStored`), for a list that grows at the top at any moment. What a page leaves out as older than the start year
joins `passed` in the same step, so the pages behind a resume page owe it no more whatever year the next run has. `ResumeSkipsNothing` and `WalksCoverHistory` follow.

**Login.** `LinkInv` says that a session, and a request about to open one, refer to a link that is marked used; links
stay marked (`LinksGrow`), so no click that begins later finds it usable. `ThrottleInv` counts: the links of an address made since any moment, and those being
made, are no more than the requests that overlap (`FewLinks`), and what was swept is older than the interval
(`SweptAreOld`). The latter needs an assumption `LoginAssumption` states, `Throttle <= LinkTtl + SweepAfter`; the code
has two minutes against fifteen and a day.

**KeywordAlerts.** `WindowInv` says of each point of the digest that what the window is about to pass and is due to the
account is in hand (`Sound`) or has been mailed (`Delivered`), that nothing the server writes later will be behind a
window that matters (`Quiet`), and that no entry is from the future and `always` within the words by which it can be found now
(`Past`, which a write keeps whatever it puts in place of the row: `Commits`). A row of the list may be that of a former
account: then the account that has its id now has nothing due, its keywords being younger than all entries. `RepeatInv`
says that addresses are distinct, that an entry settled for an address is no newer than the window of its
account (`Spent`), and the same of the rows in hand (`InHand`), which may be older than the table.

**Jobs.** `TypeInv` adds to the types that the markers granted cover those in hand (`Grants`) and that what a process
is about to alert is in the tables (`HeldExist`); `FlagIsOfTheSync` is inductive by itself (`FlagStep`); `AlertInv` says that a meeting mailed about is marked, about to be
marked by the one process that mailed, or excused.

**CertificatePages.** `Pauses`: a process that asked within this second still has a pause before it, so the next request
waits for the clock. `Tables`: no run works on a certificate without a row, so the page only ever completes a row
that is there. `TypeCorrect` needs `Held`, and that 2^n grows with n (`Powers`: it is the number of subsets of an interval).

**MeetingSync.** `AssignmentIsBest` is about the loop of match_rows, so the proof is an induction on its turns
(`NatInductionOfSet`, from the well-foundedness of the numbers, takes the place of the library's theorem): the loop has a
result for every finite set of candidates (`LoopEnds`), its order is strict and has a last pair (`BeforeOrders`,
`LastOfPairs`), and one more turn keeps what `Best` says of the pairs before it (`TurnKeepsBest`): one to one, and
every pair left out loses to one taken. `Typed` adds to the types that a run which goes on with a stored text finds its
meeting in the table. `LinkedItemShowsItsRow` is then inductive, since what a run writes is one to one.

**Texts.** What such a run reads is proved in the same module, which extends `Texts` (its `TextsSpec`) too. `ReadingInv`
ties the parser to the page: while it can be relied on (`Reliable`), it expects the row after the last it saw, however
many were lost since (`CountIsRight`), and the block in the making holds the words printed so far
(`WordsAreKept`). `RowNumbersAreRead` then rests on arithmetic. A glued pair that begins with the expected number is
split behind it (`SplitAsExpected`). Behind one to eight lost rows the digits of the expected number cannot begin the
pair (`NoPrefix`: of two numbers that close one has fewer digits and the other begins with 1, or they differ in a digit),
and six digits from the end are right (`SplitBySix`). Nine lost rows would not do: 1 begins 10. `AgendasAreReadWhole` is
an induction over the words of a row: `Cleaned` keeps the others in their order (`CleanedKeepsOrder`), and
`split_beneficiary` cuts what is left before the first word of a description and loses nothing (`BeneficiaryEndsAtPlan`).

`WritingIsIrrelevant` needs no more of the state than that a text is made of the words of `Vocabulary`; the work is in
relating two texts whose words do not stand at the same places. A text grows word by word, and so does its other spelling
(`WrittenInSteps`). The last word of a spelling stands in no other piece (`LettersSpell`, `PhrasesSpell`), so that
the spelling is found where its own piece is put, and a seam between two pieces makes no other (`FoundInPieces`). By
induction over the length the spelled text says exactly what the abbreviated one did (`WrittenSaysTheSame`), which settles
titles. For a purpose places count. Where it names one plan only, the words before the plan are the same in both
spellings, so that `leads_with_abbrev` stops at one of them or reaches the plan in both; what comes behind may move, and
does not matter then (`WrittenOnce`, `LeadsAsWritten`).

`AddressesAreRead` takes an address apart as `parse_work_address` does. Segments are kept or dropped one by one
(`KeptConcat`): county and city go, and street, number and at most the block are left (`SegmentsKept`, `CoresAreKept`). In
what is joined from them the first "nr" stands behind the street, and the number goes on up to the next comma or the end
(`MarkedIsRead`); without "nr" the last word of the street's segment is the number or, in an address that has none, a word
of the name (`UnmarkedIsRead`). `street_of` drops the kinds of street, of which there are at most as many as it drops, and
stops at the first mark behind the name (`StreetIsRead`). This needs names as `AddressAssumption` describes them; the
code does not read others (see the limits above).

**Search.** Three invariants, each resting on the one before.

- `VisitsOK` says of a search under way that its query is the one meant (`Sound`). The work is in the query string: of two
  strings one behind the other the second is read first (`LastOfTwo`), while `tip` is collected from both
  (`AllTipsOfTwo`); from there what a link shows (`ShownIsRead`), a form sends in whatever order (`FormIsRead`) and a
  stranger writes (`LinkIsRead`) is read as it was meant, and the link to the next page asks the same, one page further
  (`NextQuery`).
- `TablesOK` says that ids of projects are distinct and no greater than their number, so that those of a page, numbered in
  its order (`NewNumbers`), are new; and that a row that is linked to a project is what the project shows unless
  the project is shared (`RowsOK`), whatever page or agenda is written next. `RowsAreFound` follows.
- `PagerOK` says that what is owed to a visitor is among the results, at a rank no lower than the offset of the page to
  come. A page takes away the ranks below the next offset; a commit that keeps the order can only raise ranks
  (`RankGrows`); and since the order is strict a rank is below the number of results (`RankBelow`), so that a visitor
  who is offered no further page is owed nothing.

Assumptions on constants that the proofs use and the code justifies: the tables are finite, a page of results is
not longer than the longest the API gives (`Page <= MaxLimit`: 50 and 200), scores are
natural numbers, an agenda has up to 99 rows and registration numbers of four to six digits, the number of a house is not
the word "nr", "fn" or a comma, the name of a street has no number or dash in it and does not begin like a county or a
kind of street, and the value that stands for NULL is none of the others. The assumption on names is narrower than the
code: streets named after a date are among the limits listed above.

Only model-checked: the liveness properties (`WalkIsFinished`, `UpcomingIsAlerted`, `PagesAreFetched`), which are out
of the prover's reach. Every invariant of the passing runs, every action property and the refinement are stated by a theorem.

## Not modelled

- HTML parsers and PDF extraction: selectors over HTML and a chain of external programs, without state. What they
  may lose or glue together is what `Texts` lets the extraction do.
- Normalisation, dates and times, FTS matching of the beginning of words: functions of characters. Matching of words is a set
  of words per entry (KeywordAlerts, Search) or a score (MeetingSync). "S=394.50 mp" is read as 39450: the surface of a
  certificate is left out for that reason, being a matter of characters.
- Web pages that render single reads, the other API answers, status, configuration, deployment: no state of their own.
- The pool of connections: `find_or_create_user` asks for a second connection while it holds the first, so that eight of
  them at once wait until the pool times out (`accounts.rs:250`). Every error of the kind is an `Abandon` in Accounts.
- Conclusions and announcement links of a meeting, its move to another date (but see Jobs), and items that move between
  meetings (but see Search).
- A row of the agenda without beneficiary matched with a project that has one: the project keeps the older one; the model
  follows the description, which every row has.
- Hazards without a property, each with its reason in `PROJECT.json`: a session opened for an account whose row id was
  given to another (`accounts.rs:325`), a mailer that fails after the link was stored (`account.rs:143`), the links of a deleted
  account (`accounts.rs:465`), the gap of a failed run (`sync.rs:253`), entries of the command line (`db.rs:764`), the former
  project of a row (`sync.rs:388`), and the pool.
