-------------------------- MODULE CertificateSync --------------------------
(***************************************************************************)
(* The list of urbanism certificates: sync_certificates in                 *)
(* crates/core/src/sync.rs, with the two keys it keeps in `meta`.          *)
(*                                                                         *)
(* The city's site lists certificates newest first and publishes new ones  *)
(* at the top, which pushes the others towards larger pages.  A sync run   *)
(* either walks the whole history (the first time, after `full`, after the *)
(* start year was lowered, or because a walk was interrupted) or reads     *)
(* from the first page until a page with nothing new.  Runs of the server  *)
(* and of the command line share the database and may overlap.             *)
(*                                                                         *)
(* Certificates are numbered in the order in which the site lists them, so *)
(* the certificates on the site are 1..listed and `listed` is the newest.  *)
(***************************************************************************)
EXTENDS Integers, FiniteSets

CONSTANTS
  Runners,       \* the sync task of the server, the command line
  YearOf,        \* the year each certificate was issued in
  StartYears,    \* values of cert_start_year the processes are configured with
  None,          \* no such key in `meta`
  PageSize,      \* certificates on a page of the list
  Initially,     \* certificates on the site at first
  EmptyAnswers,  \* whether the site may answer a page of the list with nothing
  MaxListed,     \* bound: certificates the site ever lists
  MaxPages       \* MAX_CERT_PAGES

Certificates == 1..MaxListed

(* A walk, over all runs that take it up: the newest certificate when it began, and
   those its pages left out as older than the start year of the run that read them. *)
Walk == [newest: Certificates, passed: SUBSET Certificates]

ASSUME CertificateSyncAssumption ==
  /\ PageSize \in Nat \ {0}
  /\ MaxListed \in Nat
  /\ Initially \in Certificates
  /\ MaxPages \in Nat \ {0}
  /\ EmptyAnswers \in BOOLEAN
  /\ StartYears \subseteq Int
  /\ YearOf \in [Certificates -> Int]
  /\ \A c, d \in Certificates : c <= d => YearOf[c] <= YearOf[d]
  /\ None \notin Int \cup Walk

VARIABLES
  listed,        \* certificates on the site
  stored,        \* the certificates table
  backfillYear,  \* meta: certificates_backfill_year
  resumePage,    \* meta: certificates_backfill_page
  run,           \* what each runner holds between two steps
  walk,          \* history: the walk that resumePage belongs to
  covered        \* history: what the walks that reached their end have covered

vars == <<listed, stored, backfillYear, resumePage, run, walk, covered>>

Job == [year: StartYears, all: BOOLEAN, walk: Walk]

(* What a page of the walk has to leave in the table once it is read ... *)
Owed(w) == (1..w.newest) \ w.passed

(* ... and all of the walk, when a run from `year` on reaches the end. *)
ToStore(job) == {c \in Owed(job.walk) : YearOf[c] >= job.year}

Idle == [pc |-> "idle"]

OnPage(page) ==
  {c \in 1..listed : (page - 1) * PageSize <= listed - c /\ listed - c < page * PageSize}

HasNext(page) == page * PageSize < listed

Goes(r, local) == run' = [run EXCEPT ![r] = local]

-----------------------------------------------------------------------------
(* The site publishes a certificate. *)
Publish ==
  /\ listed < MaxListed
  /\ listed' = listed + 1
  /\ UNCHANGED <<stored, backfillYear, resumePage, run, walk, covered>>

(* A run starts: it reads up to which year the history has been walked. *)
Begin(r, year, full) ==
  /\ run[r].pc = "idle"
  /\ LET backfilled == backfillYear # None /\ backfillYear <= year
     IN Goes(r, [pc |-> "reading", year |-> year, all |-> full \/ ~backfilled])
  /\ UNCHANGED <<listed, stored, backfillYear, resumePage, walk, covered>>

(* Mutant: a walk that was interrupted starts again from the first page. *)
AlwaysFirstPage == 1

FirstPage == IF resumePage = None THEN 1 ELSE resumePage

(* The page to resume from; a walk that was interrupted is taken up even by a
   run that has no reason of its own to walk, or another start year. *)
ReadResumePage(r) ==
  LET mine == IF resumePage = None THEN [newest |-> listed, passed |-> {}] ELSE walk
  IN /\ run[r].pc = "reading"
     /\ Goes(r, [pc   |-> "fetching",
                 job  |-> [year |-> run[r].year, walk |-> mine,
                           all  |-> run[r].all \/ resumePage # None],
                 page |-> FirstPage])
     /\ UNCHANGED <<listed, stored, backfillYear, resumePage, walk, covered>>

(* The loop is left: a walk goes on to note that it is over. *)
Leave(job, cut) ==
  IF job.all THEN [pc |-> "marking", job |-> job, cut |-> cut] ELSE Idle

(* One page further, unless that is beyond MAX_CERT_PAGES. *)
Further(job, page) ==
  IF page + 1 > MaxPages
  THEN Leave(job, TRUE)
  ELSE [pc |-> "fetching", job |-> job, page |-> page + 1]

(* get_html and parse_certificates: the page as the list is now. *)
FetchPage(r) ==
  LET page == run[r].page
  IN /\ run[r].pc = "fetching"
     /\ OnPage(page) # {}
     /\ Goes(r, [pc |-> "storing", job |-> run[r].job, page |-> page,
                 found |-> OnPage(page), next |-> HasNext(page)])
     /\ UNCHANGED <<listed, stored, backfillYear, resumePage, walk, covered>>

(* A page without certificates: past the end of the list, or an answer of the
   site with nothing in it.  On the first page that is an error (see Stop). *)
EmptyPage(r) ==
  /\ run[r].pc = "fetching"
  /\ run[r].page > 1
  /\ OnPage(run[r].page) = {} \/ EmptyAnswers
  /\ Goes(r, Leave(run[r].job, OnPage(run[r].page) # {}))
  /\ UNCHANGED <<listed, stored, backfillYear, resumePage, walk, covered>>

ReachedStart(found, year) == \E c \in found : YearOf[c] < year

(* Mutant: the page on which the start year begins is not written at all. *)
WholePage(found, year) == IF ReachedStart(found, year) THEN {} ELSE found

(* Of a page, only the start year and after is written. *)
Writes(found, year) == {c \in found : YearOf[c] >= year}

Older(found, year) == {c \in found : YearOf[c] < year}

(* write_certificates, one transaction; a run that does not walk then decides
   whether to go on. *)
Store(r) ==
  LET page  == run[r].page
      job   == [run[r].job EXCEPT !.walk.passed = @ \cup Older(run[r].found, run[r].job.year)]
      kept  == Writes(run[r].found, job.year)
      last  == ReachedStart(run[r].found, job.year) \/ ~run[r].next
  IN /\ run[r].pc = "storing"
     /\ stored' = stored \cup kept
     /\ Goes(r, IF job.all
                THEN [pc |-> "saving", job |-> job, page |-> page, last |-> last]
                ELSE IF last \/ kept \subseteq stored
                THEN Leave(job, FALSE)
                ELSE Further(job, page))
     /\ UNCHANGED <<listed, backfillYear, resumePage, walk, covered>>

(* Mutants: one page too far; the page just read. *)
PageAfterNext(page) == page + 2
PageJustRead(page) == page

PageToResume(page) == page + 1

(* A walk notes the next page to read. *)
SavePage(r) ==
  LET job  == run[r].job
      page == run[r].page
  IN /\ run[r].pc = "saving"
     /\ resumePage' = PageToResume(page)
     /\ walk' = job.walk
     /\ Goes(r, IF run[r].last THEN Leave(job, FALSE) ELSE Further(job, page))
     /\ UNCHANGED <<listed, stored, backfillYear, covered>>

(* The end of a walk: the year is noted ... *)
MarkYear(r) ==
  LET job == run[r].job
  IN /\ run[r].pc = "marking"
     /\ backfillYear' = job.year
     /\ covered' = IF run[r].cut THEN covered
                   ELSE covered \cup ToStore(job)
     /\ Goes(r, [pc |-> "clearing"])
     /\ UNCHANGED <<listed, stored, resumePage, walk>>

(* ... and then the page is forgotten, in a statement of its own. *)
ClearPage(r) ==
  /\ run[r].pc = "clearing"
  /\ resumePage' = None
  /\ walk' = None
  /\ Goes(r, Idle)
  /\ UNCHANGED <<listed, stored, backfillYear, covered>>

(* A page that cannot be fetched, an empty first page, an error of the database
   or a restart: the run is over, `meta` stays as it is. *)
Stop(r) ==
  /\ run[r].pc # "idle"
  /\ Goes(r, Idle)
  /\ UNCHANGED <<listed, stored, backfillYear, resumePage, walk, covered>>

-----------------------------------------------------------------------------
Init ==
  /\ listed = Initially
  /\ stored = {}
  /\ backfillYear = None
  /\ resumePage = None
  /\ run = [r \in Runners |-> Idle]
  /\ walk = None
  /\ covered = {}

Progress(r) ==
  \/ ReadResumePage(r)
  \/ FetchPage(r)
  \/ Store(r)
  \/ SavePage(r)
  \/ MarkYear(r)
  \/ ClearPage(r)

Next ==
  \/ Publish
  \/ \E r \in Runners :
       \/ \E year \in StartYears, full \in BOOLEAN : Begin(r, year, full)
       \/ Progress(r)
       \/ EmptyPage(r)
       \/ Stop(r)

Spec == Init /\ [][Next]_vars

(* One runner is the server's: it starts runs again and again (jobs.rs:43-47),
   and whatever keeps failing (the site, the database, a restart) lets each step
   through at some point.  Nothing is asked of the other runners. *)
Fairness(r) ==
  /\ WF_vars(\E year \in StartYears, full \in BOOLEAN : Begin(r, year, full))
  /\ SF_vars(ReadResumePage(r))
  /\ SF_vars(FetchPage(r))
  /\ SF_vars(Store(r))
  /\ SF_vars(SavePage(r))
  /\ SF_vars(MarkYear(r))
  /\ SF_vars(ClearPage(r))
  /\ SF_vars(EmptyPage(r) /\ OnPage(run[r].page) = {})

FairSpec == Spec /\ \E r \in Runners : Fairness(r)

-----------------------------------------------------------------------------
LocalStates ==
  {Idle}
  \cup [pc: {"reading"}, year: StartYears, all: BOOLEAN]
  \cup [pc: {"fetching"}, job: Job, page: Nat]
  \cup [pc: {"storing"}, job: Job, page: Nat, found: SUBSET Certificates,
        next: BOOLEAN]
  \cup [pc: {"saving"}, job: Job, page: Nat, last: BOOLEAN]
  \cup [pc: {"marking"}, job: Job, cut: BOOLEAN]
  \cup [pc: {"clearing"}]

TypeOK ==
  /\ listed \in Certificates
  /\ stored \subseteq Certificates
  /\ backfillYear \in StartYears \cup {None}
  /\ resumePage \in (Nat \ {0, 1}) \cup {None}
  /\ run \in [Runners -> LocalStates]
  /\ (walk = None) <=> (resumePage = None)
  /\ walk \in Walk \cup {None}
  /\ covered \subseteq Certificates

(* Everything the pages before `page` owe is in the table. *)
StoredBefore(w, page) ==
  \A c \in Owed(w) :
    listed - c < (page - 1) * PageSize => c \in stored

(* "Certificatele noi împing elementele spre pagini mai mari, deci reluarea de la
   pagina reținută nu sare peste nimic" (sync.rs:26-29): whatever was published,
   interrupted or done by another process in the meantime, all certificates of
   the walk on the pages before the one in `meta` are in the table, except those that
   a run left out as older than its start year. *)
ResumeSkipsNothing ==
  resumePage # None => StoredBefore(walk, resumePage)

(* A walk that reached its end, over however many runs and with whatever start years
   they had, has left in the table every certificate of the year it notes and after that
   was listed when it began ("parcurs complet", sync.rs:23; requirements.md:155-157).
   Two kinds are not claimed, because the code misses them: everything, if an empty page
   or MAX_CERT_PAGES has cut the walk (sync.rs:232, sync.rs:257); and what was left out on
   a page where an earlier run of the walk reached its start year, if the walk is taken up
   behind that page with a lower one, which is noted all the same (sync.rs:265). *)
WalksCoverHistory == covered \subseteq stored

(* A walk of the history that has been begun is finished, however often it is
   interrupted, because it goes on from the page it had reached
   (requirements.md:173-174). *)
WalkIsFinished == resumePage # None ~> resumePage = None
=============================================================================
