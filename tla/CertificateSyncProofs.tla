------------------------ MODULE CertificateSyncProofs ------------------------
(***************************************************************************)
(* Proofs about CertificateSync: a walk of the list of certificates skips  *)
(* nothing, for any number of overlapping runners, any page size and any   *)
(* number of certificates published meanwhile.                             *)
(***************************************************************************)
EXTENDS CertificateSync, TLAPS

(* A walk began when the site listed no more than it does. *)
WalkFits(w) == w \in Walk /\ w.newest <= listed

JobFits(job) == job \in Job /\ WalkFits(job.walk)

(* Between FetchPage and Store: of what the walk owes, what was listed up to the end of
   the page is in the table or on the page; so is all of it when the page was the last,
   and what is newer than anything on the page. *)
FoundOrStored(w, page, found, next) ==
  \A c \in Owed(w) :
    \/ listed - c < page * PageSize
    \/ ~next
    \/ \E d \in found : d < c
    => c \in stored \cup found

Fetching(local) == JobFits(local.job) /\ StoredBefore(local.job.walk, local.page)

Storing(local) ==
  JobFits(local.job) /\ FoundOrStored(local.job.walk, local.page, local.found, local.next)

Saving(local) ==
  /\ JobFits(local.job)
  /\ StoredBefore(local.job.walk, local.page + 1)
  /\ local.last => ToStore(local.job) \subseteq stored

Marking(local) ==
  JobFits(local.job) /\ (~local.cut => ToStore(local.job) \subseteq stored)

(* What a run holds. *)
Sound(local) ==
  \/ local = Idle
  \/ local \in [pc: {"reading"}, year: StartYears, all: BOOLEAN]
  \/ /\ local \in [pc: {"fetching"}, job: Job, page: Nat \ {0}]
     /\ Fetching(local)
  \/ /\ local \in [pc: {"storing"}, job: Job, page: Nat \ {0}, found: SUBSET Certificates,
                   next: BOOLEAN]
     /\ Storing(local)
  \/ /\ local \in [pc: {"saving"}, job: Job, page: Nat \ {0}, last: BOOLEAN]
     /\ Saving(local)
  \/ /\ local \in [pc: {"marking"}, job: Job, cut: BOOLEAN]
     /\ Marking(local)
  \/ local \in [pc: {"clearing"}]

Tables ==
  /\ listed \in Certificates
  /\ stored \subseteq Certificates
  /\ backfillYear \in StartYears \cup {None}
  /\ resumePage \in (Nat \ {0, 1}) \cup {None}
  /\ walk \in Walk \cup {None}
  /\ (walk = None) <=> (resumePage = None)
  /\ walk # None => WalkFits(walk)
  /\ run = [r \in Runners |-> run[r]]

WalkInv ==
  /\ Tables
  /\ ResumeSkipsNothing
  /\ covered \subseteq stored
  /\ \A r \in Runners : Sound(run[r])

-----------------------------------------------------------------------------
(* More certificates on the site or in the table: what was true of the runs and of the
   resume page stays true. *)
LEMMA Grows ==
  ASSUME Tables,
         listed' \in Certificates, stored' \subseteq Certificates,
         listed <= listed', stored \subseteq stored'
  PROVE  /\ \A w : WalkFits(w) => WalkFits(w)'
         /\ \A w, page : w \in Walk /\ page \in Nat /\ StoredBefore(w, page)
              => StoredBefore(w, page)'
         /\ \A local : Sound(local) => Sound(local)'
<1>1. \A w \in Walk : Owed(w)' = Owed(w) /\ Owed(w) \subseteq Certificates
  BY CertificateSyncAssumption DEF Owed, Walk, Certificates
<1>2. ASSUME NEW w, WalkFits(w)
      PROVE  WalkFits(w)'
  BY <1>2 DEF WalkFits, Walk, Tables, Certificates
<1>3. ASSUME NEW w, NEW page, w \in Walk, page \in Nat, StoredBefore(w, page)
      PROVE  StoredBefore(w, page)'
  <2> DEFINE n == (page - 1) * PageSize
  <2>1. n \in Int
    BY <1>3, CertificateSyncAssumption
  <2>2. \A c \in Owed(w) : listed - c < n => c \in stored
    BY <1>3 DEF StoredBefore
  <2> HIDE DEF n
  <2>3. \A c \in Owed(w) : listed' - c < n => c \in stored'
    BY <1>1, <1>3, <2>1, <2>2 DEF Tables, Certificates
  <2> QED
    BY <1>1, <1>3, <2>3 DEF StoredBefore, n
<1>4. ASSUME NEW local, Sound(local)
      PROVE  Sound(local)'
  <2>1. ASSUME NEW job, JobFits(job)
        PROVE  JobFits(job)'
    BY <1>2, <2>1 DEF JobFits
  <2>2. CASE local \in [pc: {"fetching"}, job: Job, page: Nat \ {0}] /\ Fetching(local)
    <3>1. Fetching(local)'
      BY <1>3, <2>1, <2>2 DEF Fetching, Job
    <3> QED
      BY <2>2, <3>1 DEF Sound
  <2>3. CASE /\ local \in [pc: {"storing"}, job: Job, page: Nat \ {0},
                           found: SUBSET Certificates, next: BOOLEAN]
             /\ Storing(local)
    <3> DEFINE w == local.job.walk
               n == local.page * PageSize
    <3>1. w \in Walk /\ n \in Int /\ JobFits(local.job)'
      BY <2>1, <2>3, CertificateSyncAssumption DEF Storing, Job
    <3>2. \A c \in Owed(w) :
            listed - c < n \/ ~local.next \/ (\E d \in local.found : d < c)
              => c \in stored \cup local.found
      BY <2>3 DEF Storing, FoundOrStored
    <3> HIDE DEF n, w
    <3>3. \A c \in Owed(w) :
            listed' - c < n \/ ~local.next \/ (\E d \in local.found : d < c)
              => c \in stored' \cup local.found
      BY <1>1, <3>1, <3>2 DEF Tables, Certificates
    <3>4. Storing(local)'
      BY <1>1, <3>1, <3>3 DEF Storing, FoundOrStored, n, w
    <3> QED
      BY <2>3, <3>4 DEF Sound
  <2>4. CASE local \in [pc: {"saving"}, job: Job, page: Nat \ {0}, last: BOOLEAN] /\ Saving(local)
    <3>1. local.page + 1 \in Nat /\ local.job.walk \in Walk
      BY <2>4 DEF Job
    <3>2. Saving(local)'
      BY <1>3, <2>1, <2>4, <3>1 DEF Saving, ToStore, Owed
    <3> QED
      BY <2>4, <3>2 DEF Sound
  <2>5. CASE local \in [pc: {"marking"}, job: Job, cut: BOOLEAN] /\ Marking(local)
    <3>1. Marking(local)'
      BY <2>1, <2>5 DEF Marking, ToStore, Owed
    <3> QED
      BY <2>5, <3>1 DEF Sound
  <2>6. CASE \/ local = Idle
             \/ local \in [pc: {"reading"}, year: StartYears, all: BOOLEAN]
             \/ local \in [pc: {"clearing"}]
    BY <2>6 DEF Sound
  <2> QED
    BY <1>4, <2>2, <2>3, <2>4, <2>5, <2>6 DEF Sound
<1> QED
  BY <1>2, <1>3, <1>4

(* A step that gives one run another sound state, and leaves the tables or adds to
   them. *)
LEMMA Moves ==
  ASSUME WalkInv,
         NEW r \in Runners, NEW local, Goes(r, local), Sound(local)',
         listed' \in Certificates, stored' \subseteq Certificates,
         listed <= listed', stored \subseteq stored',
         UNCHANGED <<backfillYear, resumePage, walk, covered>>
  PROVE  WalkInv'
<1>1. Tables'
  BY Grows DEF WalkInv, Tables, Goes
<1>2. ResumeSkipsNothing'
  BY Grows DEF WalkInv, Tables, ResumeSkipsNothing
<1>3. \A q \in Runners : Sound(run[q])'
  <2>1. ASSUME NEW q \in Runners, q # r
        PROVE  Sound(run[q])'
    <3>1. run'[q] = run[q]
      BY <2>1 DEF WalkInv, Tables, Goes
    <3>2. Sound(run[q])
      BY DEF WalkInv
    <3> DEFINE other == run[q]
    <3> QED
      BY <3>1, <3>2, Grows DEF WalkInv
  <2>2. run'[r] = local
    BY DEF WalkInv, Tables, Goes
  <2> QED
    BY <2>1, <2>2
<1> QED
  BY <1>1, <1>2, <1>3 DEF WalkInv

(* The same, of a step that leaves the list and the table. *)
LEMMA MovesOnly ==
  ASSUME WalkInv,
         NEW r \in Runners, NEW local, Goes(r, local), Sound(local),
         UNCHANGED <<listed, stored, backfillYear, resumePage, walk, covered>>
  PROVE  WalkInv'
<1>1. Tables /\ listed' \in Certificates /\ stored' \subseteq Certificates
  BY DEF WalkInv, Tables
<1>2. listed <= listed' /\ stored \subseteq stored'
  BY DEF WalkInv, Tables, Certificates
<1>3. Sound(local)'
  BY <1>1, <1>2, Grows
<1> QED
  BY <1>1, <1>2, <1>3, Moves

(* What a run is in one of its states. *)
LEMMA SoundAt ==
  ASSUME NEW local, Sound(local)
  PROVE  /\ local.pc = "reading" =>
              local \in [pc: {"reading"}, year: StartYears, all: BOOLEAN]
         /\ local.pc = "fetching" =>
              /\ local \in [pc: {"fetching"}, job: Job, page: Nat \ {0}]
              /\ Fetching(local)
         /\ local.pc = "storing" =>
              /\ local \in [pc: {"storing"}, job: Job, page: Nat \ {0},
                           found: SUBSET Certificates, next: BOOLEAN]
              /\ Storing(local)
         /\ local.pc = "saving" =>
              /\ local \in [pc: {"saving"}, job: Job, page: Nat \ {0}, last: BOOLEAN]
              /\ Saving(local)
         /\ local.pc = "marking" =>
              /\ local \in [pc: {"marking"}, job: Job, cut: BOOLEAN]
              /\ Marking(local)
BY DEF Sound, Idle

(* Page 1 begins where the list does, and a page ends PageSize further. *)
LEMMA Pages ==
  ASSUME NEW page \in Nat \ {0}
  PROVE  /\ (page - 1) * PageSize \in Nat
         /\ page * PageSize = (page - 1) * PageSize + PageSize
         /\ (page + 1) - 1 = page
         /\ (1 - 1) * PageSize = 0
<1>1. PageSize \in Nat \ {0}
  BY CertificateSyncAssumption
<1> QED
  BY <1>1

(* Where the loop goes after a page up to which all is stored. *)
LEMMA GoesFurther ==
  ASSUME NEW job, NEW page \in Nat \ {0}, JobFits(job), StoredBefore(job.walk, page + 1)
  PROVE  Sound(Further(job, page))
<1>1. page + 1 \in Nat \ {0} /\ job \in Job
  BY DEF JobFits
<1>2. CASE page + 1 > MaxPages
  BY <1>1, <1>2 DEF Further, Leave, Sound, Marking, JobFits
<1>3. CASE ~(page + 1 > MaxPages)
  BY <1>1, <1>3 DEF Further, Sound, Fetching
<1> QED
  BY <1>2, <1>3

LEMMA Leaves ==
  ASSUME NEW job, NEW cut \in BOOLEAN, JobFits(job),
         job.all /\ ~cut => ToStore(job) \subseteq stored
  PROVE  Sound(Leave(job, cut))
<1>1. job \in Job
  BY DEF JobFits
<1>2. CASE job.all
  BY <1>1, <1>2 DEF Leave, Sound, Marking
<1>3. CASE ~job.all
  BY <1>1, <1>3 DEF Leave, Sound
<1> QED
  BY <1>2, <1>3

-----------------------------------------------------------------------------
LEMMA PublishKeeps ==
  ASSUME WalkInv, Publish
  PROVE  WalkInv'
<1>1. /\ Tables
      /\ listed' \in Certificates /\ stored' \subseteq Certificates
      /\ listed <= listed' /\ stored \subseteq stored'
  BY CertificateSyncAssumption DEF WalkInv, Tables, Publish, Certificates
<1>2. Tables'
  BY <1>1, Grows DEF Tables, Publish
<1>3. ResumeSkipsNothing'
  BY <1>1, Grows DEF WalkInv, Tables, ResumeSkipsNothing, Publish
<1>4. \A r \in Runners : Sound(run[r])'
  BY <1>1, Grows DEF WalkInv, Publish
<1> QED
  BY <1>2, <1>3, <1>4 DEF WalkInv, Publish

LEMMA BeginKeeps ==
  ASSUME WalkInv, NEW r \in Runners, NEW year \in StartYears, NEW full \in BOOLEAN,
         Begin(r, year, full)
  PROVE  WalkInv'
<1>1. PICK all \in BOOLEAN : Goes(r, [pc |-> "reading", year |-> year, all |-> all])
  BY DEF Begin
<1>2. Sound([pc |-> "reading", year |-> year, all |-> all])
  BY DEF Sound
<1> QED
  BY <1>1, <1>2, MovesOnly DEF Begin

(* A run that takes up a walk has nothing to store before the page it resumes from; one
   that begins a walk, nothing before the first page. *)
LEMMA ReadResumePageKeeps ==
  ASSUME WalkInv, NEW r \in Runners, ReadResumePage(r)
  PROVE  WalkInv'
<1> DEFINE mine == IF resumePage = None THEN [newest |-> listed, passed |-> {}] ELSE walk
           job  == [year |-> run[r].year, walk |-> mine,
                    all |-> run[r].all \/ resumePage # None]
<1>1. run[r].year \in StartYears /\ run[r].all \in BOOLEAN
  <2>1. Sound(run[r]) /\ run[r].pc = "reading"
    BY DEF ReadResumePage, WalkInv
  <2> QED
    BY <2>1, SoundAt
<1>2. WalkFits(mine)
  BY DEF WalkInv, Tables, WalkFits, Walk, Certificates
<1>3. JobFits(job)
  BY <1>1, <1>2 DEF JobFits, WalkFits, Job
<1>4. FirstPage \in Nat \ {0}
  BY DEF WalkInv, Tables, FirstPage
<1>5. StoredBefore(mine, FirstPage)
  <2>1. CASE resumePage = None
    <3>1. \A c \in Owed(mine) : c <= listed /\ c \in Int
      BY <2>1 DEF Owed, WalkInv, Tables, Certificates
    <3>2. \A c \in Owed(mine) : ~(listed - c < 0)
      BY <3>1 DEF WalkInv, Tables, Certificates
    <3>3. FirstPage = 1 /\ (1 - 1) * PageSize = 0
      BY <2>1, Pages DEF FirstPage
    <3> HIDE DEF mine
    <3> QED
      BY <3>2, <3>3 DEF StoredBefore
  <2>2. CASE resumePage # None
    BY <2>2 DEF WalkInv, Tables, ResumeSkipsNothing, FirstPage
  <2> QED
    BY <2>1, <2>2
<1> DEFINE local == [pc |-> "fetching", job |-> job, page |-> FirstPage]
<1>6. Goes(r, local) /\ UNCHANGED <<listed, stored, backfillYear, resumePage, walk, covered>>
  BY DEF ReadResumePage
<1>7. job.walk = mine /\ job \in Job
  BY <1>3 DEF JobFits
<1> HIDE DEF job, mine
<1>8. Sound(local)
  BY <1>3, <1>4, <1>5, <1>7 DEF Sound, Fetching
<1> HIDE DEF local
<1> QED
  BY <1>6, <1>8, MovesOnly

(* What a walk owes, and the list at the moment a page is read. *)
LEMMA AtFetch ==
  ASSUME WalkInv, NEW r \in Runners, run[r].pc = "fetching"
  PROVE  LET page == run[r].page
             w    == run[r].job.walk
         IN /\ page \in Nat \ {0}
            /\ JobFits(run[r].job)
            /\ \A c \in Owed(w) : c \in 1..listed
            /\ \A c \in Owed(w) : c \in stored \/ ~(listed - c < (page - 1) * PageSize)
<1>1. /\ run[r].page \in Nat \ {0} /\ JobFits(run[r].job)
      /\ StoredBefore(run[r].job.walk, run[r].page)
  BY SoundAt DEF WalkInv, Fetching
<1>2. \A c \in Owed(run[r].job.walk) : c \in 1..listed
  BY <1>1 DEF JobFits, WalkFits, Walk, Owed, WalkInv, Tables, Certificates
<1> QED
  BY <1>1, <1>2 DEF StoredBefore

LEMMA FetchPageKeeps ==
  ASSUME WalkInv, NEW r \in Runners, FetchPage(r)
  PROVE  WalkInv'
<1> DEFINE page  == run[r].page
           job   == run[r].job
           w     == job.walk
           found == OnPage(page)
           next  == HasNext(page)
           n     == (page - 1) * PageSize
           m     == page * PageSize
           local == [pc |-> "storing", job |-> job, page |-> page, found |-> found,
                     next |-> next]
<1>1. /\ page \in Nat \ {0} /\ JobFits(job)
      /\ \A c \in Owed(w) : c \in 1..listed /\ (c \in stored \/ ~(listed - c < n))
  BY AtFetch DEF FetchPage
<1>2. n \in Nat /\ m \in Nat
  <2>1. n \in Nat /\ m = n + PageSize
    BY <1>1, Pages
  <2> HIDE DEF n, m
  <2> QED
    BY <2>1, CertificateSyncAssumption
<1>3. /\ found = {c \in 1..listed : n <= listed - c /\ listed - c < m}
      /\ next \in BOOLEAN /\ (next <=> m < listed)
      /\ listed \in Nat
  BY DEF OnPage, HasNext, WalkInv, Tables, Certificates
<1>4. Goes(r, local) /\ UNCHANGED <<listed, stored, backfillYear, resumePage, walk, covered>>
  BY DEF FetchPage
<1> HIDE DEF found, next, n, m, w
<1>5. ASSUME NEW c \in Owed(w), listed - c < m
      PROVE  c \in stored \cup found
  BY <1>1, <1>2, <1>3, <1>5
<1>6. ASSUME NEW c \in Owed(w), ~next
      PROVE  listed - c < m
  BY <1>1, <1>2, <1>3, <1>6
<1>7. ASSUME NEW c \in Owed(w), NEW d \in found, d < c
      PROVE  listed - c < m
  BY <1>1, <1>2, <1>3, <1>7
<1>8. FoundOrStored(w, page, found, next)
  BY <1>5, <1>6, <1>7 DEF FoundOrStored, m
<1>9. found \in SUBSET Certificates /\ next \in BOOLEAN /\ job \in Job
  <2>1. \A c \in 1..listed : c \in Certificates
    BY CertificateSyncAssumption DEF WalkInv, Tables, Certificates
  <2> QED
    BY <1>1, <1>3, <2>1 DEF JobFits
<1>10. Sound(local)
  BY <1>1, <1>8, <1>9 DEF Sound, Storing, w
<1> HIDE DEF local
<1> QED
  BY <1>4, <1>10, MovesOnly

(* A page that is empty because the list has ended: all of the walk is stored.  When the
   site just answered nothing, `cut` says so, and nothing is claimed. *)
LEMMA EmptyPageKeeps ==
  ASSUME WalkInv, NEW r \in Runners, EmptyPage(r)
  PROVE  WalkInv'
<1> DEFINE page  == run[r].page
           job   == run[r].job
           w     == job.walk
           n     == (page - 1) * PageSize
           m     == page * PageSize
           cut   == OnPage(page) # {}
<1>1. /\ page \in Nat \ {0} /\ JobFits(job)
      /\ \A c \in Owed(w) : c \in 1..listed /\ (c \in stored \/ ~(listed - c < n))
  BY AtFetch DEF EmptyPage
<1>2. n \in Nat /\ m \in Nat /\ n < m
  BY <1>1, Pages, CertificateSyncAssumption
<1>3. /\ OnPage(page) = {c \in 1..listed : n <= listed - c /\ listed - c < m}
      /\ listed \in Nat
  BY DEF OnPage, WalkInv, Tables, Certificates
<1>4. Goes(r, Leave(job, cut))
      /\ UNCHANGED <<listed, stored, backfillYear, resumePage, walk, covered>>
  BY DEF EmptyPage
<1> HIDE DEF n, m, w
<1>5. ~cut => Owed(w) \subseteq stored
  <2> SUFFICES ASSUME OnPage(page) = {} PROVE Owed(w) \subseteq stored
    OBVIOUS
  <2>1. listed <= n
    <3> SUFFICES ASSUME n < listed PROVE FALSE
      BY <1>2, <1>3
    <3>1. /\ listed - n \in 1..listed
          /\ n <= listed - (listed - n) /\ listed - (listed - n) < m
      BY <1>2, <1>3
    <3> DEFINE c == listed - n
    <3> HIDE DEF c
    <3>2. c \in OnPage(page)
      BY <1>3, <3>1 DEF c
    <3> QED
      BY <3>2
  <2>2. \A c \in Owed(w) : listed - c < n
    BY <1>1, <1>2, <1>3, <2>1
  <2> QED
    BY <1>1, <2>2
<1>6. ~cut => ToStore(job) \subseteq stored
  BY <1>5 DEF ToStore, w
<1>7. Sound(Leave(job, cut))
  BY <1>1, <1>6, Leaves
<1> HIDE DEF job, cut
<1> QED
  BY <1>4, <1>7, MovesOnly

(* Certificates are listed in the order of their years: what a page has reached the start
   year behind is newer than something on it. *)
LEMMA StartIsReached ==
  ASSUME NEW job \in Job,
         NEW found, found \subseteq Certificates, ReachedStart(found, job.year)
  PROVE  \A c \in ToStore(job) : \E d \in found : d < c
<1>1. PICK d \in found : YearOf[d] < job.year
  BY DEF ReachedStart
<1>2. ASSUME NEW c \in ToStore(job)
      PROVE  d < c
  <2>1. job.year \in StartYears /\ job.walk \in Walk
    BY DEF Job
  <2>2. c \in Certificates /\ d \in Certificates /\ YearOf[c] >= job.year
    BY <1>2, <2>1, CertificateSyncAssumption DEF ToStore, Owed, Walk, Certificates
  <2>3. YearOf[c] \in Int /\ YearOf[d] \in Int /\ job.year \in Int
    BY <2>1, <2>2, CertificateSyncAssumption
  <2>4. ~(YearOf[c] <= YearOf[d])
    BY <1>1, <2>2, <2>3
  <2>5. ~(c <= d)
    BY <2>2, <2>4, CertificateSyncAssumption
  <2> QED
    BY <2>2, <2>5, CertificateSyncAssumption DEF Certificates
<1> QED
  BY <1>1, <1>2

(* What a page leaves out, its walk does not owe any more; all else on it is written. *)
LEMMA PassedOrWritten ==
  ASSUME NEW job \in Job, NEW found, found \subseteq Certificates,
         NEW more, more = [job EXCEPT !.walk.passed = @ \cup Older(found, job.year)]
  PROVE  /\ more \in Job /\ more.year = job.year /\ more.all = job.all
         /\ more.walk.newest = job.walk.newest
         /\ \A c \in Owed(more.walk) : c \in Owed(job.walk)
         /\ \A c \in Owed(more.walk) : c \in found => c \in Writes(found, job.year)
<1>1. job.walk \in Walk /\ job.year \in Int /\ Older(found, job.year) \subseteq Certificates
  BY CertificateSyncAssumption DEF Job, Older
<1>2. /\ more.year = job.year /\ more.all = job.all
      /\ more.walk = [newest |-> job.walk.newest,
                      passed |-> job.walk.passed \cup Older(found, job.year)]
  BY <1>1 DEF Job, Walk
<1>3. more.walk \in Walk
  BY <1>1, <1>2 DEF Walk
<1>4. more \in Job
  BY <1>3 DEF Job
<1>5. \A c \in Owed(more.walk) : c \in Owed(job.walk) /\ c \notin Older(found, job.year)
  BY <1>2 DEF Owed
<1>6. \A c \in found : c \notin Older(found, job.year) => c \in Writes(found, job.year)
  BY <1>1, CertificateSyncAssumption DEF Older, Writes
<1> QED
  BY <1>2, <1>4, <1>5, <1>6

LEMMA StoreKeeps ==
  ASSUME WalkInv, NEW r \in Runners, Store(r)
  PROVE  WalkInv'
<1>0. PICK old, page, found, next, job, w :
        /\ old = run[r].job /\ page = run[r].page
        /\ found = run[r].found /\ next = run[r].next
        /\ job = [old EXCEPT !.walk.passed = @ \cup Older(found, old.year)]
        /\ w = job.walk
  OBVIOUS
<1> DEFINE kept  == Writes(found, old.year)
           last  == ReachedStart(found, old.year) \/ ~next
<1>1. /\ page \in Nat \ {0} /\ found \subseteq Certificates /\ next \in BOOLEAN
      /\ JobFits(old) /\ FoundOrStored(old.walk, page, found, next)
  BY <1>0, SoundAt DEF WalkInv, Store, Storing
<1>2. /\ stored' = stored \cup kept
      /\ UNCHANGED <<listed, backfillYear, resumePage, walk, covered>>
      /\ listed' \in Certificates /\ stored' \subseteq Certificates
      /\ listed <= listed' /\ stored \subseteq stored'
  <2>1. job.year = old.year
    BY <1>0, <1>1, PassedOrWritten DEF JobFits
  <2> QED
    BY <1>0, <1>1, <2>1 DEF Store, Writes, WalkInv, Tables, Certificates
<1>3. /\ job \in Job /\ job.year = old.year /\ job.all = old.all
      /\ w.newest = old.walk.newest
      /\ \A c \in Owed(w) : c \in Owed(old.walk)
      /\ \A c \in Owed(w) : c \in found => c \in kept
  <2>1. old \in Job /\ job = [old EXCEPT !.walk.passed = @ \cup Older(found, old.year)]
    BY <1>0, <1>1 DEF JobFits
  <2>2. /\ job \in Job /\ job.year = old.year /\ job.all = old.all
        /\ job.walk.newest = old.walk.newest
        /\ \A c \in Owed(job.walk) : c \in Owed(old.walk)
        /\ \A c \in Owed(job.walk) : c \in found => c \in kept
    BY <1>1, <2>1, PassedOrWritten, Zenon
  <2> QED
    BY <1>0, <2>2
<1>4. JobFits(job)'
  <2>1. w \in Walk /\ w.newest <= listed
    BY <1>0, <1>1, <1>3 DEF JobFits, WalkFits, Job
  <2> QED
    BY <1>0, <1>2, <1>3, <2>1 DEF JobFits, WalkFits
<1>5. \A c \in Owed(w) :
        listed - c < page * PageSize \/ ~next \/ (\E d \in found : d < c) => c \in stored'
  BY <1>1, <1>2, <1>3 DEF FoundOrStored
<1>6. StoredBefore(w, page + 1)'
  <2>1. PICK n : n = page * PageSize
    OBVIOUS
  <2>2. ((page + 1) - 1) * PageSize = n
    BY <1>1, <2>1
  <2>3. \A c \in Owed(w) : listed - c < n => c \in stored'
    BY <1>5, <2>1
  <2>4. Owed(w)' = Owed(w) /\ listed' = listed
    BY <1>2 DEF Owed
  <2>5. \A c \in Owed(w) : listed' - c < ((page + 1) - 1) * PageSize => c \in stored'
    BY <2>2, <2>3, <2>4
  <2> QED
    BY <2>4, <2>5 DEF StoredBefore
<1>7. last => ToStore(job) \subseteq stored'
  <2>1. \A c \in ToStore(job) : c \in Owed(w)
    BY <1>0 DEF ToStore
  <2>2. CASE ~next
    BY <1>5, <2>1, <2>2
  <2>3. CASE ReachedStart(found, job.year)
    <3>1. \A c \in ToStore(job) : \E d \in found : d < c
      BY <1>1, <1>3, <2>3, StartIsReached
    <3> QED
      BY <1>5, <2>1, <3>1
  <2> QED
    BY <1>3, <2>2, <2>3
<1>8. PICK local :
        /\ Goes(r, local)
        /\ \/ /\ job.all
              /\ local = [pc |-> "saving", job |-> job, page |-> page, last |-> last]
           \/ ~job.all /\ local = Leave(job, FALSE)
           \/ ~job.all /\ local = Further(job, page)
  BY <1>0, <1>3 DEF Store
<1>9. Sound(local)'
  <2>1. CASE local = [pc |-> "saving", job |-> job, page |-> page, last |-> last]
    <3>1. local \in [pc: {"saving"}, job: Job, page: Nat \ {0}, last: BOOLEAN]
      BY <1>1, <1>3, <2>1
    <3>2. local.job = job /\ local.page = page /\ local.last = last
      BY <2>1
    <3> HIDE DEF last
    <3>3. JobFits(local.job)' /\ StoredBefore(local.job.walk, local.page + 1)'
      BY <1>0, <1>4, <1>6, <3>2
    <3>4. Saving(local)'
      BY <1>7, <3>2, <3>3 DEF Saving, ToStore, Owed
    <3> QED
      BY <3>1, <3>4 DEF Sound
  <2>2. CASE ~job.all /\ local = Leave(job, FALSE)
    BY <2>2 DEF Leave, Sound, Idle
  <2>3. CASE ~job.all /\ local = Further(job, page)
    <3>1. CASE page + 1 > MaxPages
      BY <2>3, <3>1 DEF Further, Leave, Sound, Idle
    <3>2. CASE ~(page + 1 > MaxPages)
      <4>1. local = [pc |-> "fetching", job |-> job, page |-> page + 1]
        BY <2>3, <3>2 DEF Further
      <4>2. local \in [pc: {"fetching"}, job: Job, page: Nat \ {0}]
        BY <1>1, <1>3, <4>1
      <4>3. local.job = job /\ local.page = page + 1
        BY <4>1
      <4>4. Fetching(local)'
        BY <1>0, <1>4, <1>6, <4>3 DEF Fetching
      <4> QED
        BY <4>2, <4>4 DEF Sound
    <3> QED
      BY <3>1, <3>2
  <2> QED
    BY <1>8, <2>1, <2>2, <2>3
<1> QED
  BY <1>2, <1>8, <1>9, Moves

(* Only now may the page be in `meta`. *)
LEMMA SavePageKeeps ==
  ASSUME WalkInv, NEW r \in Runners, SavePage(r)
  PROVE  WalkInv'
<1>1. Sound(run[r]) /\ run[r].pc = "saving"
  BY DEF WalkInv, SavePage
<1>2. /\ run[r].page \in Nat \ {0} /\ run[r].last \in BOOLEAN
      /\ JobFits(run[r].job) /\ StoredBefore(run[r].job.walk, run[r].page + 1)
      /\ run[r].last => ToStore(run[r].job) \subseteq stored
  BY <1>1, SoundAt DEF Saving
<1>3. PICK job, page : job = run[r].job /\ page = run[r].page
  OBVIOUS
<1>4. PICK local : Goes(r, local) /\ (local = Leave(job, FALSE) \/ local = Further(job, page))
                   /\ Sound(local)
  BY <1>2, <1>3, Leaves, GoesFurther DEF SavePage
<1>5. /\ resumePage' = page + 1 /\ walk' = job.walk
      /\ UNCHANGED <<listed, stored, backfillYear, covered>>
  BY <1>3 DEF SavePage, PageToResume
<1>6. /\ Tables /\ listed' \in Certificates /\ stored' \subseteq Certificates
      /\ listed <= listed' /\ stored \subseteq stored'
  BY <1>5 DEF WalkInv, Tables, Certificates
<1>7. /\ job.walk \in Walk /\ WalkFits(job.walk)'
      /\ page + 1 \in Nat \ {0, 1} /\ StoredBefore(job.walk, page + 1)'
  BY <1>2, <1>3, <1>6, Grows DEF JobFits, WalkFits
<1>8. Tables'
  <2>1. None # page + 1 /\ None # job.walk
    BY <1>7, CertificateSyncAssumption
  <2> QED
    BY <1>4, <1>5, <1>6, <1>7, <2>1 DEF Tables, Goes, WalkFits
<1>9. ResumeSkipsNothing'
  BY <1>5, <1>7 DEF ResumeSkipsNothing, StoredBefore, Owed
<1>10. \A q \in Runners : Sound(run[q])'
  BY <1>4, <1>6, Grows DEF WalkInv, Tables, Goes
<1> QED
  BY <1>5, <1>8, <1>9, <1>10 DEF WalkInv

(* What a walk claims when it is over, it has stored. *)
LEMMA MarkYearKeeps ==
  ASSUME WalkInv, NEW r \in Runners, MarkYear(r)
  PROVE  WalkInv'
<1>1. Sound(run[r]) /\ run[r].pc = "marking"
  BY DEF WalkInv, MarkYear
<1>2. PICK job, cut : job = run[r].job /\ cut = run[r].cut
  OBVIOUS
<1>3. job \in Job /\ cut \in BOOLEAN /\ (~cut => ToStore(job) \subseteq stored)
  BY <1>1, <1>2, SoundAt DEF Marking
<1> DEFINE local == [pc |-> "clearing"]
<1>4. Goes(r, local) /\ Sound(local)
  BY DEF MarkYear, Sound
<1>5. /\ backfillYear' \in StartYears /\ covered' \subseteq stored
      /\ UNCHANGED <<listed, stored, resumePage, walk>>
  BY <1>2, <1>3 DEF MarkYear, WalkInv, Job
<1>6. /\ Tables /\ listed' \in Certificates /\ stored' \subseteq Certificates
      /\ listed <= listed' /\ stored \subseteq stored'
  BY <1>5 DEF WalkInv, Tables, Certificates
<1> HIDE DEF local
<1>7. Tables'
  BY <1>4, <1>5, <1>6 DEF Tables, Goes, WalkFits
<1>8. ResumeSkipsNothing'
  BY <1>5 DEF WalkInv, ResumeSkipsNothing, StoredBefore, Owed
<1>9. \A q \in Runners : Sound(run[q])'
  BY <1>4, <1>6, Grows DEF WalkInv, Tables, Goes
<1> QED
  BY <1>5, <1>7, <1>8, <1>9 DEF WalkInv

LEMMA ClearPageKeeps ==
  ASSUME WalkInv, NEW r \in Runners, ClearPage(r)
  PROVE  WalkInv'
<1> DEFINE local == Idle
<1>4. Goes(r, local) /\ Sound(local)
  BY DEF ClearPage, Sound
<1>5. /\ resumePage' = None /\ walk' = None
      /\ UNCHANGED <<listed, stored, backfillYear, covered>>
  BY DEF ClearPage
<1>6. /\ Tables /\ listed' \in Certificates /\ stored' \subseteq Certificates
      /\ listed <= listed' /\ stored \subseteq stored'
  BY <1>5 DEF WalkInv, Tables, Certificates
<1> HIDE DEF local
<1>7. Tables'
  BY <1>4, <1>5, <1>6 DEF Tables, Goes
<1>8. ResumeSkipsNothing'
  BY <1>5 DEF ResumeSkipsNothing
<1>9. \A q \in Runners : Sound(run[q])'
  BY <1>4, <1>6, Grows DEF WalkInv, Tables, Goes
<1> QED
  BY <1>5, <1>7, <1>8, <1>9 DEF WalkInv

LEMMA StopKeeps ==
  ASSUME WalkInv, NEW r \in Runners, Stop(r)
  PROVE  WalkInv'
<1>1. Sound(Idle)
  BY DEF Sound
<1> QED
  BY <1>1, MovesOnly DEF Stop

-----------------------------------------------------------------------------
LEMMA WalkInit == Init => WalkInv
<1> SUFFICES ASSUME Init PROVE WalkInv
  OBVIOUS
<1>1. Tables
  BY CertificateSyncAssumption DEF Init, Tables
<1>2. \A r \in Runners : Sound(run[r])
  BY DEF Init, Sound
<1> QED
  BY <1>1, <1>2 DEF Init, WalkInv, ResumeSkipsNothing

LEMMA WalkStep == WalkInv /\ [Next]_vars => WalkInv'
<1> SUFFICES ASSUME WalkInv, [Next]_vars PROVE WalkInv'
  OBVIOUS
<1>1. CASE UNCHANGED vars
  <2>1. /\ Tables /\ listed' \in Certificates /\ stored' \subseteq Certificates
        /\ listed <= listed' /\ stored \subseteq stored'
    BY <1>1 DEF vars, WalkInv, Tables, Certificates
  <2>2. Tables' /\ ResumeSkipsNothing'
    BY <1>1 DEF vars, WalkInv, Tables, ResumeSkipsNothing, StoredBefore, Owed, WalkFits
  <2>3. \A r \in Runners : Sound(run[r])'
    BY <1>1, <2>1, Grows DEF vars, WalkInv
  <2> QED
    BY <1>1, <2>2, <2>3 DEF vars, WalkInv
<1>2. CASE Next
  BY <1>2, PublishKeeps, BeginKeeps, ReadResumePageKeeps, FetchPageKeeps, EmptyPageKeeps,
     StoreKeeps, SavePageKeeps, MarkYearKeeps, ClearPageKeeps, StopKeeps
     DEF Next, Progress
<1> QED
  BY <1>1, <1>2

LEMMA WalkHolds == Spec => []WalkInv
BY WalkInit, WalkStep, PTL DEF Spec

(* What the runs hold and what the tables contain is well-formed. *)
THEOREM TypeCorrect == Spec => []TypeOK
<1>1. WalkInv => TypeOK
  <2> SUFFICES ASSUME WalkInv PROVE TypeOK
    OBVIOUS
  <2>1. \A r \in Runners : run[r] \in LocalStates
    BY DEF WalkInv, Sound, LocalStates
  <2>2. covered \subseteq Certificates
    BY DEF WalkInv, Tables
  <2>3. run \in [Runners -> LocalStates]
    BY <2>1 DEF WalkInv, Tables
  <2> QED
    BY <2>2, <2>3 DEF WalkInv, Tables, TypeOK
<1> QED
  BY <1>1, WalkHolds, PTL

(* The page in `meta` is never beyond a certificate of the walk that is not in the
   table, whatever the site published and the other runners did meanwhile. *)
THEOREM NothingIsSkipped == Spec => []ResumeSkipsNothing
BY WalkHolds, PTL DEF WalkInv

(* A walk that has reached its end has stored all of the year it notes and after, whatever
   start years its runs had: all but what a page left out before the year was lowered. *)
THEOREM HistoryIsCovered == Spec => []WalksCoverHistory
BY WalkHolds, PTL DEF WalkInv, WalksCoverHistory
=============================================================================
