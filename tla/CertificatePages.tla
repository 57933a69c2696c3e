-------------------------- MODULE CertificatePages --------------------------
(***************************************************************************)
(* The pages of the PUZ and PUD certificates, sync_certificate_details in  *)
(* crates/core/src/sync.rs, with the HTTP client they are fetched with     *)
(* (scrape/client.rs): its attempts, its pause between two requests and    *)
(* its backoff.                                                            *)
(*                                                                         *)
(* A run selects the newest certificates without their page, at most       *)
(* MaxDetails of them, and asks for one after the other.  What a page says *)
(* is left out, also that it may say nothing: it counts as fetched all the *)
(* same.  Meanwhile the list of the certificates is read (CertificateSync) *)
(* and may change the kind of one.                                         *)
(*                                                                         *)
(* Time passes in ticks of one second; a process keeps what is left of its *)
(* pauses, not the time of its last request.                               *)
(***************************************************************************)
EXTENDS Integers, FiniteSets, FiniteSetsExt

CONSTANTS
  Server,
  Cli,           \* `urban sync`, one at a time; or none
  Certificates,  \* numbered, the newest last
  None,
  MaxDetails,    \* MAX_DETAILS_PER_RUN
  MaxAttempts,   \* MAX_ATTEMPTS
  Delay          \* URBAN_REQUEST_DELAY_MS, in ticks

Kinds == {"planning", "other"}   \* PUZ and PUD, or not
Row   == [kind: Kinds, fetched: BOOLEAN]

ASSUME CertificatePagesAssumption ==
  /\ Certificates \subseteq Nat
  /\ {MaxDetails, MaxAttempts, Delay} \subseteq Nat \ {0}
  /\ Server \notin Cli
  /\ None \notin Row

VARIABLES
  site,   \* whether the page of each certificate can be had
  rows,   \* table certificates: kind, and whether detail_fetched_at is set
  index,  \* certificates_fts: what the text of each was made of
  run,    \* what each process holds between two steps
  pause,  \* Client::throttle: ticks until it lets the next request through
  asked   \* history: requests of each process within this tick

vars == <<site, rows, index, run, pause, asked>>

Runners == {Server} \cup Cli
Idle    == [pc |-> "idle"]

Goes(p, local) == run' = [run EXCEPT ![p] = local]

-----------------------------------------------------------------------------
(* The page of a certificate disappears, or is there again. *)
Toggle(c) ==
  /\ site' = [site EXCEPT ![c] = ~@]
  /\ UNCHANGED <<rows, index, run, pause, asked>>

(* Mutant: INSERT OR REPLACE. *)
ReplacedBy(c, kind) == [kind |-> kind, fetched |-> FALSE]

(* The columns of the page are not among those the list updates. *)
UpsertedBy(c, kind) ==
  [kind |-> kind, fetched |-> rows[c] # None /\ rows[c].fetched]

(* write_certificates, for one certificate of the list; the index follows. *)
ListCertificate(c, kind) ==
  /\ rows[c] # None => rows[c].kind # kind
  /\ rows' = [rows EXCEPT ![c] = UpsertedBy(c, kind)]
  /\ index' = [index EXCEPT ![c] = rows'[c]]
  /\ UNCHANGED <<site, run, pause, asked>>

-----------------------------------------------------------------------------
Pending ==
  {c \in Certificates : rows[c] # None /\ rows[c].kind = "planning" /\ ~rows[c].fetched}

(* certificates_needing_details: ORDER BY date DESC LIMIT. *)
Selected ==
  {c \in Pending : Cardinality({d \in Pending : d > c}) < MaxDetails}

Asking(todo, attempt, wait) ==
  [pc |-> "asking", todo |-> todo, attempt |-> attempt, wait |-> wait]

(* The next page of the run, or its end. *)
Continue(todo) == IF todo = {} THEN Idle ELSE Asking(todo, 1, 0)

(* Mutant: the first page that cannot be had ends the run. *)
GiveUp(rest) == Idle

(* A page that cannot be had is left to a later run. *)
Skip(rest) == Continue(rest)

Begin(p) ==
  /\ run[p].pc = "idle"
  /\ Selected # {}
  /\ Goes(p, Continue(Selected))
  /\ UNCHANGED <<site, rows, index, pause, asked>>

(* Mutant: the pause is measured only after an answer that was used. *)
PauseAfterSuccess(p, answered) == IF answered THEN Delay ELSE 0

PauseAfter(p, answered) == Delay

(* The certificate a run is at, and those after it. *)
Newest(p, c) == c \in run[p].todo /\ \A d \in run[p].todo : d <= c

Rest(p, c) == run[p].todo \ {c}

(* get_bytes sends a request: the backoff is over, throttle has let it through. *)
Request(p, c, answered) ==
  /\ run[p].pc = "asking"
  /\ Newest(p, c)
  /\ run[p].wait = 0
  /\ pause[p] = 0
  /\ pause' = [pause EXCEPT ![p] = PauseAfter(p, answered)]
  /\ asked' = [asked EXCEPT ![p] = @ + 1]

Answered(p, c) ==
  /\ Request(p, c, TRUE)
  /\ site[c]
  /\ Goes(p, [pc |-> "writing", todo |-> run[p].todo])
  /\ UNCHANGED <<site, rows, index>>

(* Mutant: one attempt too many. *)
OneMore(attempt) == attempt <= MaxAttempts

MayRetry(attempt) == attempt < MaxAttempts

(* 5xx, 429, a timeout, no connection: again after 2, then 4 seconds. *)
Transient(p, c) ==
  LET local == run[p]
  IN /\ Request(p, c, FALSE)
     /\ Goes(p, IF MayRetry(local.attempt)
                THEN Asking(local.todo, local.attempt + 1, 2^local.attempt)
                ELSE Skip(Rest(p, c)))
     /\ UNCHANGED <<site, rows, index>>

(* Any other status; or the body of a good answer is cut, which is not retried. *)
Refused(p, c) ==
  /\ Request(p, c, FALSE)
  /\ ~site[c]
  /\ Goes(p, Skip(Rest(p, c)))
  /\ UNCHANGED <<site, rows, index>>

CutShort(p, c) ==
  /\ Request(p, c, FALSE)
  /\ site[c]
  /\ Goes(p, Skip(Rest(p, c)))
  /\ UNCHANGED <<site, rows, index>>

(* Mutant: the index is left to the next sync of the list. *)
IndexLater(c, row) == index

Reindexed(c, row) == [index EXCEPT ![c] = row]

(* write_certificate_details, whatever its kind has become. *)
Write(p, c) ==
  LET row == [kind |-> rows[c].kind, fetched |-> TRUE]
  IN /\ run[p].pc = "writing"
     /\ Newest(p, c)
     /\ rows' = [rows EXCEPT ![c] = row]
     /\ index' = Reindexed(c, row)
     /\ Goes(p, Continue(Rest(p, c)))
     /\ UNCHANGED <<site, pause, asked>>

(* An error of the database ends the run ... *)
Fail(p) ==
  /\ run[p].pc = "writing"
  /\ Goes(p, Idle)
  /\ UNCHANGED <<site, rows, index, pause, asked>>

(* ... a restart also the client and what it knew of its last request. *)
Restart(p) ==
  /\ run[p].pc # "idle" \/ pause[p] > 0
  /\ Goes(p, Idle)
  /\ pause' = [pause EXCEPT ![p] = 0]
  /\ asked' = [asked EXCEPT ![p] = 0]
  /\ UNCHANGED <<site, rows, index>>

Less(n) == IF n > 0 THEN n - 1 ELSE 0

Tick ==
  /\ \E p \in Runners :
       \/ asked[p] > 0
       \/ pause[p] > 0
       \/ run[p].pc = "asking" /\ run[p].wait > 0
  /\ pause' = [p \in Runners |-> Less(pause[p])]
  /\ asked' = [p \in Runners |-> 0]
  /\ run' = [p \in Runners |-> IF run[p].pc = "asking"
                               THEN Asking(run[p].todo, run[p].attempt, Less(run[p].wait))
                               ELSE run[p]]
  /\ UNCHANGED <<site, rows, index>>

-----------------------------------------------------------------------------
Init ==
  /\ site \in [Certificates -> BOOLEAN]
  /\ rows = [c \in Certificates |-> None]
  /\ index = [c \in Certificates |-> None]
  /\ run = [p \in Runners |-> Idle]
  /\ pause = [p \in Runners |-> 0]
  /\ asked = [p \in Runners |-> 0]

Interrupted(p) ==
  \/ \E c \in Certificates : Transient(p, c) \/ CutShort(p, c)
  \/ Fail(p)
  \/ Restart(p)

Step(p) ==
  \/ Begin(p)
  \/ \E c \in Certificates : Answered(p, c) \/ Refused(p, c) \/ Write(p, c)

Next ==
  \/ Tick
  \/ \E c \in Certificates : Toggle(c) \/ \E kind \in Kinds : ListCertificate(c, kind)
  \/ \E p \in Runners : Step(p) \/ Interrupted(p)

Spec == Init /\ [][Next]_vars

(* The server starts runs for ever (jobs.rs:43-47), time passes, and the site, the
   database and the server stop failing at some point, except for pages that are
   not there. *)
FairSpec ==
  /\ Spec
  /\ WF_vars(Tick)
  /\ WF_vars(Step(Server))
  /\ <>[][~Interrupted(Server)]_vars

-----------------------------------------------------------------------------
LocalStates ==
  {Idle}
  \cup [pc: {"asking"}, todo: (SUBSET Certificates) \ {{}}, attempt: 1..MaxAttempts,
        wait: 0..2^(MaxAttempts - 1)]
  \cup [pc: {"writing"}, todo: (SUBSET Certificates) \ {{}}]

(* Tables and local states are well-formed; no page is asked for more than
   MAX_ATTEMPTS times in one run. *)
TypeOK ==
  /\ site \in [Certificates -> BOOLEAN]
  /\ rows \in [Certificates -> Row \cup {None}]
  /\ index \in [Certificates -> Row \cup {None}]
  /\ run \in [Runners -> LocalStates]
  /\ pause \in [Runners -> 0..Delay]
  /\ asked \in [Runners -> Nat]

(* "Cel mult o cerere pe secundă" (requirements.md:184), for one process: through
   retries, failures and the change from one page to the next. *)
ProcessIsPolite == \A p \in Runners : asked[p] <= 1

(* What the search and the keywords see of a certificate is what its row says, in
   whichever order the list and the page were read, and how often. *)
IndexShowsRow == index = rows

(* A page that was fetched stays fetched (FR-10.6): the list, read again at every
   sync, does not make the site serve it again. *)
FetchedForGood ==
  [][\A c \in Certificates : rows[c] # None /\ rows[c].fetched => rows'[c].fetched]_vars

(* "cel mult ~10 minute; restul la rularea următoare" (sync.rs:38): a PUZ or PUD
   whose page can be had from some time on is fetched, if all pages can, but for
   fewer than MaxDetails. *)
PagesAreFetched ==
  \A c \in Certificates, gone \in kSubset(MaxDetails - 1, Certificates) :
    c \notin gone =>
      (<>[](/\ rows[c] # None /\ rows[c].kind = "planning"
            /\ \A d \in Certificates \ gone : site[d])
         => <>(rows[c] # None /\ rows[c].fetched))
=============================================================================
