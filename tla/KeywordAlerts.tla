---------------------------- MODULE KeywordAlerts ----------------------------
(***************************************************************************)
(* Alerts on keywords: crates/core/src/alerts.rs, with what it reads and   *)
(* moves in crates/core/src/accounts.rs and db.rs.                         *)
(*                                                                         *)
(* The sync task of the server (crates/app/src/jobs.rs) sleeps, syncs and  *)
(* then goes through the accounts that hold keywords.  An account is sent  *)
(* the entries (projects, certificates) first seen after its window, and   *)
(* the window moves once the mail has left.  `urban sync` of the command   *)
(* line writes entries too but sends no digest.  Meanwhile visitors open   *)
(* and delete accounts and change keywords.  Times have the resolution of  *)
(* now_iso, a tick of the clock: several steps share one.                  *)
(*                                                                         *)
(* The words of an entry are those its indexed text has at the time.  Each *)
(* later sync writes it again and may add words (the beneficiary, once the *)
(* agenda is out; the fields of a certificate's page), replace them (title *)
(* or purpose and address) and replace the date of a certificate; never    *)
(* the time it was first seen.  Accounts models credits; a query finds     *)
(* fewer entries here than its LIMIT.                                      *)
(***************************************************************************)
EXTENDS Integers, FiniteSets

CONSTANTS
  Server,        \* the sync task
  Cli,           \* runs of `urban sync`, none or one at a time
  Emails,
  Words,
  Entries,       \* projects and certificates the site publishes
  Certificates,  \* the certificates among them
  None,
  Window,        \* CERT_ALERT_WINDOW_DAYS, in ticks
  MaxUserId,     \* bound: row ids of users
  MaxClock       \* bound: ticks

Runners == {Server} \cup Cli
UserIds == 1..MaxUserId
Time    == 0..MaxClock
User    == [email: Emails, since: Time]
Entry   == [seen: Time, issued: Int, words: SUBSET Words,
            always: SUBSET Words, by: Runners]

ASSUME KeywordAlertsAssumption ==
  /\ {Window, MaxUserId, MaxClock} \subseteq Nat
  /\ Certificates \subseteq Entries
  /\ Server \notin Cli
  /\ None \notin Int \cup User \cup Entry

VARIABLES
  clock,
  users,    \* users: address and alerts_checked_until of each row
  held,     \* keywords: when each was added to an account
  entries,  \* items and certificates; `always`, `by` are history: by which words
            \* it could be found ever since, and who wrote it first
  run,      \* what the sync task and the command line hold between two steps
  mailed,   \* history: which address was sent which entry
  settled   \* history: those after which the window of the account has moved

vars == <<clock, users, held, entries, run, mailed, settled>>

Row == [id: UserIds, email: Emails, since: Time]

Live == {u \in UserIds : users[u] # None}

HeldBy(u) == {w \in Words : held[u][w] # None}

NoWords == [w \in Words |-> None]

Stored == {x \in Entries : entries[x] # None}

Asleep(until) == [pc |-> "asleep", until |-> until]

Goes(r, local) == run' = [run EXCEPT ![r] = local]

-----------------------------------------------------------------------------
(* Accounts and keywords, between the steps of the digest. *)
SignUp(e) ==
  /\ \A v \in Live : users[v].email # e
  /\ \E u \in UserIds :
       /\ \A v \in Live : v < u
       /\ u = 1 \/ u - 1 \in Live
       /\ users' = [users EXCEPT ![u] = [email |-> e, since |-> clock]]
  /\ UNCHANGED <<clock, held, entries, run, mailed, settled>>

AddKeyword(u, w) ==
  /\ u \in Live
  /\ w \notin HeldBy(u)
  /\ held' = [held EXCEPT ![u][w] = clock]
  /\ UNCHANGED <<clock, users, entries, run, mailed, settled>>

DeleteKeyword(u, w) ==
  /\ w \in HeldBy(u)
  /\ held' = [held EXCEPT ![u][w] = None]
  /\ UNCHANGED <<clock, users, entries, run, mailed, settled>>

(* Mutant: the keywords outlive their account. *)
KeywordsStay(u) == held

KeywordsCascade(u) == [held EXCEPT ![u] = NoWords]

DeleteUser(u) ==
  /\ u \in Live
  /\ users' = [users EXCEPT ![u] = None]
  /\ held' = KeywordsCascade(u)
  /\ UNCHANGED <<clock, entries, run, mailed, settled>>

-----------------------------------------------------------------------------
(* run_once, or the command line: a sync starts. *)
StartSync(r) ==
  /\ run[r].pc = "asleep"
  /\ run[r].until <= clock
  /\ Goes(r, [pc |-> "syncing"])
  /\ UNCHANGED <<clock, users, held, entries, mailed, settled>>

(* write_meeting, write_certificates, write_certificate_details: the time is
   taken at the beginning of the transaction ... *)
BeginWrite(r, x) ==
  /\ run[r].pc = "syncing"
  /\ Goes(r, [pc |-> "writing", entry |-> x, now |-> clock])
  /\ UNCHANGED <<clock, users, held, entries, mailed, settled>>

(* History: the words by which a digest can find an entry; of a certificate, none
   unless it was issued within the window before it was seen. *)
Findable(x, words, issued, seen) ==
  IF x \in Certificates /\ issued < seen - Window THEN {} ELSE words

(* The row a write leaves: first_seen_at is not among the columns updated; the text and
   the date of a certificate are. *)
Upserted(r, x, now, words, issued) ==
  IF x \in Stored
  THEN [entries[x] EXCEPT
          !.issued = issued, !.words = words,
          !.always = @ \cap Findable(x, words, issued, entries[x].seen)]
  ELSE [seen |-> now, issued |-> issued, words |-> words,
        always |-> Findable(x, words, issued, now), by |-> r]

(* ... and the row is there once it has committed, with the words and the date that the
   page had. *)
CommitWrite(r, words) ==
  LET x   == run[r].entry
      now == run[r].now
  IN /\ run[r].pc = "writing"
     /\ \E issued \in IF x \in Certificates THEN {now, now - Window - 1} ELSE {now} :
          entries' = [entries EXCEPT ![x] = Upserted(r, x, now, words, issued)]
     /\ Goes(r, [pc |-> "syncing"])
     /\ UNCHANGED <<clock, users, held, mailed, settled>>

(* The command line is done; a sync of the server goes on to the digest. *)
EndSync(r) ==
  /\ r \in Cli
  /\ run[r].pc = "syncing"
  /\ Goes(r, Asleep(0))
  /\ UNCHANGED <<clock, users, held, entries, mailed, settled>>

-----------------------------------------------------------------------------
(* The next account, or the pause until the next run. *)
Continue(todo) ==
  IF todo = {} THEN Asleep(clock + 1) ELSE [pc |-> "digest", todo |-> todo]

(* users_with_keywords: the accounts that hold keywords, in one SELECT, whether
   or not the sync before it has failed. *)
ListUsers ==
  /\ run[Server].pc = "syncing"
  /\ Goes(Server, Continue(
       {[id |-> u, email |-> users[u].email, since |-> users[u].since] :
          u \in {v \in Live : HeldBy(v) # {}}}))
  /\ UNCHANGED <<clock, users, held, entries, mailed, settled>>

(* The accounts are taken in the order of their ids: `now`, then the keywords
   as they are by now; address and window are those of the list. *)
TakeUser ==
  LET todo == run[Server].todo
  IN /\ run[Server].pc = "digest"
     /\ \E row \in todo :
          /\ \A other \in todo : row.id <= other.id
          /\ Goes(Server, [pc |-> "matching", todo |-> todo \ {row}, row |-> row,
                           now |-> clock, words |-> HeldBy(row.id)])
     /\ UNCHANGED <<clock, users, held, entries, mailed, settled>>

(* Mutant: an entry of the very second of the window counts as new. *)
NewOrSame(x, since) == entries[x].seen >= since

NewFor(x, since) == entries[x].seen > since

RecentFor(x, since) ==
  x \in Certificates => entries[x].issued >= since - Window

(* find_matches. *)
Matches(words, since) ==
  {x \in Stored : /\ NewFor(x, since)
                  /\ RecentFor(x, since)
                  /\ entries[x].words \cap words # {}}

FindMatches ==
  LET local == run[Server]
      found == Matches(local.words, local.row.since)
  IN /\ local.pc = "matching"
     /\ Goes(Server,
          [pc |-> IF found = {} THEN "advancing" ELSE "sending", todo |-> local.todo,
           row |-> local.row, now |-> local.now, found |-> found])
     /\ UNCHANGED <<clock, users, held, entries, mailed, settled>>

(* send_keyword_digest, answered with success. *)
Send ==
  LET local == run[Server]
  IN /\ local.pc = "sending"
     /\ mailed' = mailed \cup ({local.row.email} \X local.found)
     /\ Goes(Server, [local EXCEPT !.pc = "logging"])
     /\ UNCHANGED <<clock, users, held, entries, settled>>

(* Mutant: a failed send moves the window like a successful one. *)
AdvanceAnyway(local) == [local EXCEPT !.pc = "advancing"]

AfterFailure(local) == Continue(local.todo)

(* send_keyword_digest fails: nothing has left, or the answer came too late. *)
FailToSend ==
  LET local == run[Server]
  IN /\ local.pc = "sending"
     /\ \E left \in BOOLEAN :
          mailed' = IF left THEN mailed \cup ({local.row.email} \X local.found)
                    ELSE mailed
     /\ Goes(Server, AfterFailure(local))
     /\ UNCHANGED <<clock, users, held, entries, settled>>

(* log_alert: its foreign key needs the account.  Without it, the digest ends
   for the accounts that follow too (Stop). *)
LogAlert ==
  LET local == run[Server]
  IN /\ local.pc = "logging"
     /\ local.row.id \in Live
     /\ Goes(Server, [local EXCEPT !.pc = "advancing"])
     /\ UNCHANGED <<clock, users, held, entries, mailed, settled>>

(* set_alerts_checked_until, by the row id of the list; no row, no change. *)
Advance ==
  LET local == run[Server]
      u     == local.row.id
  IN /\ local.pc = "advancing"
     /\ users' = IF u \in Live
                 THEN [users EXCEPT ![u].since = local.now] ELSE users
     /\ settled' = settled \cup ({local.row.email} \X local.found)
     /\ Goes(Server, Continue(local.todo))
     /\ UNCHANGED <<clock, held, entries, mailed>>

(* An error of the database, or a restart: an open transaction is rolled back,
   and the server begins again after a pause. *)
Stop(r) ==
  /\ run[r].pc # "asleep"
  /\ Goes(r, Asleep(IF r = Server THEN clock + 1 ELSE 0))
  /\ UNCHANGED <<clock, users, held, entries, mailed, settled>>

Tick ==
  /\ clock < MaxClock
  /\ clock' = clock + 1
  /\ UNCHANGED <<users, held, entries, run, mailed, settled>>

-----------------------------------------------------------------------------
Init ==
  /\ clock = 0
  /\ users = [u \in UserIds |-> None]
  /\ held = [u \in UserIds |-> NoWords]
  /\ entries = [x \in Entries |-> None]
  /\ run = [r \in Runners |-> Asleep(0)]
  /\ mailed = {}
  /\ settled = {}

Next ==
  \/ Tick
  \/ \E e \in Emails : SignUp(e)
  \/ \E u \in UserIds :
       \/ \E w \in Words : AddKeyword(u, w) \/ DeleteKeyword(u, w)
       \/ DeleteUser(u)
  \/ \E r \in Runners :
       \/ StartSync(r)
       \/ \E x \in Entries : BeginWrite(r, x)
       \/ \E words \in SUBSET Words : CommitWrite(r, words)
       \/ EndSync(r)
       \/ Stop(r)
  \/ ListUsers
  \/ TakeUser
  \/ FindMatches
  \/ Send
  \/ FailToSend
  \/ LogAlert
  \/ Advance

Spec == Init /\ [][Next]_vars

-----------------------------------------------------------------------------
LocalStates ==
  [pc: {"asleep"}, until: Nat]
  \cup [pc: {"syncing"}]
  \cup [pc: {"writing"}, entry: Entries, now: Time]
  \cup [pc: {"digest"}, todo: (SUBSET Row) \ {{}}]
  \cup [pc: {"matching"}, todo: SUBSET Row, row: Row, now: Time, words: SUBSET Words]
  \cup [pc: {"sending", "logging", "advancing"}, todo: SUBSET Row, row: Row,
        now: Time, found: SUBSET Entries]

(* Tables and local states are well-formed; whoever holds keywords is live. *)
TypeOK ==
  /\ clock \in Time
  /\ users \in [UserIds -> User \cup {None}]
  /\ held \in [UserIds -> [Words -> Time \cup {None}]]
  /\ \A u \in UserIds : HeldBy(u) # {} => u \in Live
  /\ entries \in [Entries -> Entry \cup {None}]
  /\ run \in [Runners -> LocalStates]
  /\ mailed \subseteq Emails \X Entries
  /\ settled \subseteq Emails \X Entries

(* "Dacă emailul nu pleacă, fereastra nu avansează și se reîncearcă" (alerts.rs:6-7):
   once the window of an account has passed an entry of the server that has matched,
   ever since it was first stored, a keyword the account held before, the entry has been
   sent to it: whatever failed or was interrupted, and whoever had the row id before.
   Of the certificates, this is about those issued, then and ever since, within the
   window of CERT_ALERT_WINDOW_DAYS before they were seen.  An entry that a later sync
   rewrites without the word, between a failed mail and the retry, is not claimed: the
   code finds nothing at the retry, moves the window and never mails it. *)
NothingMissed ==
  \A u \in Live, x \in Stored :
    /\ entries[x].by = Server
    /\ entries[x].seen <= users[u].since
    /\ \E w \in entries[x].always \cap HeldBy(u) : held[u][w] < entries[x].seen
    => <<users[u].email, x>> \in mailed

(* An entry of the server is not sent again once the window has moved past the
   mail it was in: not by an entry of the same second, a window moved by the
   digest of a row id's former account, or a new account for the same address. *)
NoRepeat ==
  [][Send \/ FailToSend =>
       \A x \in run[Server].found :
         entries[x].by = Server => <<run[Server].row.email, x>> \notin settled]_vars
=============================================================================
